---------------------------- MODULE MetricsLease ----------------------------
(***************************************************************************)
(* The metric rollup job (runRollup) on several app instances, and the     *)
(* stored metric of one day that it and recomputeDay maintain.             *)
(*                                                                         *)
(* The lease is the RUNNING MetricsJobRun row.  It is claimed in one short *)
(* transaction under pg_try_advisory_xact_lock, so a claim is one atomic   *)
(* step; a claim that does not get the advisory lock returns null and is a *)
(* stuttering step.  The job itself runs outside that lock: it reads the   *)
(* day (computeAnalytics) and later upserts what it computed.              *)
(*                                                                         *)
(* The day's figures are abstracted to the version of the data they were   *)
(* computed from.                                                          *)
(***************************************************************************)
EXTENDS Naturals

CONSTANTS
  Instances,    \* schedulers and admins pressing the manual rollup
  Revokers,     \* leave revocations: DELETE leave, then recomputeDay
  RunIds,       \* MetricsJobRun rows; a finished one nobody owns is recycled
  None,
  LeaseTimeout, \* LEASE_TIMEOUT_MS, in clock ticks
  MaxFaults     \* bound: how often the job throws or its process dies

ASSUME LeaseAssumption ==
  /\ None \notin RunIds
  /\ LeaseTimeout \in Nat /\ MaxFaults \in Nat
  /\ Instances \cap Revokers = {}

Procs == Instances \cup Revokers

VARIABLES
  status,   \* status of each MetricsJobRun row
  age,      \* ticks since a RUNNING row's startedAt, up to just past the timeout
  pc,       \* where each process is
  runOf,    \* the row a process created and will close
  snap,     \* the data version its figures were computed from
  source,   \* version of the day's data
  metric,   \* version the stored metric was computed from
  faults

vars == <<status, age, pc, runOf, snap, source, metric, faults>>

Edits == Nat
Steps == {"idle", "computing", "writing", "closing", "spent"}

TypeOK ==
  /\ status \in [RunIds -> {"NONE", "RUNNING", "COMPLETED", "FAILED"}]
  /\ age \in [RunIds -> 0..LeaseTimeout + 1]
  /\ pc \in [Procs -> Steps]
  /\ runOf \in [Procs -> RunIds \cup {None}]
  /\ snap \in [Procs -> Edits]
  /\ source \in Edits
  /\ metric \in Edits
  /\ faults \in 0..MaxFaults

Init ==
  /\ status = [r \in RunIds |-> "NONE"]
  /\ age = [r \in RunIds |-> 0]
  /\ pc = [p \in Procs |-> "idle"]
  /\ runOf = [p \in Procs |-> None]
  /\ snap = [p \in Procs |-> 0]
  /\ source = 0
  /\ metric = 0
  /\ faults = 0

-----------------------------------------------------------------------------
Goto(p, step) == pc' = [pc EXCEPT ![p] = step]

\* A RUNNING row older than the timeout is assumed to be a dead process's.
Expired(r) == status[r] = "RUNNING" /\ age[r] > LeaseTimeout

\* Slips: every RUNNING row is reclaimed, or none is.
ReclaimsAll == [r \in RunIds |-> IF status[r] = "RUNNING" THEN "FAILED" ELSE status[r]]
ReclaimsNone == status

AfterExpiry == [r \in RunIds |-> IF Expired(r) THEN "FAILED" ELSE status[r]]

\* Slip: the claim does not look for an active row.
ActiveUnchecked == FALSE

Active == \E r \in RunIds : AfterExpiry[r] = "RUNNING"

\* Nobody still refers to the row, so it may stand for a new one.
Unowned(r) == status[r] # "RUNNING" /\ \A p \in Procs : runOf[p] # r

\* The claiming transaction, granted: expire, find no active row, create one.
Claim(p, r) ==
  /\ p \in Instances
  /\ pc[p] = "idle"
  /\ Unowned(r)
  /\ ~Active
  /\ status' = [AfterExpiry EXCEPT ![r] = "RUNNING"]
  /\ age' = [s \in RunIds |-> IF s = r \/ Expired(s) THEN 0 ELSE age[s]]
  /\ runOf' = [runOf EXCEPT ![p] = r]
  /\ Goto(p, "computing")
  /\ UNCHANGED <<snap, source, metric, faults>>

\* DELETE leave changes what the day should say, then calls recomputeDay, which
\* takes no lease.  Each revoker acts once.
RevokeLeave(p) ==
  /\ p \in Revokers
  /\ pc[p] = "idle"
  /\ source' = source + 1
  /\ Goto(p, "computing")
  /\ UNCHANGED <<status, age, runOf, snap, metric, faults>>

\* rollupUniversityDaily: computeAnalytics reads the day ...
Compute(p) ==
  /\ pc[p] = "computing"
  /\ snap' = [snap EXCEPT ![p] = source]
  /\ Goto(p, "writing")
  /\ UNCHANGED <<status, age, runOf, source, metric, faults>>

\* Slip: an upsert whose update part is empty; the day has a row already.
WriteOnce(p) ==
  /\ pc[p] = "writing"
  /\ snap' = [snap EXCEPT ![p] = 0]
  /\ Goto(p, IF p \in Instances THEN "closing" ELSE "spent")
  /\ UNCHANGED <<status, age, runOf, source, metric, faults>>

\* ... and the upserts write it, whatever is stored by then.
Write(p) ==
  /\ pc[p] = "writing"
  /\ metric' = snap[p]
  /\ snap' = [snap EXCEPT ![p] = 0]
  /\ Goto(p, IF p \in Instances THEN "closing" ELSE "spent")
  /\ UNCHANGED <<status, age, runOf, source, faults>>

\* The row is closed by id, without looking at its status.
CloseAs(p, outcome) ==
  /\ status' = [status EXCEPT ![runOf[p]] = outcome]
  /\ age' = [age EXCEPT ![runOf[p]] = 0]
  /\ runOf' = [runOf EXCEPT ![p] = None]
  /\ snap' = [snap EXCEPT ![p] = 0]
  /\ Goto(p, "idle")
  /\ UNCHANGED <<source, metric>>

Complete(p) ==
  /\ p \in Instances
  /\ pc[p] = "closing"
  /\ CloseAs(p, "COMPLETED")
  /\ UNCHANGED faults

\* The engine, an upsert or the closing update threw: recorded, rethrown, and the
\* timer lives on.
Fail(p) ==
  /\ faults < MaxFaults
  /\ p \in Instances
  /\ pc[p] \in {"computing", "writing", "closing"}
  /\ CloseAs(p, "FAILED")
  /\ faults' = faults + 1

\* The process dies: whatever row it had stays as it is.
Crash(p) ==
  /\ faults < MaxFaults
  /\ pc[p] \in {"computing", "writing", "closing"}
  /\ faults' = faults + 1
  /\ runOf' = [runOf EXCEPT ![p] = None]
  /\ snap' = [snap EXCEPT ![p] = 0]
  /\ Goto(p, IF p \in Instances THEN "idle" ELSE "spent")
  /\ UNCHANGED <<status, age, source, metric>>

Older(r) == IF status[r] = "RUNNING" /\ age[r] <= LeaseTimeout THEN age[r] + 1 ELSE age[r]

Tick ==
  /\ age' = [r \in RunIds |-> Older(r)]
  /\ UNCHANGED <<status, pc, runOf, snap, source, metric, faults>>

Next ==
  \/ \E p \in Procs :
       \/ \E r \in RunIds : Claim(p, r)
       \/ RevokeLeave(p)
       \/ Compute(p) \/ Write(p) \/ Complete(p) \/ Fail(p)
       \/ Crash(p)
  \/ Tick

Spec == Init /\ [][Next]_vars

\* setInterval keeps ticking and time passes; a running job goes on.  MaxFaults
\* stands for an engine that does not throw, and processes that do not die, for
\* ever.
Fairness ==
  /\ WF_vars(Tick)
  /\ \A p \in Procs :
       /\ WF_vars(\E r \in RunIds : Claim(p, r))
       /\ WF_vars(Compute(p) \/ Write(p) \/ Complete(p))

FairSpec == Spec /\ Fairness

-----------------------------------------------------------------------------
(* Properties.                                                             *)

\* N instances produce one rollup: at most one MetricsJobRun row is RUNNING,
\* whatever crashes, expiries and late completions happen.
AtMostOneRunning ==
  \A r, s \in RunIds : status[r] = "RUNNING" /\ status[s] = "RUNNING" => r = s

\* A lease within its time is not taken away: only the process that claimed it
\* ends it, and a claim never lands beside it.
LiveLeaseIsRespected ==
  [][\A r \in RunIds :
       status[r] = "RUNNING" /\ ~Expired(r) /\ status'[r] # "RUNNING" =>
         \E p \in Instances : runOf[p] = r /\ runOf'[p] = None]_vars

\* A process dying mid-rollup does not wedge the scheduler: every lease ends.
LeaseEnds == \A r \in RunIds : status[r] = "RUNNING" ~> status[r] # "RUNNING"

\* Missed ticks, restarts and overlapping runs cost time, never correctness: for
\* a day the schedule still covers, the stored metric catches up with the data
\* for good once the data stops changing.
Converges == <>[](metric = source)
=============================================================================
