------------------------- MODULE MetricsLeaseProofs -------------------------
(***************************************************************************)
(* Proofs about the rollup lease, for any number of instances, revocations *)
(* and job rows, and any timeout.                                          *)
(***************************************************************************)
EXTENDS MetricsLease, TLAPS

LEMMA InitTypeOK == Init => TypeOK
  BY LeaseAssumption DEF Init, TypeOK, Steps, Edits

\* Closing a row, under either outcome, keeps the types of what it writes.
LEMMA CloseAsTypes ==
  ASSUME TypeOK, NEW p \in Instances, NEW outcome \in {"COMPLETED", "FAILED"},
         CloseAs(p, outcome), faults' \in 0..MaxFaults
  PROVE  TypeOK'
<1>1. p \in Procs
  BY DEF Procs
<1>2. status' \in [RunIds -> {"NONE", "RUNNING", "COMPLETED", "FAILED"}]
  BY DEF CloseAs, TypeOK
<1>3. age' \in [RunIds -> 0..LeaseTimeout + 1]
  <2>1. 0 \in 0..LeaseTimeout + 1
    BY LeaseAssumption
  <2>2. age' = [age EXCEPT ![runOf[p]] = 0]
    BY DEF CloseAs
  <2> QED
    BY <2>1, <2>2, Zenon DEF TypeOK
<1>4. runOf' \in [Procs -> RunIds \cup {None}]
  BY DEF CloseAs, TypeOK
<1>5. pc' \in [Procs -> Steps] /\ snap' \in [Procs -> Edits]
  BY DEF CloseAs, TypeOK, Goto, Steps, Edits
<1> QED
  BY <1>2, <1>3, <1>4, <1>5 DEF CloseAs, TypeOK

\* Every step of every process, and the passing of time, keeps the types.
LEMMA NextTypeOK == TypeOK /\ [Next]_vars => TypeOK'
<1> SUFFICES ASSUME TypeOK, [Next]_vars PROVE TypeOK'
  OBVIOUS
<1> USE LeaseAssumption DEF TypeOK, Steps, Edits, Goto
<1>1. ASSUME NEW p \in Procs, NEW r \in RunIds, Claim(p, r) PROVE TypeOK'
  <2>1. AfterExpiry \in [RunIds -> {"NONE", "RUNNING", "COMPLETED", "FAILED"}]
    BY DEF AfterExpiry
  <2>2. age' \in [RunIds -> 0..LeaseTimeout + 1]
    BY <1>1 DEF Claim
  <2> QED
    BY <1>1, <2>1, <2>2 DEF Claim, Procs
<1>2. ASSUME NEW p \in Procs, RevokeLeave(p) PROVE TypeOK'
  BY <1>2 DEF RevokeLeave
<1>3. ASSUME NEW p \in Procs, Compute(p) PROVE TypeOK'
  BY <1>3 DEF Compute
<1>4. ASSUME NEW p \in Procs, Write(p) PROVE TypeOK'
  BY <1>4 DEF Write
<1>5. ASSUME NEW p \in Procs, Complete(p) PROVE TypeOK'
  BY <1>5, CloseAsTypes DEF Complete
<1>6. ASSUME NEW p \in Procs, Fail(p) PROVE TypeOK'
  BY <1>6, CloseAsTypes DEF Fail
<1>7. ASSUME NEW p \in Procs, Crash(p) PROVE TypeOK'
  BY <1>7 DEF Crash
<1>8. CASE Tick
  BY <1>8 DEF Tick, Older
<1>9. CASE UNCHANGED vars
  BY <1>9 DEF vars
<1> QED
  BY <1>1, <1>2, <1>3, <1>4, <1>5, <1>6, <1>7, <1>8, <1>9 DEF Next

\* Type correctness of the lease and the metric it guards.
THEOREM TypeCorrect == Spec => []TypeOK
  BY InitTypeOK, NextTypeOK, PTL DEF Spec

-----------------------------------------------------------------------------
\* Expiring rows never makes one RUNNING.
LEMMA ExpiryOnlyEnds ==
  ASSUME TypeOK, NEW r \in RunIds, AfterExpiry[r] = "RUNNING"
  PROVE  status[r] = "RUNNING"
  BY DEF TypeOK, AfterExpiry, Expired

LEMMA NextAtMostOneRunning ==
  TypeOK /\ AtMostOneRunning /\ [Next]_vars => AtMostOneRunning'
<1> SUFFICES ASSUME TypeOK, AtMostOneRunning, [Next]_vars PROVE AtMostOneRunning'
  OBVIOUS
<1> USE DEF AtMostOneRunning
<1>1. ASSUME NEW p \in Procs, NEW r \in RunIds, Claim(p, r) PROVE AtMostOneRunning'
  <2>1. \A s \in RunIds : AfterExpiry[s] # "RUNNING"
    BY <1>1 DEF Claim, Active
  <2>2. \A s \in RunIds : s # r => status'[s] # "RUNNING"
    BY <1>1, <2>1 DEF Claim, AfterExpiry
  <2> QED
    BY <2>2
<1>2. ASSUME NEW p \in Procs, Complete(p) \/ Fail(p) PROVE AtMostOneRunning'
  <2>1. \A s \in RunIds : status'[s] = "RUNNING" => status[s] = "RUNNING"
    BY <1>2 DEF Complete, Fail, CloseAs, TypeOK
  <2> QED
    BY <2>1
<1>3. CASE UNCHANGED status
  BY <1>3
<1>4. ASSUME NEW p \in Procs, RevokeLeave(p) \/ Compute(p) \/ Write(p) \/ Crash(p)
      PROVE  UNCHANGED status
  BY <1>4 DEF RevokeLeave, Compute, Write, Crash
<1>5. Tick \/ UNCHANGED vars => UNCHANGED status
  BY DEF Tick, vars
<1> QED
  BY <1>1, <1>2, <1>3, <1>4, <1>5 DEF Next

\* N instances behind a load balancer hold one lease between them, through
\* every crash, expiry and late completion.
THEOREM OneLease == Spec => []AtMostOneRunning
<1>1. Init => AtMostOneRunning
  BY DEF Init, AtMostOneRunning
<1> QED
  BY <1>1, TypeCorrect, NextAtMostOneRunning, PTL DEF Spec

-----------------------------------------------------------------------------
\* One step takes a lease that is within its time from nobody but its owner.
LEMMA StepRespectsLease ==
  ASSUME TypeOK, [Next]_vars, NEW r \in RunIds,
         status[r] = "RUNNING", ~Expired(r), status'[r] # "RUNNING"
  PROVE  \E p \in Instances : runOf[p] = r /\ runOf'[p] = None
<1>1. ASSUME NEW p \in Procs, NEW s \in RunIds, Claim(p, s) PROVE FALSE
  <2>1. AfterExpiry[r] = "RUNNING"
    BY DEF AfterExpiry
  <2> QED
    BY <1>1, <2>1 DEF Claim, Active
<1>2. ASSUME NEW p \in Procs, Complete(p) \/ Fail(p)
      PROVE  p \in Instances /\ runOf[p] = r /\ runOf'[p] = None
  BY <1>2 DEF Complete, Fail, CloseAs, TypeOK
<1>3. UNCHANGED status => FALSE
  OBVIOUS
<1>4. ASSUME NEW p \in Procs, RevokeLeave(p) \/ Compute(p) \/ Write(p) \/ Crash(p)
      PROVE  UNCHANGED status
  BY <1>4 DEF RevokeLeave, Compute, Write, Crash
<1>5. Tick \/ UNCHANGED vars => UNCHANGED status
  BY DEF Tick, vars
<1> QED
  BY <1>1, <1>2, <1>3, <1>4, <1>5 DEF Next

\* A lease within its time is ended only by the process that claimed it.
THEOREM LeaseIsRespected == Spec => LiveLeaseIsRespected
<1>1. TypeOK /\ [Next]_vars =>
        [\A r \in RunIds :
           status[r] = "RUNNING" /\ ~Expired(r) /\ status'[r] # "RUNNING" =>
             \E p \in Instances : runOf[p] = r /\ runOf'[p] = None]_vars
  BY StepRespectsLease
<1> QED
  BY <1>1, TypeCorrect, PTL DEF Spec, LiveLeaseIsRespected
=============================================================================
