------------------------------ MODULE ImportJob ------------------------------
(***************************************************************************)
(* One bulk import: the ImportJob row, the requests that remap, validate   *)
(* and confirm it, and the background runs (runImport) that a confirmation *)
(* starts and does not await.                                              *)
(*                                                                         *)
(* Every request reads the whole row first (requireJob, assertStatus) and  *)
(* writes it later.  Remap and validate write unconditionally; confirm     *)
(* claims with an update conditioned on the status and startedAt it read.  *)
(*                                                                         *)
(* The rows of the file are abstracted to the mapping that produced them;  *)
(* Blocked are the mappings whose resolution reports errors.               *)
(***************************************************************************)
EXTENDS Naturals

CONSTANTS
  Mappings,   \* column mappings, hence versions of the canonical rows
  Blocked,    \* those whose preview has errorCount > 0
  Requests,   \* concurrent admin requests
  Casts,      \* [asks, runs]: what each request may ask for in a behaviour, and the
              \* executions it may come to.  Bounds the overlaps, starts and deaths
  Runs,       \* runImport executions; also the values of startedAt
  None,
  Stale       \* STALE_AFTER_MS, in clock ticks

Kinds == {"remap", "validate", "confirm"}

ASSUME ImportAssumption ==
  /\ Blocked \subseteq Mappings
  /\ None \notin Mappings \cup Runs
  /\ Casts \subseteq [asks : [Requests -> SUBSET Kinds], runs : SUBSET Runs]
  /\ Stale \in Nat /\ Stale > 1

VARIABLES
  cast,     \* the cast of this behaviour
  job,      \* the ImportJob row
  pc,       \* each request: "idle", or the kind of request being served
  seen,     \* the row as the request read it; its age is judged there and then
  run,      \* each execution: unused, live, ended or dead
  rows,     \* the rows a live execution was handed
  from,     \* the startedAt its claim was conditioned on
  crossed   \* history: a request has written on what it had not read

vars == <<cast, job, pc, seen, run, rows, from, crossed>>

Terminal == {"COMPLETED", "COMPLETED_WITH_WARNINGS", "FAILED"}
Editable == {"UPLOADED", "MAPPED", "VALIDATED"}

\* quiet: ticks since updatedAt, up to Stale.
Job == [source : {"CSV", "PDF"},
        status : Editable \cup {"PROCESSING"} \cup Terminal,
        rows : Mappings, preview : Mappings \cup {None},
        startedAt : Runs \cup {None}, quiet : 0..Stale]

TypeOK ==
  /\ cast \in Casts
  /\ job \in Job
  /\ pc \in [Requests -> Kinds \cup {"idle"}]
  /\ seen \in [Requests -> Job \cup {None}]
  /\ run \in [Runs -> {"unused", "live", "ended", "dead"}]
  /\ rows \in [Runs -> Mappings \cup {None}]
  /\ from \in [Runs -> Runs \cup {None}]
  /\ crossed \in BOOLEAN

\* createImportJob: a CSV waits for its columns, a PDF arrives mapped.  A behaviour
\* begins there or after the first validation.
Created(s, m) ==
  [source |-> s, status |-> IF s = "PDF" THEN "MAPPED" ELSE "UPLOADED",
   rows |-> m, preview |-> None, startedAt |-> None, quiet |-> 0]

Init ==
  /\ cast \in Casts
  /\ \E m \in Mappings, s \in {"CSV", "PDF"} :
       job \in {Created(s, m), [Created(s, m) EXCEPT !.status = "VALIDATED", !.preview = m]}
  /\ pc = [q \in Requests |-> "idle"]
  /\ seen = [q \in Requests |-> None]
  /\ run = [k \in Runs |-> "unused"]
  /\ rows = [k \in Runs |-> None]
  /\ from = [k \in Runs |-> None]
  /\ crossed = FALSE

-----------------------------------------------------------------------------
(* Requests: read and check, then write.                                   *)

\* @updatedAt moves with every write.
Written(j) == [j EXCEPT !.quiet = 0]

Begin(q, kind) ==
  /\ kind \in cast.asks[q]
  /\ pc[q] = "idle"
  /\ pc' = [pc EXCEPT ![q] = kind]
  /\ seen' = [seen EXCEPT ![q] = [job EXCEPT !.quiet = 0]]
  /\ UNCHANGED <<cast, job, run, rows, from, crossed>>

End(q) ==
  /\ pc' = [pc EXCEPT ![q] = "idle"]
  /\ seen' = [seen EXCEPT ![q] = None]

\* History only: between its read and its write somebody replaced the rows a
\* validation or a confirmation was about, or started the import an edit was of.
Crosses(q) ==
  crossed' = (\/ crossed
              \/ pc[q] # "remap" /\ job.rows # seen[q].rows
              \/ pc[q] # "confirm" /\ job.status \notin Editable)

BeginRemap(q) ==
  /\ job.source # "PDF"
  /\ job.status \in Editable
  /\ Begin(q, "remap")

\* remapImportJob: new rows, back to MAPPED; the summary keeps the preview it read.
Remap(q, m) ==
  /\ pc[q] = "remap"
  /\ job' = Written([job EXCEPT !.rows = m, !.status = "MAPPED", !.preview = seen[q].preview])
  /\ Crosses(q)
  /\ End(q)
  /\ UNCHANGED <<cast, run, rows, from>>

BeginValidate(q) == job.status \in Editable /\ Begin(q, "validate")

\* validateImportJob: the preview is of the rows read, the rows are not written.
Validate(q) ==
  /\ pc[q] = "validate"
  /\ job' = Written([job EXCEPT !.status = "VALIDATED", !.preview = seen[q].rows])
  /\ Crosses(q)
  /\ End(q)
  /\ UNCHANGED <<cast, run, rows, from>>

\* Slips: a live run may be restarted; errors do not block; a dead run may not
\* be resumed.
MayConfirmLive(j) == j.status \in {"VALIDATED", "PROCESSING"} /\ j.preview \notin Blocked
MayConfirmErrors(j) == j.status = "VALIDATED" \/ (j.status = "PROCESSING" /\ j.quiet = Stale)
MayConfirmOnce(j) == j.status = "VALIDATED" /\ j.preview \notin Blocked

MayConfirm(j) ==
  /\ j.status = "VALIDATED" \/ (j.status = "PROCESSING" /\ j.quiet = Stale)
  /\ j.preview \notin Blocked

BeginConfirm(q) == MayConfirm(job) /\ Begin(q, "confirm")

\* Slips: the claim looks at the status alone, or at nothing.
ClaimByStatus(j, s) == j.status = s.status
ClaimAlways(j, s) == j # None

\* The claiming update matches only the status and startedAt that were read.
ClaimMatches(j, s) == j.status = s.status /\ j.startedAt = s.startedAt

\* confirmImportJob: claim, and start a run with the rows read before the claim.
Confirm(q, k) ==
  /\ pc[q] = "confirm"
  /\ k \in cast.runs /\ run[k] = "unused"
  /\ ClaimMatches(job, seen[q])
  /\ job' = Written([job EXCEPT !.status = "PROCESSING", !.startedAt = k])
  /\ run' = [run EXCEPT ![k] = "live"]
  /\ rows' = [rows EXCEPT ![k] = seen[q].rows]
  /\ from' = [from EXCEPT ![k] = seen[q].startedAt]
  /\ Crosses(q)
  /\ End(q)
  /\ UNCHANGED <<cast>>

\* claimed.count = 0: 409, nothing written.
ConfirmRefused(q) ==
  /\ pc[q] = "confirm"
  /\ ~ClaimMatches(job, seen[q])
  /\ End(q)
  /\ UNCHANGED <<cast, job, run, rows, from, crossed>>

-----------------------------------------------------------------------------
(* The background run.                                                     *)

\* onProgress: processedRows every hundred people.
Progress(k) ==
  /\ run[k] = "live"
  /\ job.quiet > 0
  /\ job' = Written(job)
  /\ UNCHANGED <<cast, pc, seen, run, rows, from, crossed>>

\* The last update of runImport, by id alone.
Finish(k, outcome) ==
  /\ run[k] = "live"
  /\ outcome \in Terminal
  /\ job' = Written([job EXCEPT !.status = outcome])
  /\ run' = [run EXCEPT ![k] = "ended"]
  /\ UNCHANGED <<cast, pc, seen, rows, from, crossed>>

\* The container restarts: its runs are gone and the row stays PROCESSING.  (Bound:
\* while the behaviour may still come to another run.)
Crash ==
  /\ \E k \in cast.runs : run[k] = "unused"
  /\ \E k \in Runs : run[k] = "live"
  /\ run' = [k \in Runs |-> IF run[k] = "live" THEN "dead" ELSE run[k]]
  /\ UNCHANGED <<cast, job, pc, seen, rows, from, crossed>>

\* Time passes without a write.  A live run is taken to write within the stale
\* window, as confirmImportJob assumes.
Tick ==
  /\ job.quiet < (IF \E k \in Runs : run[k] = "live" THEN Stale - 1 ELSE Stale)
  /\ job' = [job EXCEPT !.quiet = @ + 1]
  /\ UNCHANGED <<cast, pc, seen, run, rows, from, crossed>>

Request(q) ==
  \/ BeginRemap(q) \/ BeginValidate(q) \/ BeginConfirm(q)

Serve(q) ==
  \/ \E m \in Mappings : Remap(q, m)
  \/ Validate(q)
  \/ \E k \in Runs : Confirm(q, k)
  \/ ConfirmRefused(q)

Execute(k) == Progress(k) \/ \E outcome \in Terminal : Finish(k, outcome)

Next ==
  \/ \E q \in Requests : Request(q) \/ Serve(q)
  \/ \E k \in Runs : Execute(k)
  \/ Crash
  \/ Tick

Spec == Init /\ [][Next]_vars

\* Requests are served, live runs finish, time passes, and an admin who sees an
\* import that may be confirmed confirms it.
Fairness ==
  /\ WF_vars(Tick)
  /\ \A q \in Requests : WF_vars(Serve(q)) /\ WF_vars(BeginConfirm(q))
  /\ \A k \in Runs : WF_vars(\E outcome \in Terminal : Finish(k, outcome))

FairSpec == Spec /\ Fairness

-----------------------------------------------------------------------------
(* Properties.                                                             *)

Live == {k \in Runs : run[k] = "live"}

\* The claim is the lock: no two confirmations ever start a run from the same
\* reading of the job, a resume of a dead run included.
ClaimIsExclusive ==
  \A k, l \in Runs : run[k] # "unused" /\ run[l] # "unused" /\ from[k] = from[l] => k = l

\* "A job that is still moving must not be restarted underneath itself": two runs
\* are live together only after a write on what had not been read.
AtMostOneRun == ~crossed => \A k, l \in Live : k = l

\* An import that ended stays as it ended, unless somebody writes on it what he
\* read before it was started.
TerminalIsFinal ==
  [][job.status \in Terminal /\ ~crossed' => job'.status = job.status]_vars

\* "Validation is not optional": the rows handed to a run are those the preview of
\* the row it was claimed on was made from, and that preview has no errors.
RunsOnlyValidatedRows ==
  [][~crossed' => \A k \in Runs : run[k] = "unused" /\ run'[k] = "live" =>
       rows'[k] = job.preview /\ rows'[k] \notin Blocked]_vars

\* A crash mid-run never strands the import: PROCESSING always ends.  (An edit read
\* before the start may also take a crashed import back to MAPPED or VALIDATED.)
ProcessingEnds == job.status = "PROCESSING" ~> job.status \in Terminal \/ crossed
=============================================================================
