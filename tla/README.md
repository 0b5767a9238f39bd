# Verification of Tracksheet

Tracksheet records what instructors did each day, reads the free text of those
days with a language model, rolls the minutes up into stored metrics, and lets
administrators load whole organisations from a file.  It is a Next.js
application over one PostgreSQL database, deployed on several instances, so
every request interleaves with every other one at each `await`.  The modules
here model the parts whose correctness depends on that, TLC checks them on
small instances, and TLAPS proves the central invariants for every instance.

## 1. Inventory

### Components, their state and their operations

| Component | State | Operations | What makes it correct |
|---|---|---|---|
| Worklog day (`api/instructors/[id]/worklog/entry`, `domain/worklog-activities.ts`, `server/insights/context.ts`) | one `WorklogEntry` per instructor and date | save as rows, save as text, delete | the context hash moves when the day does; every line carries its own minutes, whatever is reused |
| Day insight (`server/insights/serve-day.ts`, `refresh.ts`, `canonical.ts`, `access.ts`) | one `DayExtraction` per instructor and date; advisory lock `summary:*` | refresh after a save, serve a page, sweep on deletion, pass of a period | one transaction at a time pays; a reading is of the words under its hash; the reading follows the day |
| Insight cache (`cache.ts`, `period-rollup.ts`, `api/instructors/[id]/insight`) | one `AiInsightCache` row per period; advisory lock `insight:*` | serve a week or a month, generate, fail | one transaction at a time pays; a payload is of the rows under its hash; a failure destroys nothing; old answers are flagged; outages heal |
| Metrics job (`jobs/metrics-scheduler.ts`) | `MetricsJobRun` rows | tick, manual run, `recomputeDay` after a leave is revoked | one lease at a time; a dead holder is replaced; the metric converges |
| Stored figures (`analytics/rollup.ts`, `engine.ts`) | rows of instructors' days, of the university's days and of instructors' weeks | compute a window, write it in three kinds of transaction | minutes add up; a university is the sum of its instructors and a week of its days, wherever a rollup stops and whatever others cross it |
| Import job (`server/import/service.ts`, `api/admin/imports`) | one `ImportJob` row, a background run in the process | create, remap, validate, confirm, run | one run for each reading; one at a time, of validated rows, until somebody writes over what he had not read; a crash strands nothing |
| Import pipeline (`csv.ts`, `pdf.ts`, `mapping.ts`, `resolve.ts`, `execute.ts`) | users, managers, instructors, their universities and assignments | resolve, write in chunks, retry, promote | a run that reports no failure has imported its file; running twice writes once; nobody is removed, moved or unassigned; whoever answers for people is a manager of their university |
| Accounts and rosters (`staff/[id]`, `instructors`, `instructors/[id]/manager`, `universities/[id]/managers`, `users/provision.ts`) | `User.isActive`, `managerId`, `primaryManagerId` | leave with a successor, return, assign, unassign, hire | somebody who is here, and one manager only, answers for every instructor; leaders belong to the university; a departure leaves nobody behind |
| Scope (`auth/scope.ts`) | none | filter lists, refuse records | `GET instructors` does not list whom the record would refuse |
| Rate limiter (`http/rate-limit.ts`, `auth/login`) | an in-process map of buckets | hit, forget, sweep, evict | the map is bounded, and that bound releases nobody |
| Leave, notifications, sessions | `LeaveRequest`, `Notification`, `Session` | request, revoke; sweep; log in | leave is modelled as the figures see it, the others not |
| Analytics of a page (`tracker.ts`, `exceptions.ts`, `roster.ts`), periods and windows (`domain/periods.ts`, `time/*`) | none: functions of what they read | compute | totals are the sums of their parts; every date is in one week |
| AI providers, assistant, universities, deliverables, reports, web client | | | not modelled, see section 7 |

### How they interact

A save upserts the worklog day, answers, and only then (`after(...)`) refreshes
the day's reading.  A page reads the day and its reading together and, for the
instructor, generates what is missing.  A week or a month first makes its days
current, through the same `summariseDay`, and then groups them; a manager
who opens a week or a month pays for it, a manager who opens a day never does
(`serveDayInsight` returns PENDING).  Days are
compared with readings, and periods with cached insights, by context hash
alone; nothing cascades.  The rollup reads the same worklog days and leaves and
writes metrics the dashboards read.  An import confirmed by one request is run
by the process after that request has been answered, and is known to the others
only through its row.  Rosters decide who may read and write all of this: every
request is checked once, when it starts, against what a departure or an
assignment may be changing.

### What is hard here

Interleavings of requests at every database call; work done under a
transaction-scoped advisory lock beside work that does not take it, or that goes
on after its transaction has timed out and the lock is free again; values read
before an await and used after it; a process that dies in a background run;
leases and stale windows; windows that slide past what they left unfinished;
retries against a provider that refuses.  The full
list, with the line where each one bites, is `hazards` in `PROJECT.json`.

## 2. Modules and how they correspond to the code

**WorklogDay** holds the pure part of a day: `FromRows`, `FromText`,
`NormaliseRow` and the derived columns, `CanonicalDay` (what the hash sees),
`ToSummaryDay` (what the model is sent) and `ReadLines` (what is stored of each
line: how many items the model made of it and the minutes each item carries,
which are the row's own when there is one item and none when there are several;
a line whose words an earlier reading settled takes that reading's items).
A text is a sequence of words and a
Deliverable cell a sequence of lines, because folding line breaks is what makes
two different days hash alike.  It has no state.  **SavedDay** saves one day again and
again, in either shape (`SaveRows`, `SaveText`: the two branches of `POST`), and
reads it again whenever its hash has moved, with any number of items (none: the
line is refused) for the words that are new; a refused save changes nothing.
`answered` is history: what the model last said of the words of each line.
**WorklogDayMC** gives its rows.

**DayInsight** has `worklog` and `extraction` for the two rows, `lock` for the
advisory lock, and for each request its place (`pc`) and its locals (`row`,
`hash`, `sees`, `answer`).  Each action is the code between two awaits:

| Action | Code |
|---|---|
| `SaveDay`, `DeleteDay`, `SweepExtraction` | `POST` and `DELETE` of the entry route |
| `RefreshReadsDay` | `refreshDayInsight` up to `summariseDay` |
| `OpenPage`, `CanonicalReadsDay`, `CanonicalReadsRow`, `CanonicalJudges`, `ViewRebuilds` | `readCanonicalDays` (two queries in either order) and `serveDayInsight` |
| `RollupReadsPeriod`, `RollupHashesDay` | `ensureDaySummaries` |
| `ChecksStored`, `TakesLock`, `EndsGeneration` | `summariseDay` |
| `TimesOutWaiting`, `TimesOutPaying` | the transaction's 60 s pass: before the lock is granted, or while the model is being asked; the database rolls back and frees the lock, the callback goes on |
| `OverrunEnds` | that callback has its answer at last and throws at its upsert |
| `Crash` | the process dies |

The context hash is the constant function `Digest`, not assumed injective.  In
**DayInsightMC** it is computed by WorklogDay from real rows; `one` and `two` share a
sentence, so a line of one reading is reused for the other.  Days that collide
are covered by the theorems, which ask nothing of `Digest`.  `cut` is history: the
passes whose day moved between their two reads; a reading carries whether such a
pass wrote it.  `Casts` says which requests take part together in a behaviour.

**InsightCache** has the period's rows (`data`), `cacheRow`, its own `lock`, and
each viewer's `pc`, `context` (what it hashed), `seen`, `built` (what its
generator read) and `answer`.  Its hash is the context itself: a collision is
WorklogDay's subject.  Its transaction times out as the day's does.  `cut` (the
rows changed between a viewer's hashing and its generator's reading) and `failing`
(which rows have failed to generate, and how often running) are history.

**MetricsLease** has the job rows (`status`, `age`), each process's place and
figures, the version of the day's data (`source`) and the version the stored
metric was computed from (`metric`).  A claim is one step, because the code makes
it one transaction under `pg_try_advisory_xact_lock`; computing and writing are
two, because they are.

**OnePayer** is what `summariseDay` and `generateUnderLock` both promise: requests
take turns at paying the model, nobody takes a turn for a record that is stored, and
what is stored afterwards is what was paid for in that turn.  It is also as far as
the promise goes: whoever loses the turn to a timeout goes on paying beside the
next (`late`), and stores nothing.  DayInsight and InsightCache
implement it: each instantiates it with `stored`, `payer` and `late` read off its own
rows and places (`PaysLikeOnePayer`).  How a request finds out, waits, or gives
up is theirs.

**StoredMetrics** has the data a rollup reads (`worked`, `leave`, `active`, `left`), the
three tables it writes (`day`, `uni`, `week`) and each rollup's locals.  Dates are
numbers; a departure has a date in the university and one in UTC, because
`computeAnalytics` compares the second with the window and the first with each
day.

| Action | Code |
|---|---|
| `SaveDay`, `GrantLeave`, `Departs`, `Returns` | the routes that change what the figures are of; none of them recomputes |
| `ImportSets` | `updatePerson`: an import sets `isActive` and leaves the date of departure as it was |
| `Scheduled`, `RevokesLeave` | `runRollup` over `trailingWindow`; `DELETE` of a leave with `recomputeDay` |
| `ReadsStaff`, `Computes` | the two awaits of `computeAnalytics` |
| `WritesDays`, `WritesUniversity`, `ReadsWeek`, `WritesWeek`, `Ends` | `rollupUniversityDaily` and `rollupInstructorWeekly`, transaction by transaction (a chunk is one instructor's days) |
| `Dies` | a query throws, or the process dies |

Rollups overlap in any way: a revoked leave recomputes its day under no lease, and
a scheduled rollup may outlive its own.  `owedDays`, `owedWeeks`, `ahead`, `crossed`,
`contested`, `dropped` and `rolled` are history: what has been rewritten and not yet
summed; which dates were recorded before they came or for somebody who had left;
what other rollups have written since each one read, and over which dates rollups
have crossed; which dates have rows of somebody the code may leave out of a later
sum; and whether today's window has been rolled up, without which no day ends (the
scheduler ticks every hour).  A leave covers one date here; `Beginnings` is
the leave there may be to begin with, and who may have left before.

**Staff** has who exists, who is active, the rosters and the primaries, and for
each request its place and what it read.  A handler's read, check and write are
three steps, and a departure's transaction is two (`MovesRoster`, `Leaves`): it is READ
COMMITTED, so an assignment may be committed between its statements, and the rows
it has written are locked until it commits (`UserLocked`, `RowLocked`).  `astray` is
history: the managers who were given people beside or after their departure.
`auth/scope.ts` is a set of operators over the rosters that
result: what a list shows and what a record answers.

**RateLimit** has the map with its insertion order (`buckets`), the clock and the
logins whose password is being checked.  `hit` never waits and is one step; a
login is two, because the bucket is cleared after the password check.
`refusedUntil` and `heard` are history: until when a refusal was announced, and
each key's own hits of the last window.

**ImportJob** has the row (`job`), what each request read (`seen`), and the
background runs with the rows they were handed.  A request is two steps: read
and check, then write.  `Casts` says what each request may ask for in a behaviour
and which runs it may come to; `crossed` is history: somebody has written over a
status, or a validation or a confirmation over rows, that he had not read.
**ImportJobMC** gives the casts: two administrators doing anything beside each
other, and three confirming at once.

**ImportResolve** is what a file asks for: `Resolve` folds the rows of a file
over a snapshot of the database into plans for universities, managers and
instructors, with the refusals, the merging of rows that name one person, and
the comparison that decides between create, update and skip.  It has no state.

**ImportExecute** runs those plans.  `universities` and `people` are the tables
(a user and the profile written with them are one record), and `run` holds the
locals of each execution, its snapshot (`snap`) among them:

| Action | Code |
|---|---|
| `Starts`, `ReadsUsers`, `ReadsProfiles` | `loadSnapshot`, one await each, and `resolveImport` |
| `WritesUniversity` | one turn of `writeUniversities` |
| `ReadsManagers`, `RereadsManagers` | the manager map, before the managers and again before the instructors |
| `WritesChunk`, `RetriesOne`, `UpdatesOne` | `createChunk` on a chunk and on one person, `updatePerson` |
| `FindsHeir`, `Promotes` | `promotePrimaryManagers`: its reads, then its write |
| `Dies` | the process dies, or a read throws |
| `OpensAccount`, `OpensUniversity` | `provisionInstructor`, `provisionManager` and `POST` of a university, by somebody else meanwhile |

The unique keys and the composite foreign key of the schema are the conditions
`CanCreate` and `CanUpdate`; any write may be lost besides.  Abstracted: codes
and addresses are compared as the code compares them (trimmed, in one case); the
three profile queries are one read, and so are the manager queries of all
universities; slugs, password hashes, warnings and progress are left out.
**ImportExecuteMC** gives the rows, in the ways a file may name a person, and the
databases a run may find.

**DayInsightProofs** (of DayInsight and of SavedDay), **InsightCacheProofs**, **MetricsLeaseProofs**,
**StoredMetricsProofs**, **ImportJobProofs**, **ImportExecuteProofs**,
**StaffProofs** and **RateLimitProofs** hold the theorems of section 5; **DayInsightMC**,
**StoredMetricsMC**, **StaffMC** and **RateLimitMC** the values and symmetries of
the runs.

Every module carries beside a definition the slips a plausible bug would make of
it; they are used by the mutants of `PROJECT.json` and by nothing else.

## 3. Runs

Runs expected to pass:

| Run | Bounds | Shows |
|---|---|---|
| `worklog_day` | two rows of four descriptions, durations up to 13 h 30, up to two activities in a line | a line read as one activity carries its row's minutes; one edited field moves the hash |
| `day_insight` | fair; up to two saves, a deletion, the instructor's page, a manager's and a period's pass, in the five casts of `MCCasts`; two contents, refusals, deaths, timeouts | single flight, as OnePayer; reading matches hash, page shows its own day; looking heals |
| `insight_cache` | fair; two viewers, two edits, counter up to 4, refusals, deaths, timeouts | pays as OnePayer; flags, payload and snapshot, failures keep the answer; requests end, outages heal |
| `metrics_lease` | fair; two instances, one revocation, three rows, two faults | one lease, respected while alive; leases end; the metric converges |
| `stored_metrics` | two instructors, two weeks of two days, a window of a day each side, a leave to begin with, of the last date or of the second beside somebody who has left, and one change to the data, zones on either side of UTC; three rollups, two of which may overlap, any number of deaths | minutes add up; the university is the sum of its instructors; a week is the sum of its days |
| `import_job` | fair; two requests of any kind beside each other with two runs, or three confirmations with three; a death while a run is left | one run for each reading; one at a time, ended is ended, only validated rows run, until `crossed`; stranded is resumed |
| `import_execute` | 1,296 pairs of a file (up to four rows) and a database; chunks of two, two executions, one lost write or crash, one account or university opened meanwhile | a clean run has imported its file and a second changes nothing; every plan is counted once; nobody leaves, is unassigned or is deactivated unasked; whoever answers is a manager of the place |
| `staff` | two managers and two instructors of one university and a manager of another, in every good state; two requests of any kind that overlap | leaders are from here; one manager who is here answers; the list of instructors agrees with the records; a handover is complete |
| `rate_limit` | two addresses and three accounts over a map of three; windows of two ticks, five logins | the map is bounded; who is refused stays refused; nobody is refused for what is past or for others |

Why these bounds are enough to be interesting: two saves are what an overtaking
callback needs, two days that share a sentence let a line be reused, and a pass
with one save is what cuts its two reads apart; two payers are what a timeout
leaves; three executions are a first run and two claims on its remains, and two
requests of any kind are what a write over a status that was not read needs; a
counter of four is one past the limit of three; a timeout of two ticks
separates a young lease, an old one and an expired one.  A week of two days is
cut by a window that slides by one, and the third date is the first whose window
has left somebody's last day behind; two rollups that overlap and a third that
comes after them are what writes an old sum over a new row and what repairs it.
(With one rollup at a time `stored_metrics` was also checked for two changes to the
data and four rollups, and with two that overlap for two changes and no third.)
A map of three is full of the buckets two
logins open, so that a third evicts.  Two requests are what a check overtaken by
a write needs, and each starts from every state the rest could have left.  For the import, three
newcomers are more than a chunk of two, two rows are enough for one person to be
named twice or one code to be claimed twice, and two executions with one fault
are an interrupted import and its repetition.  The runs execute one import at a
time; the theorems but `ImportCleanRunImports` and `ImportSecondChangesNothing` are of
any number at once.

Several properties hold of this code only up to a case that it leaves open.  That
case is in the model and happens in the run; a history variable (`cut`, `crossed`,
`contested`, `dropped`, `ahead`, `astray`) marks it at the step that makes it, and the property
speaks of the rest.  What the case is, and what the repository says of it, is
below.  What a property asks only of some files (`Straight`, `InPlace`, `Settled`) is said
there too.

Runs expected to find a violation each state what the repository says of itself
and show the code doing otherwise; `findings` in `PROJECT.json` quotes the line:

| Run | Says | Does |
|---|---|---|
| `insight_cache_retries` | after three failures in a row a view stops trying (`cache.ts:37-39`) | the stop compares the hash of the last success, so rows edited since are tried for ever |
| `day_insight_refusal` | a refused generation is recorded as FAILED | building that record throws |
| `import_rerun` | an import that failed half-way can simply be run again | instructors written without their manager stay without |

Where the code does otherwise than the repository says, in runs that pass: each is
a case in the model that the property nearest to it names as its exception, and
without that exception the property fails:

* *An import, `service.ts:336`, "A job that is still moving must not be restarted
  underneath itself".*  `remapImportJob` and `validateImportJob` write without a
  condition on the status they checked (`service.ts:266`, `:298`).  Two live runs: validate
  reads, a confirmation reads and starts a run, the validation writes VALIDATED
  over PROCESSING, somebody confirms again.  An import that has ended is taken
  back: a remap reads, a confirmation starts a run, the run ends, the remap writes
  MAPPED.  Rows no preview was made from: a remap and a validation read, the remap
  writes, the validation writes the preview of the old rows, and that is confirmed.
  `AtMostOneRun`, `TerminalIsFinal` and `RunsOnlyValidatedRows` hold until such a
  write (`crossed`); `ClaimIsExclusive` holds always.
* *Stored figures, `rollup.ts:120`, "the university total is by construction the
  sum of its instructors", and `:115`, "history stops moving".*  The total is of
  whoever this rollup measured, the rows of others stay.  An import deactivates
  without a date of departure (`execute.ts:233`, `engine.ts:343`): the person is
  out of the totals at once, of days they worked too.  (An import that makes somebody
  active again leaves their `deletedAt`, and they are charged nothing after it.)
  In a university ahead of UTC somebody who leaves in the morning has a `deletedAt` of the day before, and their
  last day is dropped.  A leave revoked long before its date
  (`leave/[leaveId]/route.ts:64`) stores rows of that date for everybody, and
  whoever leaves in between keeps theirs.  These dates are `dropped`.  A total also leaves
  out work recorded ahead of its date or of somebody who had left (`ahead`), of whom
  `engine.ts:479` says "work already recorded is still counted"; a recomputed date
  alone leaves out whoever left before it, until the next window (`SummedInFull`).
* *Stored figures, `metrics-scheduler.ts:22`, "two overlapping runs cost time,
  never correctness", and `rollup.ts:276`, "guarantees week = sum(its days) by
  construction".*  Of two rollups that overlap the one that read first may write last: the
  university's total, or a week, is then the sum of rows the other has replaced,
  until a rollup that no other crosses comes over it.  `UniversityIsItsInstructors`
  and `WeekIsItsDays` are of the dates and weeks that are not owed such a rollup
  (`crossed`, `contested`).  A recomputation of any range that an admin asks for and a
  scheduler that is down for longer than its window leave the same behind and are
  not in the model.
* *Rosters, `staff/[id]/route.ts:32-38`, where people who point at someone who
  cannot sign in are "the worst kind of gap: silent".*  `POST instructors` does not
  ask whether the manager it is given has left (`instructors/route.ts:175-190`; of
  the routes that put somebody under a manager only this one), an instructor may be
  assigned or hired under a manager whose departure has counted or moved its roster
  already, and a successor or a manager to be assigned may leave after being checked.
  `OneManagerAnswers` and `HandoverIsComplete` name those managers (`astray`).  A
  manager's release may besides clear a manager assigned meanwhile, and two first
  managers may both become primary one after the other; the properties hold
  regardless.
* *The day's reading, which is current when its hash is (`serve-day.ts:136`).*
  `ensureDaySummaries` takes a day's words from one read and its hash from a second
  (`period-rollup.ts:58-77`).  A save between the two stores a reading of the older
  words under the newer hash, and since the hash is the only test of currency every
  page shows it until the day moves again.  `ReadingMatchesHash` and
  `ServedIsOfTheDayRead` name it (`cut`).
* *The period's payload, `cache.ts:343-345`, "the four fields that must always
  agree".*  The generator of a period reads the rows again after they were hashed:
  an edit between the two stores a payload of newer rows under the older hash and
  snapshot.  `PayloadMatchesSnapshot` names it (`cut`).
* *Single flight, `serve-day.ts:121-124`, "two viewers opening the same uncached day
  would otherwise both pay".*  A transaction that passes its 60 s frees the lock
  while the callback goes on paying, so two requests may pay for one day or one
  period at once.  `SingleFlight` and `PaysLikeOnePayer` promise the turn, which the
  transaction carries, and that a late payer stores nothing.
* *The context hash, `context.ts:377`, "every fact it holds is already in the
  three fields around it".*  Moving minutes between two rows of a day leaves the
  words, the quantities and the total as they were, and so the hash: the reading
  keeps the old minutes.  `OneFieldEditInvalidates` is of one field of one row, and
  `NoMinuteIsLost` of the day the reading was made of.

Behaviour met besides, that no property is about:

* a line in which the model finds several activities gives none of them a duration
  (`serve-day.ts:92-96` says so), and a refused line has no item: the items of a day
  may add up to less than the day.  `NoMinuteIsLost` says by how much;
* a file that gives one person two codes or two addresses, gives one code or
  address to two people, or moves a code from one person to another, is folded
  differently once the first run has written what it says.
  `SecondImportChangesNothing` is of the files that do not (`Straight`);
* a row that finds a person by code beside an address that is not theirs is merged
  with the rows that name them otherwise, and a plan to skip that two such rows
  make may say what nobody has: a name or a code is then reported as there and
  never written (`resolve.ts:626` compares with the account of the row's address).
  `CleanRunImports` leaves such plans out (`Settled`);
* rows are tied to each other by any address, code or person they share, so an
  `inactive` on one row may be applied to somebody whom only another row found.
  `OnlyTheNamedAreRetired` follows the ties (`SaidInactive`);
* `GET /api/staff` lists everybody of the university to a manager, those of other
  rosters too (`staff/route.ts:54-113`): `ListsAgreeWithRecords` is of
  `GET /api/instructors`;
* saving a day older than the trailing window, and approving leave on one,
  recompute nothing: the stored figures stay as they were until a manual rollup;
* approved leave is looked for and then created in two statements, so a day may be
  covered twice; no figure counts it twice;
* an overtaken callback may store the reading of the older day last; managers
  then see PENDING until the instructor looks (`SelfViewsHeal` is what is left
  of the promise);
* two recomputations of one day outside the trailing window may be written in
  the wrong order; inside it the schedule repairs them (`Converges`);
* deleting a day sweeps its reading without waiting for a generation in flight,
  which may then store a reading of a day that is gone;
* `promotePrimaryManagers` writes an owner a query after it found none, so it
  may replace one that was promoted meanwhile.  `LeadsAreManagersHere` and
  `NobodyLeaves` say what is left: the university has an owner, and it is one of
  its managers;
* a row that names a person by code alone and states only a status is skipped,
  and so is an instructor of whom only the manager changed (`resolve.ts:626`);
* an address that belongs to another university is not refused when the row's
  university is new, as the check is then skipped (`resolve.ts:559`).  If the
  file speaks of that other university too, the person is found there and updated
  where they are; if not, the creation fails.  `CleanRunImports` asks that whoever
  was found is where the rows say (`InPlace`);
* a manager's row with a second code for the same address is folded into the
  first, and instructors who name the second code are created unassigned;
* rows that no longer resolve when the import runs are left out of its outcome,
  so a clean run is one with no failure and no such row (`Clean`).

## 4. Fairness

`DayInsight` and `InsightCache` assume that a request that has started goes on
(weak fairness of its steps: the event loop and the database answer) and that
the advisory lock is granted in arrival order, which PostgreSQL does (strong
fairness of `TakesLock`).  Starting a request is never assumed; `SelfViewsHeal`
and `OutageHeals` are conditional on somebody looking again and again.
Both conclude only from the moment failures cease (`FaultsCease`: no death, no
timeout, no refusal), which is no fairness but a premise; while a provider refuses for
ever nothing heals, and nothing is claimed.
`MetricsLease` assumes time and the interval timer go on and a running job
proceeds; `MaxFaults` bounds throws and deaths, since no job survives
them for ever.  `ImportJob` assumes live runs finish and that an administrator
who sees an import that may be confirmed confirms it, which is the recovery the
module's comment describes.

## 5. Proofs

For every value of the constants:

* `DayInsightProofs!TypeCorrect` - types, strengthened by `CarriesDay`: a
  request on its way to the model carries a day that was there.  Without it the
  reading stored at the end could be of no day at all, so types alone are not
  inductive.
* `DayInsightProofs!PaysOnce` - `SingleFlight`, whose two parts
  (`PaysOnlyForMissing`, `LockIsInUse`) are inductive together: each is what the
  other needs to see that a second request cannot enter.
* `DayInsightProofs!DayPaysLikeOnePayer` - the refinement of OnePayer, step by
  step, from the same invariant.
* `DayInsightProofs!ReadingIsOfTheDay` and `PageShowsTheDayRead` -
  `ReadingMatchesHash` and `ServedIsOfTheDayRead`, for requests of every kind.  The
  inductive invariant adds `OneRead` (words and hash in hand come from one read, or
  from two that no save or deletion cut apart) and `SeenMatchesHash` (a reading in
  hand is as good as the stored one).
* `InsightCacheProofs!CacheInvariant`, and from it `TypeCorrect`,
  `CachePaysOnce`, `PayloadAgrees`, `UnflaggedAnswers` and
  `CachePaysLikeOnePayer`.  `SeenIsStored` is one strengthening: what a request
  read inside its lock is what is stored while it holds it, although an overrun
  goes on beside it.  `Uncut` is the other: what a generator has read is what its
  request hashed, unless an edit came between the two.
  `FailuresKeepAnswers` is the action property from the same invariant: a step
  that touches the stored answer without ending a request with a fresh one is a
  failure, and it writes on the row it read.
* `ImportJobProofs!TypeCorrect` and `ClaimsAreExclusive`, for requests of any
  kind that overlap in any way.  `ClaimInv` adds that every `startedAt` in the
  row, in a reading or in a claim is that of a run already begun
  (`StartsAreKnown`), so a value that a claim has spent (`ClaimsAreSpent`) can
  never come back.
* `ImportJobProofs!RunsTakeTurns`, `EndedStaysEnded` and `OnlyValidatedRun`, under
  the same generality, until somebody writes over what he had not read (`crossed`).
  The invariant `Order` holds until then: the live run is the one the row
  names (`LiveIsNamed`), what is validated or running was previewed from its rows
  (`PreviewIsOfTheRows`), and a confirmation whose claim still matches finds
  nothing running (`ReadingsHold`).
* `StoredMetricsProofs!StoredIsExact` - a number of minutes survives the two
  roundings, by arithmetic.  From it `DaysAddUpTheorem`: rows under way are good
  rows of instructors (`RowsAreGood`), so what is written is.
* `StoredMetricsProofs!WeekIsItsDaysTheorem` - for rollups that overlap in any way.  The
  invariant adds `SumsAreCurrent`: the sums a rollup has read of a week are those of
  the days as they are, but for the instructors whose days another rollup has
  written since (`CrossedIn`), whose week stays owed.
* `StoredMetricsProofs!TotalIsOfTheRowsTheorem` - the part of
  `UniversityIsItsInstructors` that is proved: the total a rollup writes of a date is the
  sum of the rows stored at that moment, if no other has written any of them since it
  read and it measured whoever has a row.  The invariant is that the rows it has
  written are still there where nobody crossed it (`RowsAreStored`).
* `ImportExecuteProofs!ImportLeadsAreManagersHere` and `ImportNobodyLeaves` - for
  any files and databases, any chunk size and any number of executions at once.
  Neither is inductive: a manager is written from a map read some writes ago, an
  owner from a query already past.  `IInv` adds that every such local (`Holds`)
  still leads to a manager of the university it is held for; it stays true
  because nobody leaves (`PeopleStay`), which is proved in the same induction.
  What `Resolve` plans is not used, so nothing depends on it.
* `ImportExecuteProofs!ImportCountsEveryPlan` - `EveryPlanIsCounted`.  The invariant
  is an account (`Accounted`): what is counted so far and what is still in the
  lists makes up the plans of the phases begun.  It rests on what the recursion over
  rows keeps (`ResolveIsPlan`: whatever a file says, its plans are lists of things to
  create, update or skip) and on what the three actions make up (`AmongParts`).
  Both are inductions on a set of numbers (`InductionOnSets`), derived from the
  well-foundedness of the natural numbers, since the library's induction takes a
  predicate as a parameter.  `Resolve` and `Among` are written as recursive functions
  so that this can be said of them.
* `ImportExecuteProofs!ImportRetiresOnlyTheNamed` - for any executions that overlap.
  The invariant is `Planning`: what an execution has in hand comes from its plans,
  and its plans are what `Resolve` makes of a file (`PlansFit`).  That is proved row by row: a
  plan holds names no other plan holds (`Apart`), it is of somebody to create or of
  somebody found (`Sound`), a plan to skip says what was found (`Settles`), and for
  any set of rows that contains what its rows are tied to, a plan that holds one of
  their names takes all of its names, and its `inactive`, from them (`Tells`).  The
  smallest such set around a row is what the property quantifies over.
* `ImportExecuteProofs!ImportCleanRunImports` - assuming `Runs = {r}`: executions take
  turns, which is what `ImportJobProofs!RunsTakeTurns` says of the runs of an import.
  The invariant `CInv` says where the writing of each plan stands: a university
  waits to be opened or is open (`Opening`); a person's plan is in hand or done
  (`Tended`), where done says besides the property that whom the run creates was
  not among those it found; everybody found is as they were unless a plan is to
  update them (`Remains`), which is why a plan to skip is still true at the end; no
  code is written twice (`CodesUnique`); and the map that instructors are created
  from leads to the managers of the file (`Leading`).
* `ImportExecuteProofs!ImportSecondChangesNothing` - also with `Runs = {r}`, on the
  same invariant and two facts more (`AInv`): a run's plan is what `Resolve` makes of
  the file and of what the run read, and every row of the tables is a record.  The
  rest is about the two readings.  The names a plan came to hold say whom each row of
  the file is about (`RowOwner`): somebody the first reading found, or somebody it
  created, and in both cases the second finds them (`RowAgain`).  Rows share a name
  exactly when they are about one account (`RowsShareNames`), by other names in one
  reading than in the other, so the fold makes one plan of the same rows both times
  (`FoldPlanEach`), and of each cell it keeps what the first of them said
  (`FirstSaidOnce`).  What the second plan would write is thus what the first wrote;
  a plan that skipped somebody then skips them again (`NothingAsked`); and the manager
  named is the one the first run assigned (`LeadStands`).
* `DayInsightProofs!ItemsCarryTheirRows` and `EditInvalidates` - the two properties of
  SavedDay, for any number of rows and any answers of the model.  Sums and the joined
  texts are recursive functions on prefixes, so both are inductions on a number: two
  lists that differ in one member only have different sums (`SumTells`, for minutes) and
  different joins (`FlattenTells`, for descriptions and quantities), because what comes
  before and after the member cancels (`JoinCancels`); and the sum of what lines carry
  and of what they leave out is the sum of both (`SumSplits`).  The invariant
  `StoredReading` says what each stored line is: as many items as the model last made of
  its words, whichever reading it was taken from, and the row's own minutes.
* `MetricsLeaseProofs!TypeCorrect`, `OneLease`, `LeaseIsRespected`.  The last is
  an action property: it follows from one step, because a claim expires only
  what is past its time and then finds nothing active.
* `StaffProofs!StaffInvariant`, and from it `LeadersBelong`, `ListsAgree` and
  `HandoverCompletes`, for any staff and
  any number of overlapping requests.  The strengthening is `RequestKnows`: what a
  request that has passed its checks still knows of the manager it will write,
  which later steps of others cannot undo (a home never changes, and an account
  once opened is never removed); and that one departure of a person is open at a time.
* `StaffProofs!AnsweredInvariant`, and from it `EverybodyIsAnswered`: who has left has
  nobody (`LeaversHaveNobody`), and a departure's count of a roster, its moved rows and
  its successor's check are still right when it commits (`Counted`) - for all
  managers but those in `astray`.
* `RateLimitProofs!LimiterInvariant`, and from it `MapStaysBounded` and
  `NobodyIsReleased`: a key that is refused is tracked, live and at its limit
  until its refusal ends, and the eviction never chooses such a key.
  `NobodyPaysForOthers` is about the other direction: a live bucket counts no
  more than its own key was heard in its window (`Earned`), whatever sweeps,
  evictions and other keys did meanwhile.

Assumptions used: `DayAssumption` (the digest is a function, a saved day has a
line), `CallAssumption` (a request is of one kind, `None` is not a request),
`NoReadingAssumption` and `NoRowAssumption` (`None` is not a row),
`PeriodAssumption`, `LeaseAssumption`, `MetricsAssumption` (dates and minutes are
natural numbers, a week has days, a university's date is at most one off UTC's, the
instructors are finitely many, `None` is none of these), `StaffAssumption` (everybody
has one home, nobody is both kinds), `LimitAssumption` (limits, window and map
are not empty), and `DatabasesAssumption` (the tables an import finds have their
columns, managers are of the university the foreign key says, and owners are so
far managers of what they own, a code is of one person of a kind in a university,
and nobody's address is `None`), `RecordsAssumption` (a row is its columns' values
and nothing more), `ElsewhereAssumption` (whoever is given an account
has an address), `RowAssumption` (a description is words, numbers are integers),
`ImportAssumption` (blocked mappings are
mappings, a request asks for known kinds, `None` is neither a mapping nor a run, and an
import is stale after more than one tick), `ExecuteAssumption` (a chunk is not empty) and
`FilesAssumption` (a file is a sequence).  None of them bounds anything.

Only model-checked: liveness, which TLAPS cannot reach, and
`UniversityIsItsInstructors`: that a total is of the rows when it is written is proved
(`TotalIsOfTheRows`); that a window's total stays so although it leaves out whoever
left before it rests on how windows, departures and the calendar follow each other.
The other safety properties of the passing runs are theorems, the two about a clean
import for executions that take turns.

## 6. What could follow

The order in which the models were written: the day and its reading, the caches
over it, the metrics, the import, the rosters, the limiter.  What is left and
could be modelled the same way: an import beside a manager who leaves (Staff
composed with ImportExecute); two runs of one import at the level of rows;
notices that must be written once per standing condition.

## 7. Not modelled, and why

Provider calls, prompts and the assistant talk to services outside the
repository and are a reply or a refusal here.  Screens, wording, CSV tokenising
and PDF extraction have no state that other parts depend on.  Universities,
holidays, schedules, deliverables and reports are single-statement record
keeping.  The tracker, exceptions, roster and bands, the aggregation of a
period's items, and the functions of dates and calendars compute from what they
read and keep nothing.  Sessions are rows that every request reads once, and no
modelled state depends on them; notifications write rows nothing else reads.
The browser's queue of page-load generations bounds how many requests it sends,
and DayInsight and InsightCache hold for any number.  `src/generated` is the database client's output.  Unicode
normalisation and the grammar of typed durations are left out of WorklogDay.
`hits` and `misses` of the insight cache are counters nothing reads to decide.
