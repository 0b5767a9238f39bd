---------------------------- MODULE InsightCache ----------------------------
(***************************************************************************)
(* The stored WEEK or MONTH insight of one instructor: serveInsight and    *)
(* generateUnderLock over one AiInsightCache row, with the generator the   *)
(* insight route injects (buildPeriodRollup).  Every role may generate a   *)
(* period, so the read-only branch of serveInsight is not reached here; it *)
(* is the day path's (DayInsight).                                         *)
(*                                                                         *)
(* The rows of the period are a member of Contents, or None when the       *)
(* period holds no day.  serveCount, lastServedAt and the in-process       *)
(* hit/miss counters decide nothing and are left out.                      *)
(***************************************************************************)
EXTENDS Naturals

CONSTANTS
  Contents,   \* what the period's rows may say
  None,       \* no rows, no cache row, no lock holder
  Calls,      \* concurrent viewers of the period, any role
  MaxEdits,   \* bound: changes to the period's rows
  Cap,        \* bound: counters saturate here
  Faults      \* which of "provider", "crash" and "timeout" may happen

MAX_CONSECUTIVE_FAILURES == 3

Periods == Contents \cup {None}

ASSUME PeriodAssumption ==
  /\ None \notin Contents \cup Calls
  /\ MaxEdits \in Nat
  /\ Cap \in Nat /\ Cap > MAX_CONSECUTIVE_FAILURES
  /\ Faults \subseteq {"provider", "crash", "timeout"}

VARIABLES
  data,      \* the period's rows in WorklogEntry
  edits,     \* how often they changed
  cacheRow,  \* the AiInsightCache row, or None
  lock,      \* holder of the advisory lock insight:<instructor>:<scope>:<start>
  pc,        \* where each viewer's request is
  context,   \* the canonical context the request hashed
  seen,      \* the cache row it read last
  built,     \* the rows its generator read
  answer,    \* what it answered
  cut,       \* history: viewers whose rows changed between their hashing and the
             \* generator's reading
  failing    \* history: the context whose generations fail, and how often running

vars == <<data, edits, cacheRow, lock, pc, context, seen, built, answer, cut, failing>>

\* The context hash is abstracted to the context itself.  raw is the frozen
\* snapshot, of the rows the payload was made from.  cut is history: the payload
\* comes from a generation that was cut.
Row == [contextHash : Contents, raw : Contents, of : Contents, failureCount : 0..Cap,
        cut : BOOLEAN]

\* No row is not a row.
ASSUME NoRowAssumption == None \notin Row

Answer == [status : {"NONE", "EMPTY", "READY", "FAILED", "ERROR"},
           stale : BOOLEAN, of : Periods, under : Periods, for : Periods]
Say(status) == [status |-> status, stale |-> FALSE, of |-> None, under |-> None,
                for |-> None]

Steps == {"idle", "opened", "waiting", "generating", "building", "overrun", "done"}

Failing == [for : Periods, times : 0..MAX_CONSECUTIVE_FAILURES]
NoFailure == [for |-> None, times |-> 0]

TypeOK ==
  /\ data \in Periods
  /\ edits \in 0..MaxEdits
  /\ cacheRow \in Row \cup {None}
  /\ lock \in Calls \cup {None}
  /\ pc \in [Calls -> Steps]
  /\ context \in [Calls -> Periods]
  /\ seen \in [Calls -> Row \cup {None}]
  /\ built \in [Calls -> Periods]
  /\ answer \in [Calls -> Answer]
  /\ cut \subseteq Calls
  /\ failing \in Failing

Init ==
  /\ data \in Periods
  /\ edits = 0
  /\ cacheRow = None
  /\ lock = None
  /\ pc = [c \in Calls |-> "idle"]
  /\ context = [c \in Calls |-> None]
  /\ seen = [c \in Calls |-> None]
  /\ built = [c \in Calls |-> None]
  /\ answer = [c \in Calls |-> Say("NONE")]
  /\ cut = {}
  /\ failing = NoFailure

-----------------------------------------------------------------------------
Bump(n) == IF n < Cap THEN n + 1 ELSE Cap

Goto(c, step) == pc' = [pc EXCEPT ![c] = step]

Finish(c, a) ==
  /\ Goto(c, "done")
  /\ answer' = [answer EXCEPT ![c] = a]
  /\ context' = [context EXCEPT ![c] = None]
  /\ seen' = [seen EXCEPT ![c] = None]
  /\ built' = [built EXCEPT ![c] = None]

\* Slip: a lock that outlives the transaction.
KeepsLock(c) == lock' = lock

Release(c) == lock' = IF lock = c THEN None ELSE lock

\* Slip: any row is a hit.
AnyRowHits(r, h) == r # None

Hit(r, h) == r # None /\ r.contextHash = h

\* served(): the payload, and whether it is flagged stale.
Served(c, r, status, stale) ==
  [status |-> status, stale |-> stale, of |-> r.of, under |-> r.contextHash,
   for |-> context[c]]

\* An instructor saves or deletes a day of the period: nothing else is touched,
\* the hash stops matching by itself.
EditRows(d) ==
  /\ edits < MaxEdits
  /\ d # data
  /\ data' = d
  /\ edits' = edits + 1
  /\ cut' = cut \cup {c \in Calls : pc[c] \in {"opened", "waiting", "generating"}}
  /\ UNCHANGED <<cacheRow, lock, pc, context, seen, built, answer, failing>>

\* serveInsight, up to its first await: the context and its hash.
Open(c) ==
  /\ pc[c] \in {"idle", "done"}
  /\ context' = [context EXCEPT ![c] = data]
  /\ answer' = [answer EXCEPT ![c] = Say("NONE")]
  /\ Goto(c, "opened")
  /\ cut' = cut \ {c}
  /\ UNCHANGED <<data, edits, cacheRow, lock, seen, built, failing>>

\* Slip: the stop ignores which rows the failures were about.
StopsForGood(r, h) ==
  IF Hit(r, h) THEN "HIT"
  ELSE IF h = None THEN "EMPTY"
  ELSE IF r # None /\ r.failureCount >= MAX_CONSECUTIVE_FAILURES THEN "STOPPED"
  ELSE "GENERATE"

\* What the row just read decides, in the order of the code's returns.
Verdict(r, h) ==
  IF Hit(r, h) THEN "HIT"
  ELSE IF h = None THEN "EMPTY"
  ELSE IF r # None /\ r.failureCount >= MAX_CONSECUTIVE_FAILURES /\ r.contextHash = h
    THEN "STOPPED"
  ELSE "GENERATE"

\* serveInsight reads the row and serves it, answers EMPTY, stops, or generates.
Decide(c) ==
  LET v == Verdict(cacheRow, context[c]) IN
  /\ pc[c] = "opened"
  /\ \/ /\ v = "GENERATE"
        /\ Goto(c, "waiting")
        /\ UNCHANGED <<context, seen, built, answer>>
     \/ /\ v # "GENERATE"
        /\ Finish(c, CASE v = "HIT" -> Served(c, cacheRow, "READY", FALSE)
                       [] v = "STOPPED" -> Served(c, cacheRow, "FAILED", TRUE)
                       [] v = "EMPTY" -> Say("EMPTY"))
  /\ UNCHANGED <<data, edits, cacheRow, lock, cut, failing>>

\* Slip: the lock is asked for and not waited for.
TakesLockTogether(c) ==
  /\ pc[c] = "waiting"
  /\ ~Hit(cacheRow, context[c])
  /\ lock' = c
  /\ seen' = [seen EXCEPT ![c] = cacheRow]
  /\ Goto(c, "generating")
  /\ UNCHANGED <<data, edits, cacheRow, context, built, answer, cut, failing>>

\* generateUnderLock: the advisory lock, and the re-read inside it.
TakesLock(c) ==
  /\ pc[c] = "waiting"
  /\ lock = None
  /\ \/ /\ Hit(cacheRow, context[c])
        /\ Finish(c, Served(c, cacheRow, "READY", FALSE))
        /\ UNCHANGED lock
     \/ /\ ~Hit(cacheRow, context[c])
        /\ lock' = c
        /\ seen' = [seen EXCEPT ![c] = cacheRow]
        /\ Goto(c, "generating")
        /\ UNCHANGED <<context, built, answer>>
  /\ UNCHANGED <<data, edits, cacheRow, cut, failing>>

\* generate(context): the route's closure takes no parameter; buildPeriodRollup
\* reads the period again.
GeneratorReads(c) ==
  /\ pc[c] = "generating"
  /\ built' = [built EXCEPT ![c] = data]
  /\ Goto(c, "building")
  /\ UNCHANGED <<data, edits, cacheRow, lock, context, seen, answer, cut, failing>>

\* The payload is written with the hash and the snapshot of the request's own
\* context, and the failure count is cleared.
Succeeds(c) ==
  LET r == [contextHash |-> context[c], raw |-> context[c], of |-> built[c],
            failureCount |-> 0, cut |-> c \in cut]
  IN /\ pc[c] = "building"
     /\ built[c] # None
     /\ cacheRow' = r
     /\ failing' = NoFailure
     /\ Release(c)
     /\ Finish(c, Served(c, r, "READY", FALSE))
     /\ UNCHANGED <<data, edits, cut>>

\* History only.
CountsFailure(c) ==
  failing' = [for |-> context[c],
              times |-> IF failing.for # context[c] THEN 1
                        ELSE IF failing.times < MAX_CONSECUTIVE_FAILURES
                          THEN failing.times + 1 ELSE failing.times]

\* Slip: a failure stores whatever the generator had.
FailsOverwriting(c) ==
  /\ pc[c] = "building"
  /\ built[c] = None \/ "provider" \in Faults
  /\ Release(c)
  /\ cacheRow' = IF seen[c] = None THEN None
                 ELSE [cacheRow EXCEPT !.of = built[c], !.failureCount = Bump(@)]
  /\ Finish(c, Say("FAILED"))
  /\ CountsFailure(c)
  /\ UNCHANGED <<data, edits, cut>>

\* Slip: a failure is recorded under the context that failed.
FailsUnderItsContext(c) ==
  /\ pc[c] = "building"
  /\ built[c] = None \/ "provider" \in Faults
  /\ Release(c)
  /\ cacheRow' = IF seen[c] = None THEN None
                 ELSE [cacheRow EXCEPT !.contextHash = context[c], !.raw = context[c],
                                       !.failureCount = Bump(@)]
  /\ Finish(c, Say("FAILED"))
  /\ CountsFailure(c)
  /\ UNCHANGED <<data, edits, cut>>

\* A throw from the generator (no day produced an item, a refusal, an outage):
\* only the counter of an existing row moves.
Fails(c) ==
  /\ pc[c] = "building"
  /\ built[c] = None \/ "provider" \in Faults
  /\ Release(c)
  /\ CountsFailure(c)
  /\ \/ /\ seen[c] # None
        /\ cacheRow' = [cacheRow EXCEPT !.failureCount = Bump(@)]
        /\ Finish(c, Served(c, seen[c], "FAILED", TRUE))
     \/ /\ seen[c] = None
        /\ UNCHANGED cacheRow
        /\ Finish(c, Say("FAILED"))
  /\ UNCHANGED <<data, edits, cut>>

\* The process dies.
Crash(c) ==
  /\ "crash" \in Faults
  /\ pc[c] \notin {"idle", "done"}
  /\ Release(c)
  /\ Finish(c, Say("ERROR"))
  /\ UNCHANGED <<data, edits, cacheRow, cut, failing>>

\* The 60 s of the transaction run out before the lock is granted: the request
\* fails at its next statement, which is the re-read.
TimesOutWaiting(c) ==
  /\ "timeout" \in Faults
  /\ pc[c] = "waiting"
  /\ Finish(c, Say("ERROR"))
  /\ UNCHANGED <<data, edits, cacheRow, lock, cut, failing>>

\* They run out while the generator runs.  The database rolls back and frees the
\* lock; the generator is not told, and goes on paying the model.
TimesOutPaying(c) ==
  /\ "timeout" \in Faults
  /\ pc[c] \in {"generating", "building"}
  /\ Release(c)
  /\ Goto(c, "overrun")
  /\ UNCHANGED <<data, edits, cacheRow, context, seen, built, answer, cut, failing>>

\* The generator ends at last: the upsert meets a closed transaction and throws,
\* and so does the catch clause's update, or the commit after it.  Nothing is
\* written, not even the failure.
OverrunEnds(c) ==
  /\ pc[c] = "overrun"
  /\ Finish(c, Say("ERROR"))
  /\ UNCHANGED <<data, edits, cacheRow, lock, cut, failing>>

Step(c) ==
  \/ Decide(c) \/ TakesLock(c)
  \/ GeneratorReads(c) \/ Succeeds(c) \/ Fails(c)
  \/ OverrunEnds(c)

Fault(c) == Crash(c) \/ TimesOutWaiting(c) \/ TimesOutPaying(c)

Next ==
  \/ \E d \in Periods : EditRows(d)
  \/ \E c \in Calls : Open(c) \/ Step(c) \/ Fault(c)

Spec == Init /\ [][Next]_vars

\* A request that has started goes on: the event loop, the database and the model
\* answer.  The lock is granted in arrival order, so a waiter that finds it free
\* again and again gets it: strong fairness on TakesLock.
Fairness == \A c \in Calls : WF_vars(Step(c)) /\ SF_vars(TakesLock(c))

FairSpec == Spec /\ Fairness

-----------------------------------------------------------------------------
(* Properties.                                                             *)

Generates(c) == pc[c] \in {"generating", "building"}

\* Two people opening the same period at once buy one answer between them: whoever
\* has a transaction open on the generator holds the lock, and the answer it pays
\* for is not stored.  A viewer whose transaction has timed out may be paying too.
PaysOnlyForMissing ==
  \A c \in Calls : Generates(c) => lock = c /\ ~Hit(cacheRow, context[c])

\* The viewers at one of these steps, and the context each is there for.
PayingAt(steps) == {[by |-> c, hash |-> context[c]] : c \in {v \in Calls : pc[v] \in steps}}

Payer == INSTANCE OnePayer WITH
           Callers <- Calls, Hashes <- Contents, MayDrop <- FALSE,
           stored <- IF cacheRow = None THEN {} ELSE {cacheRow.contextHash},
           payer <- PayingAt({"generating", "building"}), late <- PayingAt({"overrun"})

\* generateUnderLock implements OnePayer: viewers of a period take turns, for what
\* is missing, and store it under the context they were asked about; one that
\* overran its transaction pays beside the next and stores nothing; and nothing
\* ever takes a stored insight away.
PaysLikeOnePayer == Payer!Spec

\* Only an answer flagged stale may have been stored under another hash than
\* that of the rows the request itself read, and it is then given as FAILED
\* (cache.ts 176-189, 324-337, 389-400).
UnflaggedIsCurrent ==
  \A c \in Calls :
    /\ answer[c].status = "READY" => ~answer[c].stale
    /\ answer[c].status # "NONE" /\ ~answer[c].stale => answer[c].under = answer[c].for

\* "The four fields that must always agree" (cache.ts 343-345): through failures,
\* overruns and overtaking viewers a stored payload is of the rows its snapshot and
\* its hash were taken from, unless those rows changed between serveInsight's
\* hashing and the reading its generator makes for itself.
PayloadMatchesSnapshot ==
  cacheRow # None /\ ~cacheRow.cut =>
    cacheRow.of = cacheRow.raw /\ cacheRow.raw = cacheRow.contextHash

\* "A failed generation may never destroy a good answer": once a row exists it
\* stays, and any step that is not a successful generation leaves its payload,
\* snapshot and hash alone.
FailureKeepsTheAnswer ==
  [][cacheRow # None =>
       /\ cacheRow' # None
       /\ (\A c \in Calls : answer'[c] = answer[c] \/ answer'[c].status # "READY")
            => /\ cacheRow'.contextHash = cacheRow.contextHash
               /\ cacheRow'.raw = cacheRow.raw
               /\ cacheRow'.of = cacheRow.of]_vars

\* Every request for a period comes to an end.
EveryRequestEnds == \A c \in Calls : pc[c] = "opened" ~> pc[c] = "done"

\* "After three consecutive failures the view stops trying on its own" (cache.ts
\* 37-39), for the content that failed (cache.ts 239-249): rows whose generation
\* has failed three times running are not taken to the model by a further view.
RetriesStop ==
  [][\A c \in Calls :
       /\ cacheRow # None
       /\ failing.for = context[c]
       /\ failing.times >= MAX_CONSECUTIVE_FAILURES
       => ~(pc[c] = "opened" /\ pc'[c] = "waiting")]_vars

\* From some moment on no process dies, no transaction times out and the model
\* refuses nothing.
FaultsCease ==
  <>[][\A c \in Calls : ~Fault(c) /\ ~(Fails(c) /\ built[c] # None)]_vars

\* An outage is not permanent for a period somebody keeps opening: once the faults
\* have ceased the stored insight becomes current and stays so, however often it
\* failed before.  (So it does at the price of RetriesStop: a failure keeps the
\* hash of the last success, and the stop asks for the hash that failed.)
OutageHeals ==
  FaultsCease /\ (\E c \in Calls : []<>(pc[c] = "opened"))
    => <>[](data = None \/ Hit(cacheRow, data))
=============================================================================
