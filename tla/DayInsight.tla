----------------------------- MODULE DayInsight -----------------------------
(***************************************************************************)
(* One instructor's day: the WorklogEntry row, the DayExtraction row       *)
(* derived from it, and every request that reads or writes either.         *)
(*                                                                         *)
(*   - POST   worklog/entry upserts the day and schedules, after the       *)
(*            response, refreshDayInsight;                                 *)
(*   - DELETE worklog/entry removes the day, then its extraction;          *)
(*   - serveDayInsight answers a viewer, generating for the instructor     *)
(*            and never for a manager or an admin;                         *)
(*   - ensureDaySummaries is the pass a week or a month makes over its     *)
(*            days before it is grouped.                                   *)
(*                                                                         *)
(* The three generating paths end in summariseDay, which is single-flight  *)
(* on a transaction-scoped advisory lock.  The steps of a request          *)
(* interleave at every await that reaches the database or the model.       *)
(*                                                                         *)
(* The words of a day are abstracted to a member of Contents; Digest is    *)
(* the context hash (not assumed injective: see WorklogDay) and            *)
(* SentencesOf the lines a day puts to the model.                          *)
(***************************************************************************)
EXTENDS FiniteSets, Naturals

CONSTANTS
  Contents,      \* what a saved day may say
  None,          \* no row
  Digest,        \* context hash of a day; Digest[None] hashes a period with no rows
  SentencesOf,   \* the distinct lines of a day that summariseDay has labelled
  Refreshes,     \* after() callbacks, one for each save: bounds the saves
  Deletes,       \* DELETE requests: bounds the deletions
  Selves,        \* the instructor's own page, opened again and again
  Managers,      \* managers' and admins' pages
  Rollups,       \* week or month generations passing over the day
  Casts,         \* who takes part together in a behaviour: bounds the overlaps
  Faults         \* which of "provider", "crash" and "timeout" may happen

Calls == Refreshes \cup Deletes \cup Selves \cup Managers \cup Rollups
Views == Selves \cup Managers
Days == Contents \cup {None}
Hashes == {Digest[d] : d \in Days}
Sentences == UNION {SentencesOf[d] : d \in Contents}

ASSUME DayAssumption ==
  /\ None \notin Contents
  /\ Digest \in [Days -> {Digest[d] : d \in Days}]
  /\ SentencesOf \in [Contents -> SUBSET Sentences]
  \* fromText and fromRows refuse a day that says nothing
  /\ \A d \in Contents : SentencesOf[d] # {}

ASSUME CallAssumption ==
  /\ None \notin Calls
  /\ Refreshes \cap (Deletes \cup Views \cup Rollups) = {}
  /\ Deletes \cap (Views \cup Rollups) = {}
  /\ Views \cap Rollups = {}
  /\ Selves \cap Managers = {}
  /\ Casts \subseteq SUBSET Calls
  /\ Faults \subseteq {"provider", "crash", "timeout"}

VARIABLES
  worklog,     \* the WorklogEntry of the day, or None
  extraction,  \* the DayExtraction of the day, or None
  lock,        \* holder of the advisory lock summary:<instructor>:<date>
  pc,          \* where each request is
  row,         \* the day as the request read it
  hash,        \* the source hash it computed
  sees,        \* the DayExtraction it last read
  answer,      \* what it answered
  cut          \* history: the passes whose day was saved or deleted between
               \* the read of its words and the read of its hash

vars == <<worklog, extraction, lock, pc, row, hash, sees, answer, cut>>

\* A stored reading: the columns of DayExtraction the readers use, the day whose
\* words produced the items, and the sentences the items cover.  cut is history:
\* it was written by a pass whose two reads were cut apart.
Reading == [hash : Hashes, status : {"READY", "FAILED"},
            of : Contents, read : SUBSET Sentences, cut : BOOLEAN]

\* No row is not a row.
ASSUME NoReadingAssumption == None \notin Reading

Statuses == {"NONE", "EMPTY", "PENDING", "READY", "FAILED", "ERROR", "DONE"}
Answer == [status : Statuses, of : Days, for : Days, cut : BOOLEAN]
Say(status) == [status |-> status, of |-> None, for |-> None, cut |-> FALSE]
Steps == {"absent", "idle", "queued", "sweeping", "opened", "sawDay", "sawRow",
          "judging", "rebuilding", "hashing", "checking", "waiting", "labelling",
          "overrun", "done"}

TypeOK ==
  /\ worklog \in Days
  /\ extraction \in Reading \cup {None}
  /\ lock \in Calls \cup {None}
  /\ pc \in [Calls -> Steps]
  /\ row \in [Calls -> Days]
  /\ hash \in [Calls -> Hashes]
  /\ sees \in [Calls -> Reading \cup {None}]
  /\ answer \in [Calls -> Answer]
  /\ cut \subseteq Rollups

Init ==
  /\ worklog = None
  /\ extraction = None
  /\ lock = None
  /\ \E cast \in Casts :
       pc = [c \in Calls |-> IF c \in cast THEN "idle" ELSE "absent"]
  /\ row = [c \in Calls |-> None]
  /\ hash = [c \in Calls |-> Digest[None]]
  /\ sees = [c \in Calls |-> None]
  /\ answer = [c \in Calls |-> Say("NONE")]
  /\ cut = {}

-----------------------------------------------------------------------------
(* Helpers.                                                                *)

\* Slip: any stored reading is taken for current.
MatchesAnything(r, h) == r # None

\* sourceHash equality, the only test of currency the code makes.
Matches(r, h) == r # None /\ r.hash = h

Goto(c, step) == pc' = [pc EXCEPT ![c] = step]

\* The request ends, and its locals with it.
Finish(c, a) ==
  /\ Goto(c, "done")
  /\ answer' = [answer EXCEPT ![c] = a]
  /\ row' = [row EXCEPT ![c] = None]
  /\ hash' = [hash EXCEPT ![c] = Digest[None]]
  /\ sees' = [sees EXCEPT ![c] = None]

Locals == <<row, hash, sees>>

\* A page is answered from the reading r of the day d; the other callers of
\* summariseDay drop what it returns.
AnswerFrom(c, r, d) ==
  IF c \in Views
    THEN [status |-> r.status, of |-> IF r.status = "READY" THEN r.of ELSE None,
          for |-> d, cut |-> r.cut]
    ELSE Say("DONE")

Release(c) == lock' = IF lock = c THEN None ELSE lock

-----------------------------------------------------------------------------
(* The worklog routes.                                                     *)

\* History only: the day moves under the passes that have its words and not yet
\* its hash.
CutsPasses == cut' = cut \cup {c \in Rollups : pc[c] = "hashing"}

\* POST: upsert the day, then after(() => refreshDayInsight(...)).
SaveDay(c, d) ==
  /\ c \in Refreshes
  /\ pc[c] = "idle"
  /\ worklog' = d
  /\ Goto(c, "queued")
  /\ CutsPasses
  /\ UNCHANGED <<extraction, lock, row, hash, sees, answer>>

\* DELETE, first statement: the entry goes, whether or not there was one.
DeleteDay(c) ==
  /\ c \in Deletes
  /\ pc[c] = "idle"
  /\ worklog' = None
  /\ Goto(c, "sweeping")
  /\ CutsPasses
  /\ UNCHANGED <<extraction, lock, row, hash, sees, answer>>

\* DELETE, second statement, and the emptied-day branch of refreshDayInsight:
\* deleteMany on the extraction, without the advisory lock.
SweepExtraction(c) ==
  /\ pc[c] = "sweeping"
  /\ extraction' = None
  /\ Finish(c, Say("DONE"))
  /\ UNCHANGED <<worklog, lock, cut>>

\* refreshDayInsight reads the day once, for the words and for the hash.
RefreshReadsDay(c) ==
  /\ c \in Refreshes
  /\ pc[c] = "queued"
  /\ row' = [row EXCEPT ![c] = worklog]
  /\ hash' = [hash EXCEPT ![c] = Digest[worklog]]
  /\ Goto(c, IF worklog = None THEN "sweeping" ELSE "checking")
  /\ UNCHANGED <<worklog, extraction, lock, sees, answer, cut>>

-----------------------------------------------------------------------------
(* serveDayInsight.                                                        *)

OpenPage(c) ==
  /\ c \in Views
  /\ pc[c] \in {"idle", "done"}
  /\ Goto(c, "opened")
  /\ answer' = [answer EXCEPT ![c] = Say("NONE")]
  /\ UNCHANGED <<worklog, extraction, lock, row, hash, sees, cut>>

\* readCanonicalDays sends its two queries together: either may be answered first.
CanonicalReadsDay(c) ==
  /\ pc[c] \in {"opened", "sawRow"}
  /\ row' = [row EXCEPT ![c] = worklog]
  /\ hash' = [hash EXCEPT ![c] = Digest[worklog]]
  /\ Goto(c, IF pc[c] = "opened" THEN "sawDay" ELSE "judging")
  /\ UNCHANGED <<worklog, extraction, lock, sees, answer, cut>>

CanonicalReadsRow(c) ==
  /\ pc[c] \in {"opened", "sawDay"}
  /\ sees' = [sees EXCEPT ![c] = extraction]
  /\ Goto(c, IF pc[c] = "opened" THEN "sawRow" ELSE "judging")
  /\ UNCHANGED <<worklog, extraction, lock, row, hash, answer, cut>>

MayGenerate(c) == c \notin Managers

\* EMPTY without a day, the stored status when the hash is current, PENDING for
\* a read-only viewer; otherwise the instructor's page goes on to generate.
CanonicalJudges(c) ==
  /\ pc[c] = "judging"
  /\ \/ /\ row[c] = None
        /\ Finish(c, Say("EMPTY"))
     \/ /\ row[c] # None
        /\ Matches(sees[c], hash[c])
        /\ Finish(c, AnswerFrom(c, sees[c], row[c]))
     \/ /\ row[c] # None
        /\ ~Matches(sees[c], hash[c])
        /\ ~MayGenerate(c)
        /\ Finish(c, Say("PENDING"))
     \/ /\ row[c] # None
        /\ ~Matches(sees[c], hash[c])
        /\ MayGenerate(c)
        /\ Goto(c, "rebuilding")
        /\ UNCHANGED <<Locals, answer>>
  /\ UNCHANGED <<worklog, extraction, lock, cut>>

\* Slip: the words are read again but the hash of the first read is kept.
RebuildKeepsHash(c) ==
  /\ pc[c] = "rebuilding"
  /\ \/ /\ worklog = None
        /\ Finish(c, Say("PENDING"))
     \/ /\ worklog # None
        /\ row' = [row EXCEPT ![c] = worklog]
        /\ Goto(c, "checking")
        /\ UNCHANGED <<hash, sees, answer>>
  /\ UNCHANGED <<worklog, extraction, lock, cut>>

\* buildCanonicalContext, read a second time: the day may have gone since.
ViewRebuilds(c) ==
  /\ pc[c] = "rebuilding"
  /\ \/ /\ worklog = None
        /\ Finish(c, Say("PENDING"))
     \/ /\ worklog # None
        /\ row' = [row EXCEPT ![c] = worklog]
        /\ hash' = [hash EXCEPT ![c] = Digest[worklog]]
        /\ Goto(c, "checking")
        /\ UNCHANGED <<sees, answer>>
  /\ UNCHANGED <<worklog, extraction, lock, cut>>

-----------------------------------------------------------------------------
(* ensureDaySummaries: the words come from the period's read, the hash     *)
(* from a second read of the day alone.                                    *)

RollupReadsPeriod(c) ==
  /\ c \in Rollups
  /\ pc[c] \in {"idle", "done"}
  /\ worklog # None
  /\ row' = [row EXCEPT ![c] = worklog]
  /\ Goto(c, "hashing")
  /\ answer' = [answer EXCEPT ![c] = Say("NONE")]
  /\ cut' = cut \ {c}
  /\ UNCHANGED <<worklog, extraction, lock, hash, sees>>

RollupHashesDay(c) ==
  /\ pc[c] = "hashing"
  /\ hash' = [hash EXCEPT ![c] = Digest[worklog]]
  /\ Goto(c, "checking")
  /\ UNCHANGED <<worklog, extraction, lock, row, sees, answer, cut>>

-----------------------------------------------------------------------------
(* summariseDay.                                                           *)

\* The check before the lock.
ChecksStored(c) ==
  /\ pc[c] = "checking"
  /\ \/ /\ Matches(extraction, hash[c])
        /\ Finish(c, AnswerFrom(c, extraction, row[c]))
     \/ /\ ~Matches(extraction, hash[c])
        /\ Goto(c, "waiting")
        /\ UNCHANGED <<Locals, answer>>
  /\ UNCHANGED <<worklog, extraction, lock, cut>>

\* Slip: the row read before the lock is trusted inside it.
TakesLockUnread(c) ==
  /\ pc[c] = "waiting"
  /\ lock = None
  /\ lock' = c
  /\ sees' = [sees EXCEPT ![c] = extraction]
  /\ Goto(c, "labelling")
  /\ UNCHANGED <<worklog, extraction, row, hash, answer, cut>>

\* pg_advisory_xact_lock and the re-read inside it.  A match ends the
\* transaction at once, and the lock with it.
TakesLock(c) ==
  /\ pc[c] = "waiting"
  /\ lock = None
  /\ \/ /\ Matches(extraction, hash[c])
        /\ Finish(c, AnswerFrom(c, extraction, row[c]))
        /\ UNCHANGED lock
     \/ /\ ~Matches(extraction, hash[c])
        /\ lock' = c
        /\ sees' = [sees EXCEPT ![c] = extraction]
        /\ Goto(c, "labelling")
        /\ UNCHANGED <<row, hash, answer>>
  /\ UNCHANGED <<worklog, extraction, cut>>

\* Lines the last normalisation settled are reused by their words; the model is
\* asked about the others only.
Reused(c) == IF sees[c] = None THEN {} ELSE sees[c].read \cap SentencesOf[row[c]]
Asked(c) == SentencesOf[row[c]] \ Reused(c)

\* labelText over the distinct new lines: a provider may refuse any of them.
Labelled(c) == IF "provider" \in Faults THEN SUBSET Asked(c) ELSE {Asked(c)}

\* At least one item: upsert READY under the request's hash and commit.
WritesReading(c, ok) ==
  LET got == Reused(c) \cup ok
      r == [hash |-> hash[c], status |-> "READY", of |-> row[c], read |-> got,
            cut |-> c \in cut]
  IN /\ got # {}
     /\ extraction' = r
     /\ Release(c)
     /\ Finish(c, AnswerFrom(c, r, row[c]))
     /\ UNCHANGED <<worklog, cut>>

\* No item: the FAILED record reads `recorded`, which is a local of
\* toSummaryDay and not in scope here, so building it throws and the
\* transaction rolls back.
RefusedThrows(c, ok) ==
  /\ Reused(c) \cup ok = {}
  /\ Release(c)
  /\ Finish(c, Say("ERROR"))
  /\ UNCHANGED <<worklog, extraction, cut>>

\* Stage A has answered for every new line; Stage B only decorates and never
\* fails.  The transaction ends one way or the other.
EndsGeneration(c) ==
  /\ pc[c] = "labelling"
  /\ \E ok \in Labelled(c) : WritesReading(c, ok) \/ RefusedThrows(c, ok)

\* The process dies: nothing is written and the transaction-scoped lock is
\* released.
Crash(c) ==
  /\ "crash" \in Faults
  /\ pc[c] \notin {"absent", "idle", "done"}
  /\ Release(c)
  /\ Finish(c, Say("ERROR"))
  /\ UNCHANGED <<worklog, extraction, cut>>

\* The 60 s of the transaction run out before the lock is granted: the request
\* fails at its next statement, which is the re-read.
TimesOutWaiting(c) ==
  /\ "timeout" \in Faults
  /\ pc[c] = "waiting"
  /\ Finish(c, Say("ERROR"))
  /\ UNCHANGED <<worklog, extraction, lock, cut>>

\* They run out while the model is being asked.  The database rolls back and frees
\* the lock; the callback is not told, and goes on awaiting and paying the model.
TimesOutPaying(c) ==
  /\ "timeout" \in Faults
  /\ pc[c] = "labelling"
  /\ Release(c)
  /\ Goto(c, "overrun")
  /\ UNCHANGED <<worklog, extraction, row, hash, sees, answer, cut>>

\* Slip: what it paid for is stored all the same.
OverrunStores(c) ==
  /\ pc[c] = "overrun"
  /\ extraction' = [hash |-> hash[c], status |-> "READY", of |-> row[c],
                    read |-> SentencesOf[row[c]], cut |-> c \in cut]
  /\ Finish(c, Say("DONE"))
  /\ UNCHANGED <<worklog, lock, cut>>

\* It has its answer from the model at last: the upsert meets a closed transaction
\* and throws, as building the FAILED record would.  What was paid for is lost.
OverrunEnds(c) ==
  /\ pc[c] = "overrun"
  /\ Finish(c, Say("ERROR"))
  /\ UNCHANGED <<worklog, extraction, lock, cut>>

-----------------------------------------------------------------------------
Step(c) ==
  \/ SweepExtraction(c)
  \/ RefreshReadsDay(c)
  \/ CanonicalReadsDay(c) \/ CanonicalReadsRow(c) \/ CanonicalJudges(c)
  \/ ViewRebuilds(c)
  \/ RollupHashesDay(c)
  \/ ChecksStored(c) \/ TakesLock(c)
  \/ EndsGeneration(c) \/ OverrunEnds(c)

Request(c) ==
  \/ \E d \in Contents : SaveDay(c, d)
  \/ DeleteDay(c)
  \/ OpenPage(c)
  \/ RollupReadsPeriod(c)

Fault(c) == Crash(c) \/ TimesOutWaiting(c) \/ TimesOutPaying(c)

Next == \E c \in Calls : Request(c) \/ Step(c) \/ Fault(c)

Spec == Init /\ [][Next]_vars

\* A request that has started goes on: the event loop and the database answer.
\* The lock is granted in arrival order by the database, so a waiter that finds
\* it free again and again gets it: strong fairness on TakesLock.
Fairness == \A c \in Calls : WF_vars(Step(c)) /\ SF_vars(TakesLock(c))

FairSpec == Spec /\ Fairness

-----------------------------------------------------------------------------
(* Properties.                                                             *)

Current == extraction # None /\ extraction.hash = Digest[worklog]

\* Whoever has a transaction open on the model holds the day's lock, and has not
\* begun to pay for a reading that is stored (summariseDay's re-read inside it).
PaysOnlyForMissing ==
  \A c \in Calls :
    pc[c] = "labelling" => lock = c /\ ~Matches(extraction, hash[c])

\* A lock is only held by a request that is using it: no path out of the
\* transaction strands it (cache.ts: "a crash cannot strand it").
LockIsInUse == lock # None => pc[lock] = "labelling"

\* Single flight (serve-day.ts 121-124), as far as the transaction carries it: one
\* request at a time works on a day, only when it has to, and the lock is free
\* otherwise.  A request whose transaction has timed out may be paying beside it.
SingleFlight == PaysOnlyForMissing /\ LockIsInUse

\* The requests at a step where they pay the model, and for which hash.
PayingAt(step) == {[by |-> c, hash |-> hash[c]] : c \in {r \in Calls : pc[r] = step}}

Payer == INSTANCE OnePayer WITH
           Callers <- Calls, Hashes <- Hashes, MayDrop <- TRUE,
           stored <- IF extraction = None THEN {} ELSE {extraction.hash},
           payer <- PayingAt("labelling"), late <- PayingAt("overrun")

\* summariseDay implements OnePayer: whichever of the four kinds of request
\* reaches it, they take turns, for what is missing, and store what they paid for;
\* one that overran its transaction pays beside the next and stores nothing; and
\* only a deletion takes a reading away.
PaysLikeOnePayer == Payer!Spec

\* A stored reading is of the words its hash was taken from (summariseDay is given
\* the row and its hash together), unless a period's pass wrote it and the
\* day was saved or deleted between the two reads of that pass.
ReadingMatchesHash ==
  extraction # None /\ ~extraction.cut => Digest[extraction.of] = extraction.hash

\* A page answered READY shows a reading of the day that request itself read,
\* whatever saves, deletions and other readings happened meanwhile; the reading of
\* a cut pass apart, which any page may be shown while its hash is the day's.
ServedIsOfTheDayRead ==
  \A c \in Views :
    answer[c].status = "READY" /\ ~answer[c].cut =>
      /\ answer[c].for # None
      /\ Digest[answer[c].of] = Digest[answer[c].for]

\* A generation that runs to its end leaves a record under the hash it was for:
\* READY, or FAILED so that readers are told and nobody pays for the same refusal
\* again (serve-day.ts 296-304).  Stated for runs without crashes.
RefusalIsRecorded ==
  [][\A c \in Calls : pc[c] = "labelling" /\ pc'[c] = "done"
                        => Matches(extraction', hash[c])]_vars

\* From some moment on no process dies, no transaction times out and no reading is
\* refused whole.
Fails(c) ==
  \/ Fault(c)
  \/ pc[c] = "labelling" /\ \E ok \in Labelled(c) : RefusedThrows(c, ok)
FaultsCease == <>[][\A c \in Calls : ~Fails(c)]_vars

\* Whatever the races between refreshes and whatever failed before, an instructor
\* who keeps looking at the day once the failures have ceased ends with a current
\* reading, for every reader, for good.
SelfViewsHeal ==
  FaultsCease /\ (\E c \in Selves : []<>(pc[c] = "opened"))
    => <>[](worklog = None \/ Current)
=============================================================================
