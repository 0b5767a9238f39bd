-------------------------- MODULE DayInsightProofs --------------------------
(***************************************************************************)
(* Proofs about one day: of its reading, for any contents, any hash of     *)
(* them and any number of saves, deletions, viewers and passing            *)
(* generations (DayInsight); and of what is saved and hashed, for any      *)
(* number of rows (SavedDay, at the end).                                  *)
(***************************************************************************)
EXTENDS DayInsight, SavedDay, WellFoundedInduction, TLAPS

\* A request that carries a day towards the model really has one: what
\* "row was read and found" means between two reads of the database.
CarriesDay ==
  \A c \in Calls :
    pc[c] \in {"hashing", "checking", "waiting", "labelling", "overrun"} =>
      row[c] \in Contents

Typed == TypeOK /\ CarriesDay

USE DEF Goto, Locals, Say

-----------------------------------------------------------------------------
(* Types.                                                                  *)

LEMMA DigestIsHash == \A d \in Days : Digest[d] \in Hashes
  BY DEF Hashes

LEMMA SayTypes == \A s \in Statuses : Say(s) \in Answer
  BY DEF Answer, Days

\* Ending a request leaves its locals empty and everybody else's alone.
LEMMA FinishTypes ==
  ASSUME Typed, NEW c \in Calls, NEW a \in Answer, Finish(c, a)
  PROVE  /\ pc' \in [Calls -> Steps]
         /\ row' \in [Calls -> Days]
         /\ hash' \in [Calls -> Hashes]
         /\ sees' \in [Calls -> Reading \cup {None}]
         /\ answer' \in [Calls -> Answer]
         /\ CarriesDay'
<1>1. Digest[None] \in Hashes /\ None \in Days
  BY DEF Hashes, Days
<1>2. /\ pc' \in [Calls -> Steps]
      /\ row' \in [Calls -> Days]
      /\ hash' \in [Calls -> Hashes]
  BY <1>1 DEF Finish, Typed, TypeOK, Steps
<1>3. /\ sees' \in [Calls -> Reading \cup {None}]
      /\ answer' \in [Calls -> Answer]
  BY DEF Finish, Typed, TypeOK
<1>4. CarriesDay'
  BY DEF Finish, Typed, TypeOK, CarriesDay
<1> QED
  BY <1>2, <1>3, <1>4

LEMMA AnswerFromTypes ==
  ASSUME NEW c \in Calls, NEW r \in Reading, NEW d \in Days
  PROVE  AnswerFrom(c, r, d) \in Answer
  BY DEF AnswerFrom, Answer, Reading, Statuses, Days

LEMMA InitTyped == Init => Typed
  BY DEF Init, Typed, TypeOK, CarriesDay, Steps, Days, Hashes, Answer, Statuses

\* What the model read and what was reused are sentences of some day.
LEMMA ReusedAndAsked ==
  ASSUME Typed, NEW c \in Calls, pc[c] = "labelling", NEW ok \in Labelled(c)
  PROVE  /\ Reused(c) \cup ok \subseteq SentencesOf[row[c]]
         /\ Reused(c) \cup ok \in SUBSET Sentences
<1>1. row[c] \in Contents
  BY DEF Typed, CarriesDay
<1>2. SentencesOf[row[c]] \subseteq Sentences
  BY <1>1 DEF Sentences
<1>3. ok \subseteq SentencesOf[row[c]] /\ Reused(c) \subseteq SentencesOf[row[c]]
  BY DEF Labelled, Asked, Reused
<1> QED
  BY <1>2, <1>3

LEMMA NextTyped == Typed /\ [Next]_vars => Typed'
<1> SUFFICES ASSUME Typed, [Next]_vars PROVE Typed'
  OBVIOUS
<1> USE DigestIsHash DEF Typed
<1>1. ASSUME NEW c \in Calls, Request(c) PROVE Typed'
  <2>1. ASSUME NEW d \in Contents, SaveDay(c, d) PROVE Typed'
    BY <2>1 DEF SaveDay, CutsPasses, TypeOK, CarriesDay, Steps, Days
  <2>2. CASE DeleteDay(c)
    BY <2>2 DEF DeleteDay, CutsPasses, TypeOK, CarriesDay, Steps, Days
  <2>3. CASE OpenPage(c)
    BY <2>3, SayTypes DEF OpenPage, TypeOK, CarriesDay, Steps, Statuses
  <2>4. CASE RollupReadsPeriod(c)
    BY <2>4, SayTypes DEF RollupReadsPeriod, TypeOK, CarriesDay, Steps, Statuses, Days
  <2> QED
    BY <1>1, <2>1, <2>2, <2>3, <2>4 DEF Request
<1>2. ASSUME NEW c \in Calls, SweepExtraction(c) PROVE Typed'
  <2>1. Say("DONE") \in Answer
    BY SayTypes DEF Statuses
  <2> QED
    BY <1>2, <2>1, FinishTypes DEF SweepExtraction, TypeOK
<1>3. ASSUME NEW c \in Calls, RefreshReadsDay(c) PROVE Typed'
  BY <1>3 DEF RefreshReadsDay, TypeOK, CarriesDay, Steps, Days
<1>4. ASSUME NEW c \in Calls, CanonicalReadsDay(c) \/ CanonicalReadsRow(c) PROVE Typed'
  BY <1>4 DEF CanonicalReadsDay, CanonicalReadsRow, TypeOK, CarriesDay, Steps
<1>5. ASSUME NEW c \in Calls, CanonicalJudges(c) PROVE Typed'
  <2>1. ASSUME Matches(sees[c], hash[c]) PROVE AnswerFrom(c, sees[c], row[c]) \in Answer
    BY <2>1, AnswerFromTypes DEF Matches, TypeOK
  <2>2. Say("EMPTY") \in Answer /\ Say("PENDING") \in Answer
    BY SayTypes DEF Statuses
  <2>3. ASSUME NEW a \in Answer, Finish(c, a), UNCHANGED <<worklog, extraction, lock, cut>>
        PROVE  Typed'
    BY <2>3, FinishTypes DEF TypeOK
  <2>4. ASSUME Goto(c, "rebuilding"), UNCHANGED <<worklog, extraction, lock, row, hash, sees, answer, cut>>
        PROVE  Typed'
    BY <2>4 DEF TypeOK, CarriesDay, Steps
  <2> QED
    BY <1>5, <2>1, <2>2, <2>3, <2>4 DEF CanonicalJudges
<1>6. ASSUME NEW c \in Calls, ViewRebuilds(c) PROVE Typed'
  <2>1. Say("PENDING") \in Answer
    BY SayTypes DEF Statuses
  <2>2. CASE worklog = None
    BY <1>6, <2>1, <2>2, FinishTypes DEF ViewRebuilds, TypeOK
  <2>3. CASE worklog # None
    BY <1>6, <2>3 DEF ViewRebuilds, TypeOK, CarriesDay, Steps, Days
  <2> QED
    BY <2>2, <2>3
<1>7. ASSUME NEW c \in Calls, RollupHashesDay(c) PROVE Typed'
  BY <1>7 DEF RollupHashesDay, TypeOK, CarriesDay, Steps
<1>8. ASSUME NEW c \in Calls, ChecksStored(c) \/ TakesLock(c) PROVE Typed'
  <2>1. ASSUME Matches(extraction, hash[c])
        PROVE  AnswerFrom(c, extraction, row[c]) \in Answer
    BY <2>1, AnswerFromTypes DEF Matches, TypeOK
  <2>2. CASE Matches(extraction, hash[c])
    BY <1>8, <2>1, <2>2, FinishTypes DEF ChecksStored, TakesLock, TypeOK
  <2>3. CASE ~Matches(extraction, hash[c])
    BY <1>8, <2>3 DEF ChecksStored, TakesLock, TypeOK, CarriesDay, Steps
  <2> QED
    BY <2>2, <2>3
<1>9. ASSUME NEW c \in Calls, EndsGeneration(c) PROVE Typed'
  <2>1. PICK ok \in Labelled(c) : WritesReading(c, ok) \/ RefusedThrows(c, ok)
    BY <1>9 DEF EndsGeneration
  <2>2. pc[c] = "labelling" /\ row[c] \in Contents
    BY <1>9 DEF EndsGeneration, CarriesDay
  <2>3. lock' \in Calls \cup {None}
    BY <2>1 DEF WritesReading, RefusedThrows, Release, TypeOK
  <2>4. CASE WritesReading(c, ok)
    <3> DEFINE r == [hash |-> hash[c], status |-> "READY", of |-> row[c],
                     read |-> Reused(c) \cup ok, cut |-> c \in cut]
    <3>1. r \in Reading
      BY <2>2, ReusedAndAsked DEF Reading, TypeOK
    <3>2. AnswerFrom(c, r, row[c]) \in Answer
      BY <3>1, <2>2, AnswerFromTypes DEF Days
    <3>3. extraction' = r /\ Finish(c, AnswerFrom(c, r, row[c])) /\ UNCHANGED <<worklog, cut>>
      BY <2>4 DEF WritesReading
    <3> HIDE DEF r
    <3> QED
      BY <2>3, <3>1, <3>2, <3>3, FinishTypes DEF TypeOK
  <2>5. CASE RefusedThrows(c, ok)
    <3>1. Say("ERROR") \in Answer
      BY SayTypes DEF Statuses
    <3> QED
      BY <2>3, <2>5, <3>1, FinishTypes DEF RefusedThrows, TypeOK
  <2> QED
    BY <2>1, <2>4, <2>5
<1>10. ASSUME NEW c \in Calls, Crash(c) PROVE Typed'
  <2>1. Say("ERROR") \in Answer
    BY SayTypes DEF Statuses
  <2>2. lock' \in Calls \cup {None}
    BY <1>10 DEF Crash, Release, TypeOK
  <2> QED
    BY <1>10, <2>1, <2>2, FinishTypes DEF Crash, TypeOK
<1>11. ASSUME NEW c \in Calls, TimesOutWaiting(c) \/ OverrunEnds(c) PROVE Typed'
  <2>1. Say("ERROR") \in Answer
    BY SayTypes DEF Statuses
  <2> QED
    BY <1>11, <2>1, FinishTypes DEF TimesOutWaiting, OverrunEnds, TypeOK
<1>12. ASSUME NEW c \in Calls, TimesOutPaying(c) PROVE Typed'
  BY <1>12 DEF TimesOutPaying, Release, TypeOK, CarriesDay, Steps
<1>13. CASE UNCHANGED vars
  BY <1>13 DEF vars, TypeOK, CarriesDay
<1> QED
  BY <1>1, <1>2, <1>3, <1>4, <1>5, <1>6, <1>7, <1>8, <1>9, <1>10, <1>11, <1>12, <1>13
     DEF Next, Step, Fault

\* Every variable keeps its type, and a request never carries an absent day to
\* the model.
THEOREM TypeCorrect == Spec => []Typed
  BY InitTyped, NextTyped, PTL DEF Spec

-----------------------------------------------------------------------------
(* Single flight.                                                          *)

LEMMA NextSingleFlight == Typed /\ SingleFlight /\ [Next]_vars => SingleFlight'
<1> SUFFICES ASSUME Typed, SingleFlight, [Next]_vars PROVE SingleFlight'
  OBVIOUS
<1> USE DEF SingleFlight, PaysOnlyForMissing, LockIsInUse, Typed
\* Steps that neither start nor end a generation leave everybody who is in one
\* alone.
<1>1. ASSUME NEW c \in Calls, pc[c] # "labelling", pc'[c] # "labelling",
             \A o \in Calls : o # c => pc'[o] = pc[o] /\ hash'[o] = hash[o],
             lock' = lock, extraction' \in {extraction, None}
      PROVE  SingleFlight'
  BY <1>1, CallAssumption DEF TypeOK, Matches
<1>2. ASSUME NEW c \in Calls, Request(c) PROVE SingleFlight'
  BY <1>1, <1>2 DEF Request, SaveDay, DeleteDay, OpenPage, RollupReadsPeriod, TypeOK
<1>3. ASSUME NEW c \in Calls, SweepExtraction(c) \/ RefreshReadsDay(c)
      PROVE  SingleFlight'
  BY <1>1, <1>3 DEF SweepExtraction, RefreshReadsDay, Finish, TypeOK
<1>4. ASSUME NEW c \in Calls, CanonicalReadsDay(c) \/ CanonicalReadsRow(c)
      PROVE  SingleFlight'
  BY <1>1, <1>4 DEF CanonicalReadsDay, CanonicalReadsRow, TypeOK
<1>5. ASSUME NEW c \in Calls, CanonicalJudges(c) PROVE SingleFlight'
  BY <1>1, <1>5 DEF CanonicalJudges, Finish, TypeOK
<1>6. ASSUME NEW c \in Calls, ViewRebuilds(c) \/ RollupHashesDay(c)
      PROVE  SingleFlight'
  BY <1>1, <1>6 DEF ViewRebuilds, RollupHashesDay, Finish, TypeOK
<1>7. ASSUME NEW c \in Calls, ChecksStored(c) PROVE SingleFlight'
  BY <1>1, <1>7 DEF ChecksStored, Finish, TypeOK
<1>8. ASSUME NEW c \in Calls, TakesLock(c) PROVE SingleFlight'
  <2>1. CASE Matches(extraction, hash[c])
    BY <1>1, <1>8, <2>1 DEF TakesLock, Finish, TypeOK
  <2>2. CASE ~Matches(extraction, hash[c])
    <3>1. \A o \in Calls : pc[o] # "labelling"
      BY <1>8, CallAssumption DEF TakesLock
    <3>2. /\ lock' = c /\ pc'[c] = "labelling"
          /\ UNCHANGED <<extraction, hash>>
          /\ \A o \in Calls : o # c => pc'[o] = pc[o]
      BY <1>8, <2>2 DEF TakesLock, TypeOK
    <3> QED
      BY <2>2, <3>1, <3>2 DEF Matches
  <2> QED
    BY <2>1, <2>2
\* The end of a generation, of its process or of its transaction leaves no turn taken.
<1>9. ASSUME NEW c \in Calls, pc[c] = "labelling", pc'[c] # "labelling", Release(c),
             \A o \in Calls : o # c => pc'[o] = pc[o]
      PROVE  SingleFlight'
  BY <1>9, CallAssumption DEF Release, TypeOK
<1>10. ASSUME NEW c \in Calls, EndsGeneration(c) PROVE SingleFlight'
  BY <1>9, <1>10 DEF EndsGeneration, WritesReading, RefusedThrows, Finish, TypeOK
<1>11. ASSUME NEW c \in Calls, Crash(c) PROVE SingleFlight'
  <2>1. CASE pc[c] = "labelling"
    BY <1>9, <1>11, <2>1 DEF Crash, Finish, TypeOK
  <2>2. CASE pc[c] # "labelling"
    <3>1. lock' = lock
      BY <1>11, <2>2 DEF Crash, Release
    <3> QED
      BY <1>1, <1>11, <2>2, <3>1 DEF Crash, Finish, TypeOK
  <2> QED
    BY <2>1, <2>2
<1>12. ASSUME NEW c \in Calls, TimesOutWaiting(c) \/ OverrunEnds(c) PROVE SingleFlight'
  BY <1>1, <1>12 DEF TimesOutWaiting, OverrunEnds, Finish, TypeOK
<1>13. ASSUME NEW c \in Calls, TimesOutPaying(c) PROVE SingleFlight'
  BY <1>9, <1>13 DEF TimesOutPaying, TypeOK
<1>14. CASE UNCHANGED vars
  BY <1>14 DEF vars, Matches
<1> QED
  BY <1>2, <1>3, <1>4, <1>5, <1>6, <1>7, <1>8, <1>10, <1>11, <1>12, <1>13, <1>14
     DEF Next, Step, Fault

\* One request at a time has a transaction open on the model for a day, and takes
\* it only for a reading that is not stored; the lock is never stranded.  Requests
\* that overran theirs may be paying beside it.
THEOREM PaysOnce == Spec => []SingleFlight
<1>1. Init => SingleFlight
  BY CallAssumption DEF Init, SingleFlight, PaysOnlyForMissing, LockIsInUse
<1> QED
  BY <1>1, TypeCorrect, NextSingleFlight, PTL DEF Spec

-----------------------------------------------------------------------------
(* The abstract promise.                                                   *)

Turn == PayingAt("labelling")
Late == PayingAt("overrun")
Bill(c) == [by |-> c, hash |-> hash[c]]

\* Somebody at his turn is the only one.
LEMMA OneTurn ==
  ASSUME SingleFlight, NEW c \in Calls, pc[c] = "labelling"
  PROVE  /\ \A o \in Calls : pc[o] = "labelling" => o = c
         /\ Turn = {Bill(c)}
<1>1. \A o \in Calls : pc[o] = "labelling" => o = c
  BY DEF SingleFlight, PaysOnlyForMissing
<1> QED
  BY <1>1 DEF Turn, PayingAt, Bill

\* A step that moves nobody to or from a step keeps who is paying there.
LEMMA PayersKept ==
  ASSUME NEW step,
         \A o \in Calls : pc'[o] = step <=> pc[o] = step,
         \A o \in Calls : pc[o] = step => hash'[o] = hash[o]
  PROVE  PayingAt(step)' = PayingAt(step)
<1>1. {r \in Calls : pc'[r] = step} = {r \in Calls : pc[r] = step}
  OBVIOUS
<1> QED
  BY <1>1 DEF PayingAt

\* A step of a request that does not pay before it nor after it, and leaves the
\* stored reading alone or removes it, is a stutter or a Drop.
LEMMA NobodyPays ==
  ASSUME NEW c \in Calls,
         pc[c] \notin {"labelling", "overrun"}, pc'[c] \notin {"labelling", "overrun"},
         \A o \in Calls : o # c => pc'[o] = pc[o] /\ hash'[o] = hash[o],
         extraction' \in {extraction, None}
  PROVE  [Payer!Next]_(Payer!vars)
<1>1. Turn' = Turn /\ Late' = Late
  BY PayersKept DEF Turn, Late
<1> QED
  BY <1>1 DEF Payer!Next, Payer!Drop, Payer!vars, Turn, Late

\* A step that ends the turn of c, storing what c asked for or nothing new.
LEMMA TurnEnds ==
  ASSUME SingleFlight, NEW c \in Calls, pc[c] = "labelling", pc'[c] = "done",
         \A o \in Calls : o # c => pc'[o] = pc[o] /\ hash'[o] = hash[o],
         \/ extraction' = extraction
         \/ extraction' # None /\ extraction'.hash = hash[c]
  PROVE  [Payer!Next]_(Payer!vars)
<1>1. Turn = {Bill(c)} /\ (\A o \in Calls : pc'[o] # "labelling")
  BY OneTurn
<1>2. Turn' = {}
  BY <1>1 DEF Turn, PayingAt
<1>3. Late' = Late
  BY PayersKept DEF Late
<1>4. CASE extraction' = extraction
  BY <1>1, <1>2, <1>3, <1>4 DEF Payer!Next, Payer!GiveUp, Turn, Late
<1>5. CASE extraction' # None /\ extraction'.hash = hash[c]
  <2>1. Bill(c) \in Turn /\ Bill(c).hash = hash[c]
    BY <1>1 DEF Bill
  <2>2. Payer!Pay(Bill(c))
    BY <1>1, <1>2, <1>3, <1>5, <2>1 DEF Payer!Pay, Turn, Late
  <2> QED
    BY <2>1, <2>2 DEF Payer!Next, Turn
<1> QED
  BY <1>4, <1>5

\* A transaction that times out under the model: the turn is lost, the paying goes on.
LEMMA TurnOverruns ==
  ASSUME SingleFlight, NEW c \in Calls, pc[c] = "labelling", pc'[c] = "overrun",
         \A o \in Calls : o # c => pc'[o] = pc[o],
         UNCHANGED <<hash, extraction>>
  PROVE  [Payer!Next]_(Payer!vars)
<1>1. Turn = {Bill(c)} /\ (\A o \in Calls : pc'[o] # "labelling")
  BY OneTurn
<1>2. Turn' = {}
  BY <1>1 DEF Turn, PayingAt
<1>3. {r \in Calls : pc'[r] = "overrun"} = {r \in Calls : pc[r] = "overrun"} \cup {c}
  OBVIOUS
<1>4. Late' = Late \cup {Bill(c)}
  BY <1>3 DEF Late, PayingAt, Bill
<1>5. Payer!Overrun(Bill(c))
  BY <1>1, <1>2, <1>4 DEF Payer!Overrun, Turn, Late
<1> QED
  BY <1>1, <1>5 DEF Payer!Next, Turn

\* A late payer's end.
LEMMA LatePayerEnds ==
  ASSUME NEW c \in Calls, pc[c] = "overrun", pc'[c] = "done",
         \A o \in Calls : o # c => pc'[o] = pc[o] /\ hash'[o] = hash[o],
         UNCHANGED extraction
  PROVE  [Payer!Next]_(Payer!vars)
<1>1. Turn' = Turn
  BY PayersKept DEF Turn
<1>2. {r \in Calls : pc'[r] = "overrun"} = {r \in Calls : pc[r] = "overrun"} \ {c}
  OBVIOUS
<1>3. Late' = Late \ {Bill(c)} /\ Bill(c) \in Late
  BY <1>2 DEF Late, PayingAt, Bill
<1>4. Payer!LateEnds(Bill(c))
  BY <1>1, <1>3 DEF Payer!LateEnds, Turn, Late
<1> QED
  BY <1>3, <1>4 DEF Payer!Next, Late

LEMMA NextPaysLikeOnePayer ==
  Typed /\ SingleFlight /\ [Next]_vars => [Payer!Next]_(Payer!vars)
<1> SUFFICES ASSUME Typed, SingleFlight, [Next]_vars
             PROVE  [Payer!Next]_(Payer!vars)
  OBVIOUS
<1> USE DEF Typed
<1>2. ASSUME NEW c \in Calls, Request(c) PROVE [Payer!Next]_(Payer!vars)
  BY NobodyPays, <1>2 DEF Request, SaveDay, DeleteDay, OpenPage, RollupReadsPeriod, TypeOK
<1>3. ASSUME NEW c \in Calls, SweepExtraction(c) \/ RefreshReadsDay(c)
      PROVE  [Payer!Next]_(Payer!vars)
  BY NobodyPays, <1>3 DEF SweepExtraction, RefreshReadsDay, Finish, TypeOK
<1>4. ASSUME NEW c \in Calls, CanonicalReadsDay(c) \/ CanonicalReadsRow(c) \/ CanonicalJudges(c)
      PROVE  [Payer!Next]_(Payer!vars)
  BY NobodyPays, <1>4 DEF CanonicalReadsDay, CanonicalReadsRow, CanonicalJudges, Finish, TypeOK
<1>5. ASSUME NEW c \in Calls, ViewRebuilds(c) \/ RollupHashesDay(c) \/ ChecksStored(c)
      PROVE  [Payer!Next]_(Payer!vars)
  BY NobodyPays, <1>5 DEF ViewRebuilds, RollupHashesDay, ChecksStored, Finish, TypeOK
<1>6. ASSUME NEW c \in Calls, TakesLock(c) PROVE [Payer!Next]_(Payer!vars)
  <2>1. CASE Matches(extraction, hash[c])
    BY NobodyPays, <1>6, <2>1 DEF TakesLock, Finish, TypeOK
  <2>2. CASE ~Matches(extraction, hash[c])
    <3>1. \A o \in Calls : pc[o] # "labelling"
      BY <1>6, CallAssumption DEF TakesLock, SingleFlight, PaysOnlyForMissing
    <3>2. /\ pc'[c] = "labelling"
          /\ UNCHANGED <<extraction, hash>>
          /\ \A o \in Calls : o # c => pc'[o] = pc[o]
      BY <1>6, <2>2 DEF TakesLock, TypeOK
    <3>3. Turn = {} /\ Late' = Late
      BY <1>6, <3>1, <3>2, PayersKept DEF TakesLock, Turn, Late, PayingAt
    <3>4. {r \in Calls : pc'[r] = "labelling"} = {c}
      BY <3>1, <3>2
    <3>5. Turn' = {[by |-> c, hash |-> hash[c]]}
      BY <3>2, <3>4 DEF Turn, PayingAt
    <3>6. hash[c] \notin (IF extraction = None THEN {} ELSE {extraction.hash})
      BY <2>2 DEF Matches
    <3>7. Payer!Begin(c, hash[c])
      BY <3>2, <3>3, <3>5, <3>6 DEF Payer!Begin, Turn, Late
    <3> QED
      BY <3>7 DEF Payer!Next, TypeOK
  <2> QED
    BY <2>1, <2>2
<1>7. ASSUME NEW c \in Calls, EndsGeneration(c) PROVE [Payer!Next]_(Payer!vars)
  <2>1. PICK ok \in Labelled(c) : WritesReading(c, ok) \/ RefusedThrows(c, ok)
    BY <1>7 DEF EndsGeneration
  <2>2. pc[c] = "labelling" /\ row[c] \in Contents
    BY <1>7 DEF EndsGeneration, CarriesDay
  <2>3. pc'[c] = "done" /\ (\A o \in Calls : o # c => pc'[o] = pc[o] /\ hash'[o] = hash[o])
    BY <2>1 DEF WritesReading, RefusedThrows, Finish, TypeOK
  <2>4. CASE WritesReading(c, ok)
    <3> DEFINE r == [hash |-> hash[c], status |-> "READY", of |-> row[c],
                     read |-> Reused(c) \cup ok, cut |-> c \in cut]
    <3>1. r \in Reading
      BY <2>2, ReusedAndAsked DEF Reading, TypeOK
    <3>2. extraction' = r /\ r.hash = hash[c]
      BY <2>4 DEF WritesReading
    <3>3. r # None
      BY <3>1, NoReadingAssumption
    <3> QED
      BY <2>2, <2>3, <3>2, <3>3, TurnEnds
  <2>5. CASE RefusedThrows(c, ok)
    BY <2>2, <2>3, <2>5, TurnEnds DEF RefusedThrows
  <2> QED
    BY <2>1, <2>4, <2>5
<1>8. ASSUME NEW c \in Calls, Crash(c) PROVE [Payer!Next]_(Payer!vars)
  <2>1. CASE pc[c] = "labelling"
    BY <1>8, <2>1, TurnEnds DEF Crash, Finish, TypeOK
  <2>2. CASE pc[c] = "overrun"
    BY <1>8, <2>2, LatePayerEnds DEF Crash, Finish, TypeOK
  <2>3. CASE pc[c] \notin {"labelling", "overrun"}
    BY NobodyPays, <1>8, <2>3 DEF Crash, Finish, TypeOK
  <2> QED
    BY <2>1, <2>2, <2>3
<1>9. ASSUME NEW c \in Calls, TimesOutWaiting(c) PROVE [Payer!Next]_(Payer!vars)
  BY NobodyPays, <1>9 DEF TimesOutWaiting, Finish, TypeOK
<1>10. ASSUME NEW c \in Calls, TimesOutPaying(c) PROVE [Payer!Next]_(Payer!vars)
  BY TurnOverruns, <1>10 DEF TimesOutPaying, TypeOK
<1>11. ASSUME NEW c \in Calls, OverrunEnds(c) PROVE [Payer!Next]_(Payer!vars)
  BY LatePayerEnds, <1>11 DEF OverrunEnds, Finish, TypeOK
<1>12. CASE UNCHANGED vars
  BY <1>12 DEF vars, PayingAt, Payer!vars
<1> QED
  BY <1>2, <1>3, <1>4, <1>5, <1>6, <1>7, <1>8, <1>9, <1>10, <1>11, <1>12
     DEF Next, Step, Fault

\* Whatever requests there are, a day's reading is paid for as OnePayer says.
THEOREM DayPaysLikeOnePayer == Spec => PaysLikeOnePayer
<1>1. Init => Payer!Init
  BY DEF Init, Payer!Init, PayingAt
<1> QED
  BY <1>1, TypeCorrect, PaysOnce, NextPaysLikeOnePayer, PTL
     DEF Spec, PaysLikeOnePayer, Payer!Spec

-----------------------------------------------------------------------------
(* What a page shows.                                                      *)

\* The words a request carries and the hash it computed come from one read of the
\* day, or from two reads of the same day: a pass that has only its words yet holds
\* the day as it stands, until a save or a deletion cuts it ...
OneRead ==
  \A c \in Calls :
    /\ pc[c] = "hashing" => c \in Rollups /\ (c \notin cut => row[c] = worklog)
    /\ pc[c] \in {"sawDay", "judging", "checking", "waiting", "labelling"} /\ c \notin cut =>
         hash[c] = Digest[row[c]]

\* ... and a reading a request has in hand is as good as the stored one.
SeenMatchesHash ==
  \A c \in Calls : sees[c] # None /\ ~sees[c].cut => Digest[sees[c].of] = sees[c].hash

Faithful == OneRead /\ SeenMatchesHash /\ ReadingMatchesHash /\ ServedIsOfTheDayRead

LEMMA NextFaithful ==
  ASSUME Typed, Faithful, [Next]_vars
  PROVE  Faithful'
<1> USE DEF Faithful, OneRead, SeenMatchesHash, ReadingMatchesHash,
            ServedIsOfTheDayRead, Typed
<1>0. \A c \in Views : c \notin cut
  BY CallAssumption DEF TypeOK
\* A request that ends with an answer made from a reading.
<1>1. ASSUME NEW c \in Calls, NEW r \in Reading, row[c] \in Contents,
             c \in Views /\ ~r.cut => Digest[r.of] = Digest[row[c]],
             Finish(c, AnswerFrom(c, r, row[c])), extraction' \in {extraction, r},
             ~r.cut => Digest[r.of] = r.hash, UNCHANGED <<worklog, cut>>
      PROVE  Faithful'
  <2>1. OneRead' /\ SeenMatchesHash' /\ ReadingMatchesHash'
    BY <1>1 DEF Finish, TypeOK
  <2>2. \A v \in Views : v # c => answer'[v] = answer[v]
    BY <1>1 DEF Finish, TypeOK, Calls, Views
  <2>3. answer'[c] = AnswerFrom(c, r, row[c])
    BY <1>1 DEF Finish, TypeOK
  <2>4. answer'[c].status = "READY" /\ ~answer'[c].cut =>
          answer'[c].for # None /\ Digest[answer'[c].of] = Digest[answer'[c].for]
    <3>1. CASE c \in Views /\ r.status = "READY"
      <4>1. answer'[c].of = r.of /\ answer'[c].for = row[c] /\ answer'[c].cut = r.cut
        BY <2>3, <3>1 DEF AnswerFrom
      <4> QED
        BY <1>1, <3>1, <4>1, DayAssumption
    <3>2. CASE ~(c \in Views /\ r.status = "READY")
      <4>1. \/ answer'[c].status = r.status /\ r.status # "READY"
            \/ answer'[c].status = "DONE"
        BY <2>3, <3>2 DEF AnswerFrom
      <4> QED
        BY <4>1
    <3> QED
      BY <3>1, <3>2
  <2>5. ServedIsOfTheDayRead'
    BY <2>2, <2>4
  <2> QED
    BY <2>1, <2>5
\* A request that ends without one.
<1>2. ASSUME NEW c \in Calls, NEW s \in {"EMPTY", "PENDING", "DONE", "ERROR"},
             Finish(c, Say(s)), extraction' \in {extraction, None}, UNCHANGED <<worklog, cut>>
      PROVE  Faithful'
  <2>1. OneRead' /\ SeenMatchesHash' /\ ReadingMatchesHash'
    BY <1>2 DEF Finish, TypeOK
  <2>2. \A v \in Views : v # c => answer'[v] = answer[v]
    BY <1>2 DEF Finish, TypeOK, Calls, Views
  <2>3. answer'[c].status # "READY"
    BY <1>2 DEF Finish, TypeOK
  <2> QED
    BY <2>1, <2>2, <2>3
\* A request that goes on, with what it knows in step with what it read.
<1>3. ASSUME NEW c \in Calls,
             pc' \in [Calls -> Steps], row' \in [Calls -> Days],
             \A o \in Calls : o # c => /\ pc'[o] = pc[o] /\ row'[o] = row[o]
                                       /\ hash'[o] = hash[o] /\ sees'[o] = sees[o],
             pc'[c] # "hashing",
             pc'[c] \in {"sawDay", "judging", "checking", "waiting", "labelling"} /\ c \notin cut =>
               hash'[c] = Digest[row'[c]],
             sees'[c] \in {sees[c], extraction},
             answer' = answer \/ answer' = [answer EXCEPT ![c] = Say("NONE")],
             UNCHANGED <<worklog, extraction, cut>>
      PROVE  Faithful'
  <2>1. OneRead' /\ SeenMatchesHash' /\ ReadingMatchesHash'
    BY <1>3
  <2>2. ServedIsOfTheDayRead'
    BY <1>3 DEF TypeOK, Calls, Views
  <2> QED
    BY <2>1, <2>2
<1>4. ASSUME NEW c \in Calls, Request(c) PROVE Faithful'
  \* A save or a deletion cuts every pass that is between its two reads.
  <2>1. CASE (\E d \in Contents : SaveDay(c, d)) \/ DeleteDay(c)
    <3>1. /\ pc'[c] \in {"queued", "sweeping"}
          /\ \A o \in Calls : o # c => pc'[o] = pc[o]
          /\ cut' = cut \cup {o \in Rollups : pc[o] = "hashing"}
          /\ UNCHANGED <<extraction, row, hash, sees, answer>>
      BY <2>1 DEF SaveDay, DeleteDay, CutsPasses, TypeOK
    <3> QED
      BY <3>1
  <2>2. CASE OpenPage(c)
    BY <1>3, <2>2, NextTyped DEF OpenPage, TypeOK
  <2>3. CASE RollupReadsPeriod(c)
    <3>1. /\ c \in Rollups /\ pc'[c] = "hashing" /\ row'[c] = worklog /\ cut' = cut \ {c}
          /\ \A o \in Calls : o # c => pc'[o] = pc[o] /\ row'[o] = row[o]
          /\ UNCHANGED <<worklog, extraction, hash, sees>>
      BY <2>3 DEF RollupReadsPeriod, TypeOK
    <3>2. OneRead' /\ SeenMatchesHash' /\ ReadingMatchesHash'
      BY <3>1
    <3>3. ServedIsOfTheDayRead'
      BY <2>3 DEF RollupReadsPeriod, TypeOK, Calls, Views
    <3> QED
      BY <3>2, <3>3
  <2> QED
    BY <1>4, <2>1, <2>2, <2>3 DEF Request
<1>5. ASSUME NEW c \in Calls, SweepExtraction(c) PROVE Faithful'
  BY <1>2, <1>5 DEF SweepExtraction
<1>6. ASSUME NEW c \in Calls,
             \/ RefreshReadsDay(c) \/ RollupHashesDay(c)
             \/ CanonicalReadsDay(c) \/ CanonicalReadsRow(c)
      PROVE  Faithful'
  BY <1>3, <1>6, NextTyped
     DEF RefreshReadsDay, RollupHashesDay, CanonicalReadsDay, CanonicalReadsRow, TypeOK
<1>7. ASSUME NEW c \in Calls, CanonicalJudges(c) PROVE Faithful'
  <2>1. pc[c] = "judging" /\ UNCHANGED <<worklog, extraction, cut>>
    BY <1>7 DEF CanonicalJudges
  <2>2. CASE Finish(c, Say("EMPTY")) \/ Finish(c, Say("PENDING"))
    BY <1>2, <2>1, <2>2
  <2>3. ASSUME row[c] # None, Matches(sees[c], hash[c]),
               Finish(c, AnswerFrom(c, sees[c], row[c]))
        PROVE  Faithful'
    <3>1. sees[c] \in Reading /\ row[c] \in Contents /\ sees[c] # None
      BY <2>3 DEF Matches, TypeOK, Days
    <3>2. /\ c \in Views /\ ~sees[c].cut => Digest[sees[c].of] = Digest[row[c]]
          /\ ~sees[c].cut => Digest[sees[c].of] = sees[c].hash
      BY <1>0, <2>1, <2>3, <3>1 DEF Matches
    <3> QED
      BY <1>1, <2>1, <2>3, <3>1, <3>2
  <2>4. ASSUME Goto(c, "rebuilding"), UNCHANGED <<Locals, answer>> PROVE Faithful'
    BY <1>3, <2>1, <2>4, NextTyped DEF TypeOK
  <2> QED
    BY <1>7, <2>2, <2>3, <2>4 DEF CanonicalJudges
<1>8. ASSUME NEW c \in Calls, ViewRebuilds(c) PROVE Faithful'
  <2>1. CASE worklog = None
    BY <1>2, <1>8, <2>1 DEF ViewRebuilds
  <2>2. CASE worklog # None
    BY <1>3, <1>8, <2>2, NextTyped DEF ViewRebuilds, TypeOK
  <2> QED
    BY <2>1, <2>2
<1>9. ASSUME NEW c \in Calls, ChecksStored(c) \/ TakesLock(c) PROVE Faithful'
  <2>1. /\ pc[c] \in {"checking", "waiting"} /\ UNCHANGED <<worklog, extraction, cut>>
        /\ row[c] \in Contents /\ (c \notin cut => hash[c] = Digest[row[c]])
    BY <1>9 DEF ChecksStored, TakesLock, CarriesDay
  <2>2. CASE Matches(extraction, hash[c])
    <3>1. extraction \in Reading /\ extraction.hash = hash[c] /\ extraction # None
      BY <2>2 DEF Matches, TypeOK
    <3>2. ~extraction.cut => Digest[extraction.of] = extraction.hash
      BY <3>1
    <3>3. Finish(c, AnswerFrom(c, extraction, row[c]))
      BY <1>9, <2>2 DEF ChecksStored, TakesLock
    <3> QED
      BY <1>0, <1>1, <2>1, <3>1, <3>2, <3>3
  <2>3. CASE ~Matches(extraction, hash[c])
    BY <1>3, <1>9, <2>1, <2>3, NextTyped DEF ChecksStored, TakesLock, TypeOK
  <2> QED
    BY <2>2, <2>3
<1>10. ASSUME NEW c \in Calls, EndsGeneration(c) PROVE Faithful'
  <2>1. PICK ok \in Labelled(c) : WritesReading(c, ok) \/ RefusedThrows(c, ok)
    BY <1>10 DEF EndsGeneration
  <2>2. pc[c] = "labelling" /\ row[c] \in Contents /\ (c \notin cut => hash[c] = Digest[row[c]])
    BY <1>10 DEF EndsGeneration, CarriesDay
  <2>3. CASE WritesReading(c, ok)
    <3> DEFINE r == [hash |-> hash[c], status |-> "READY", of |-> row[c],
                     read |-> Reused(c) \cup ok, cut |-> c \in cut]
    <3>1. r \in Reading
      BY <2>2, ReusedAndAsked DEF Reading, TypeOK
    <3>2. Digest[r.of] = Digest[row[c]] /\ (~r.cut => Digest[r.of] = r.hash)
      BY <2>2
    <3>3. extraction' = r /\ Finish(c, AnswerFrom(c, r, row[c])) /\ UNCHANGED <<worklog, cut>>
      BY <2>3 DEF WritesReading
    <3> HIDE DEF r
    <3> QED
      BY <1>1, <2>2, <3>1, <3>2, <3>3
  <2>4. CASE RefusedThrows(c, ok)
    BY <1>2, <2>4 DEF RefusedThrows
  <2> QED
    BY <2>1, <2>3, <2>4
<1>11. ASSUME NEW c \in Calls, Crash(c) \/ TimesOutWaiting(c) \/ OverrunEnds(c) PROVE Faithful'
  BY <1>2, <1>11 DEF Crash, TimesOutWaiting, OverrunEnds
<1>12. ASSUME NEW c \in Calls, TimesOutPaying(c) PROVE Faithful'
  BY <1>3, <1>12, NextTyped DEF TimesOutPaying, TypeOK
<1>13. CASE UNCHANGED vars
  BY <1>13 DEF vars
<1> QED
  BY <1>4, <1>5, <1>6, <1>7, <1>8, <1>9, <1>10, <1>11, <1>12, <1>13 DEF Next, Step, Fault

LEMMA FaithfulInvariant == Spec => []Faithful
<1>1. Init => Faithful
  BY DEF Init, Faithful, OneRead, SeenMatchesHash, ReadingMatchesHash,
         ServedIsOfTheDayRead, Calls, Views
<1> QED
  BY <1>1, NextFaithful, TypeCorrect, PTL DEF Spec

\* Through every interleaving of saves, deletions, views, passes, crashes and
\* timeouts, a stored reading is of the words its hash was taken from, the reading
\* of a pass cut between its two reads apart.
THEOREM ReadingIsOfTheDay == Spec => []ReadingMatchesHash
<1>1. Faithful => ReadingMatchesHash
  BY DEF Faithful
<1> QED
  BY <1>1, FaithfulInvariant, PTL

\* A page shows a reading of words that hash as those it read, in whichever order it
\* and the savers, sweepers, passes and other viewers of the day are served; or the
\* reading of a cut pass.
THEOREM PageShowsTheDayRead == Spec => []ServedIsOfTheDayRead
<1>1. Faithful => ServedIsOfTheDayRead
  BY DEF Faithful
<1> QED
  BY <1>1, FaithfulInvariant, PTL

-----------------------------------------------------------------------------
(***************************************************************************)
(* WorklogDay: the saved day.  What the hash sees of a day is joined text, *)
(* the counts that were stated and a sum, so that an edit reaches it is a  *)
(* fact about joining and adding: two lists that differ in one member      *)
(* neither read the same nor add up to the same.                           *)
(***************************************************************************)
\* A set of numbers has a least one.
LEMMA LeastNumber ==
  ASSUME NEW S, S \subseteq Nat, S # {}
  PROVE  \E m \in S : \A n \in S : m <= n
<1> DEFINE Less == {ss \in Nat \X Nat : ss[1] < ss[2]}
<1>1. IsWellFoundedOn(Less, Nat)
  BY NatLessThanWellFounded DEF OpToRel
<1>2. Less = {ss \in Nat \X Nat : ss[1] < ss[2]}
  OBVIOUS
<1> HIDE DEF Less
<1>3. PICK m \in S : \A n \in S : <<n, m>> \notin Less
  BY <1>1, WFMin
<1>4. \A n \in S : ~(n < m)
  BY <1>2, <1>3
<1> QED BY <1>3, <1>4

\* Induction, for a set of numbers instead of a predicate on them.
LEMMA InductionOnNumbers ==
  ASSUME NEW S, S \subseteq Nat, 0 \in S, \A n \in S : n + 1 \in S
  PROVE  S = Nat
<1> SUFFICES ASSUME Nat \ S # {} PROVE FALSE
  OBVIOUS
<1>1. PICK m \in Nat \ S : \A n \in Nat \ S : m <= n
  BY LeastNumber
<1>2. m # 0 /\ m - 1 \in Nat /\ ~(m <= m - 1)
  BY <1>1
<1>3. m - 1 \in S
  BY <1>1, <1>2
<1>4. (m - 1) + 1 \in S
  BY <1>3
<1> QED BY <1>1, <1>4

\* f joins the first members of s, up to the n-th (FlattenSeq's own recursion).
Joins(f, s, n) ==
  f = [i \in 1..n |-> IF i = 1 THEN s[i] ELSE f[i - 1] \o s[i]]

LEMMA JoinExists ==
  ASSUME NEW s, NEW n \in Nat PROVE \E f : Joins(f, s, n)
<1> DEFINE S == {i \in Nat : \E f : Joins(f, s, i)}
<1>1. 0 \in S
  <2> DEFINE f == [i \in 1..0 |-> s[i]]
  <2>1. Joins(f, s, 0)
    BY DEF Joins
  <2> QED
    BY <2>1
<1>2. ASSUME NEW i \in S PROVE i + 1 \in S
  <2>1. PICK f : Joins(f, s, i)
    OBVIOUS
  <2> DEFINE Part(h, j) == IF j = 1 THEN s[j] ELSE h[j - 1] \o s[j]
             g == [j \in 1..(i + 1) |-> IF j = i + 1 THEN Part(f, j) ELSE f[j]]
  <2>2. \A j \in 1..i : f[j] = Part(f, j)
    BY <2>1 DEF Joins
  <2>3. ASSUME NEW j \in 1..(i + 1) PROVE g[j] = Part(g, j)
    <3>1. g[j] = Part(f, j)
      BY <2>2
    <3>2. j # 1 => j - 1 \in 1..(i + 1) /\ j - 1 # i + 1
      OBVIOUS
    <3>3. j # 1 => g[j - 1] = f[j - 1]
      BY <3>2
    <3> QED
      BY <3>1, <3>3
  <2>4. g = [j \in 1..(i + 1) |-> g[j]]
    OBVIOUS
  <2> HIDE DEF g
  <2>5. Joins(g, s, i + 1)
    BY <2>3, <2>4 DEF Joins
  <2> QED
    BY <2>5
<1> QED
  BY <1>1, <1>2, InductionOnNumbers

\* FlattenSeq(s) is the last of them.
LEMMA FlattenJoins ==
  ASSUME NEW S, NEW s \in Seq(Seq(S))
  PROVE  /\ s = <<>> => FlattenSeq(s) = <<>>
         /\ s # <<>> => \E f : Joins(f, s, Len(s)) /\ FlattenSeq(s) = f[Len(s)]
<1> DEFINE F == CHOOSE f : Joins(f, s, Len(s))
<1>0. Len(s) \in Nat /\ (s = <<>> <=> Len(s) = 0)
  OBVIOUS
<1>1. Joins(F, s, Len(s))
  BY <1>0, JoinExists
<1>2. s # <<>> => FlattenSeq(s) = F[Len(s)]
  BY <1>0 DEF FlattenSeq, Joins
<1>3. s = <<>> => FlattenSeq(s) = <<>>
  BY DEF FlattenSeq
<1> QED
  BY <1>1, <1>2, <1>3

\* What a joined sequence is of.
LEMMA JoinType ==
  ASSUME NEW S, NEW s \in Seq(Seq(S)), NEW f, Joins(f, s, Len(s))
  PROVE  \A n \in 1..Len(s) : f[n] \in Seq(S)
<1> DEFINE N == {n \in Nat : n \in 1..Len(s) => f[n] \in Seq(S)}
<1>0. Len(s) \in Nat /\ \A n \in 1..Len(s) : s[n] \in Seq(S)
  OBVIOUS
<1>1. \A n \in 1..Len(s) : f[n] = IF n = 1 THEN s[n] ELSE f[n - 1] \o s[n]
  BY DEF Joins
<1>2. 0 \in N
  BY <1>0
<1>3. ASSUME NEW n \in N PROVE n + 1 \in N
  <2> SUFFICES ASSUME n + 1 \in 1..Len(s) PROVE f[n + 1] \in Seq(S)
    OBVIOUS
  <2>1. CASE n = 0
    BY <1>0, <1>1, <2>1
  <2>2. CASE n # 0
    <3>1. n \in 1..Len(s) /\ (n + 1) - 1 = n /\ n + 1 # 1
      BY <1>0, <2>2
    <3>2. f[n] \in Seq(S) /\ f[n + 1] = f[n] \o s[n + 1] /\ s[n + 1] \in Seq(S)
      BY <1>0, <1>1, <3>1
    <3> QED
      BY <3>2
  <2> QED
    BY <2>1, <2>2
<1>4. N = Nat
  BY <1>2, <1>3, InductionOnNumbers
<1>5. ASSUME NEW n \in 1..Len(s) PROVE f[n] \in Seq(S)
  <2>1. n \in N
    BY <1>0, <1>4
  <2> QED
    BY <2>1
<1> QED
  BY <1>5

LEMMA FlattenType ==
  ASSUME NEW S, NEW s \in Seq(Seq(S)) PROVE FlattenSeq(s) \in Seq(S)
<1>1. CASE s = <<>>
  <2>1. FlattenSeq(s) = <<>>
    BY <1>1, FlattenJoins, Zenon
  <2> QED
    BY <2>1
<1>2. CASE s # <<>>
  <2>1. PICK f : Joins(f, s, Len(s)) /\ FlattenSeq(s) = f[Len(s)]
    BY <1>2, FlattenJoins
  <2>2. Len(s) \in 1..Len(s)
    BY <1>2
  <2>3. \A n \in 1..Len(s) : f[n] \in Seq(S)
    BY <2>1, JoinType
  <2> QED
    BY <2>1, <2>2, <2>3
<1> QED
  BY <1>1, <1>2

\* Joining loses nothing of either side, given the other.
LEMMA JoinCancels ==
  ASSUME NEW S, NEW a \in Seq(S), NEW b \in Seq(S), NEW x \in Seq(S)
  PROVE  /\ a \o x = b \o x => a = b
         /\ x \o a = x \o b => a = b
<1>1. ASSUME a \o x = b \o x PROVE a = b
  <2>1. Len(a) = Len(b)
    BY <1>1
  <2>2. \A k \in 1..Len(a) : (a \o x)[k] = a[k] /\ (b \o x)[k] = b[k]
    BY <2>1
  <2> QED
    BY <1>1, <2>1, <2>2
<1>2. ASSUME x \o a = x \o b PROVE a = b
  <2>1. Len(a) = Len(b)
    BY <1>2
  <2>2. \A k \in 1..Len(a) : (x \o a)[Len(x) + k] = a[k] /\ (x \o b)[Len(x) + k] = b[k]
    BY <2>1
  <2> QED
    BY <1>2, <2>1, <2>2
<1> QED
  BY <1>1, <1>2

\* Two lists of lines that differ in one line do not read the same.
OnlyAt(s, t, i) ==
  /\ Len(s) = Len(t) /\ i \in 1..Len(s) /\ s[i] # t[i]
  /\ \A j \in 1..Len(s) : j # i => s[j] = t[j]

LEMMA FlattenTells ==
  ASSUME NEW S, NEW s \in Seq(Seq(S)), NEW t \in Seq(Seq(S)), NEW i, OnlyAt(s, t, i)
  PROVE  FlattenSeq(s) # FlattenSeq(t)
<1>0. /\ Len(s) \in Nat /\ Len(t) = Len(s) /\ i \in 1..Len(s) /\ s # <<>> /\ t # <<>>
      /\ \A n \in 1..Len(s) : s[n] \in Seq(S) /\ t[n] \in Seq(S)
  BY DEF OnlyAt
<1>1. PICK f : Joins(f, s, Len(s)) /\ FlattenSeq(s) = f[Len(s)]
  BY <1>0, FlattenJoins
<1>2. PICK g : Joins(g, t, Len(t)) /\ FlattenSeq(t) = g[Len(t)]
  BY <1>0, FlattenJoins
<1>3. \A n \in 1..Len(s) : f[n] = IF n = 1 THEN s[n] ELSE f[n - 1] \o s[n]
  BY <1>1 DEF Joins
<1>4. \A n \in 1..Len(s) : g[n] = IF n = 1 THEN t[n] ELSE g[n - 1] \o t[n]
  BY <1>0, <1>2 DEF Joins
<1>5. \A n \in 1..Len(s) : f[n] \in Seq(S) /\ g[n] \in Seq(S)
  BY <1>0, <1>1, <1>2, JoinType
<1> DEFINE N == {n \in Nat : n \in 1..Len(s) => (f[n] = g[n] <=> n < i)}
<1>6. 0 \in N
  BY <1>0
<1>7. ASSUME NEW n \in N PROVE n + 1 \in N
  <2> SUFFICES ASSUME n + 1 \in 1..Len(s) PROVE f[n + 1] = g[n + 1] <=> n + 1 < i
    OBVIOUS
  <2>0. n + 1 = i \/ s[n + 1] = t[n + 1]
    BY DEF OnlyAt
  <2>00. s[i] # t[i]
    BY DEF OnlyAt
  <2>1. CASE n = 0
    <3>1. f[n + 1] = s[n + 1] /\ g[n + 1] = t[n + 1]
      BY <1>3, <1>4, <2>1
    <3> QED
      BY <1>0, <2>0, <2>00, <2>1, <3>1
  <2>2. CASE n # 0
    <3>1. n \in 1..Len(s) /\ (n + 1) - 1 = n /\ n + 1 # 1
      BY <1>0, <2>2
    <3> DEFINE x == s[n + 1]
               y == t[n + 1]
    <3>2. f[n + 1] = f[n] \o x /\ g[n + 1] = g[n] \o y
      BY <1>3, <1>4, <3>1
    <3>3. f[n] \in Seq(S) /\ g[n] \in Seq(S) /\ x \in Seq(S) /\ y \in Seq(S)
      BY <1>0, <1>5, <3>1
    <3>4. f[n] = g[n] <=> n < i
      BY <3>1
    <3>5. (n + 1 = i => x # y) /\ (n + 1 # i => x = y)
      BY <2>0, <2>00
    <3> HIDE DEF x, y
    <3>6. /\ f[n] \o x = f[n] \o y => x = y
          /\ f[n] \o x = g[n] \o x => f[n] = g[n]
      BY <3>3, JoinCancels, Zenon
    <3>7. CASE n + 1 = i
      <4>1. f[n] = g[n] /\ x # y
        BY <1>0, <3>4, <3>5, <3>7
      <4>2. f[n + 1] # g[n + 1]
        BY <3>2, <3>6, <4>1
      <4> QED
        BY <3>7, <4>2
    <3>8. CASE n + 1 # i
      <4>1. x = y /\ (n + 1 < i <=> n < i)
        BY <1>0, <3>5, <3>8
      <4>2. f[n + 1] = g[n + 1] => f[n] = g[n]
        BY <3>2, <3>6, <4>1
      <4>3. f[n] = g[n] => f[n + 1] = g[n + 1]
        BY <3>2, <4>1
      <4> QED
        BY <3>4, <4>1, <4>2, <4>3
    <3> QED
      BY <3>7, <3>8
  <2> QED
    BY <2>1, <2>2
<1>8. N = Nat
  BY <1>6, <1>7, InductionOnNumbers
<1>9. Len(s) \in N /\ Len(s) \in 1..Len(s) /\ ~(Len(s) < i)
  BY <1>0, <1>8
<1> QED
  BY <1>0, <1>1, <1>2, <1>9

-----------------------------------------------------------------------------
\* f holds the sums of the first members of s, up to the n-th.
Adds(f, s, n) ==
  f = [i \in 0..n |-> IF i = 0 THEN 0 ELSE f[i - 1] + s[i]]

LEMMA SumsExist ==
  ASSUME NEW s, NEW n \in Nat PROVE \E f : Adds(f, s, n)
<1> DEFINE S == {i \in Nat : \E f : Adds(f, s, i)}
<1>1. 0 \in S
  <2> DEFINE f == [i \in 0..0 |-> 0]
  <2>1. Adds(f, s, 0)
    BY DEF Adds
  <2> QED
    BY <2>1
<1>2. ASSUME NEW i \in S PROVE i + 1 \in S
  <2>1. PICK f : Adds(f, s, i)
    OBVIOUS
  <2> DEFINE Upto(h, j) == IF j = 0 THEN 0 ELSE h[j - 1] + s[j]
             g == [j \in 0..(i + 1) |-> IF j = i + 1 THEN Upto(f, j) ELSE f[j]]
  <2>2. \A j \in 0..i : f[j] = Upto(f, j)
    BY <2>1 DEF Adds
  <2>3. ASSUME NEW j \in 0..(i + 1) PROVE g[j] = Upto(g, j)
    <3>1. g[j] = Upto(f, j)
      BY <2>2
    <3>2. j # 0 => j - 1 \in 0..(i + 1) /\ j - 1 # i + 1
      OBVIOUS
    <3>3. j # 0 => g[j - 1] = f[j - 1]
      BY <3>2
    <3> QED
      BY <3>1, <3>3
  <2>4. g = [j \in 0..(i + 1) |-> g[j]]
    OBVIOUS
  <2> HIDE DEF g
  <2>5. Adds(g, s, i + 1)
    BY <2>3, <2>4 DEF Adds
  <2> QED
    BY <2>5
<1> QED
  BY <1>1, <1>2, InductionOnNumbers

\* SumOf(s) is the last of them; they are whole numbers when the members are.
LEMMA SumAdds ==
  ASSUME NEW s \in Seq(Int)
  PROVE  \E f : /\ Adds(f, s, Len(s))
                /\ SumOf(s) = f[Len(s)]
                /\ \A n \in 0..Len(s) : f[n] \in Int
<1> DEFINE F == CHOOSE f : Adds(f, s, Len(s))
           N == {n \in Nat : n \in 0..Len(s) => F[n] \in Int}
<1>0. Len(s) \in Nat /\ \A n \in 1..Len(s) : s[n] \in Int
  OBVIOUS
<1>1. Adds(F, s, Len(s))
  BY <1>0, SumsExist
<1>2. SumOf(s) = F[Len(s)]
  BY DEF SumOf, Adds
<1> HIDE DEF F
<1>3. \A n \in 0..Len(s) : F[n] = IF n = 0 THEN 0 ELSE F[n - 1] + s[n]
  BY <1>1 DEF Adds
<1>4. 0 \in N
  BY <1>0, <1>3
<1>5. ASSUME NEW n \in N PROVE n + 1 \in N
  <2> SUFFICES ASSUME n + 1 \in 0..Len(s) PROVE F[n + 1] \in Int
    OBVIOUS
  <2>1. n \in 0..Len(s) /\ (n + 1) - 1 = n /\ n + 1 # 0 /\ n + 1 \in 1..Len(s)
    BY <1>0
  <2>2. F[n] \in Int /\ s[n + 1] \in Int /\ F[n + 1] = F[n] + s[n + 1]
    BY <1>0, <1>3, <2>1
  <2> QED
    BY <2>2
<1>6. N = Nat
  BY <1>4, <1>5, InductionOnNumbers
<1>7. ASSUME NEW n \in 0..Len(s) PROVE F[n] \in Int
  <2>1. n \in N
    BY <1>0, <1>6
  <2> QED
    BY <2>1
<1> QED
  BY <1>1, <1>2, <1>7

\* A sum of one.
LEMMA SumOfOne ==
  ASSUME NEW m \in Int PROVE SumOf(<<m>>) = m
<1>1. <<m>> \in Seq(Int) /\ Len(<<m>>) = 1 /\ <<m>>[1] = m
  OBVIOUS
<1>2. PICK f : Adds(f, <<m>>, 1) /\ SumOf(<<m>>) = f[1]
  BY <1>1, SumAdds
<1>3. f[0] = 0 /\ f[1] = f[0] + m
  BY <1>1, <1>2 DEF Adds
<1> QED
  BY <1>2, <1>3

LEMMA SumType ==
  ASSUME NEW s \in Seq(Int) PROVE SumOf(s) \in Int
<1>1. Len(s) \in 0..Len(s)
  OBVIOUS
<1> QED
  BY <1>1, SumAdds

\* Two lists of numbers that differ in one do not add up to the same.
LEMMA SumTells ==
  ASSUME NEW s \in Seq(Int), NEW t \in Seq(Int), NEW i, OnlyAt(s, t, i)
  PROVE  SumOf(s) # SumOf(t)
<1>0. /\ Len(s) \in Nat /\ Len(t) = Len(s) /\ i \in 1..Len(s) /\ s[i] # t[i]
      /\ \A n \in 1..Len(s) : s[n] \in Int /\ t[n] \in Int
      /\ \A n \in 1..Len(s) : n # i => s[n] = t[n]
  BY DEF OnlyAt
<1>1. PICK f : /\ Adds(f, s, Len(s)) /\ SumOf(s) = f[Len(s)]
               /\ \A n \in 0..Len(s) : f[n] \in Int
  BY SumAdds
<1>2. PICK g : /\ Adds(g, t, Len(t)) /\ SumOf(t) = g[Len(t)]
               /\ \A n \in 0..Len(t) : g[n] \in Int
  BY SumAdds
<1>3. \A n \in 0..Len(s) : f[n] = IF n = 0 THEN 0 ELSE f[n - 1] + s[n]
  BY <1>1 DEF Adds
<1>4. \A n \in 0..Len(s) : g[n] = IF n = 0 THEN 0 ELSE g[n - 1] + t[n]
  BY <1>0, <1>2 DEF Adds
<1> DEFINE N == {n \in Nat : n \in 0..Len(s) => (f[n] = g[n] <=> n < i)}
<1>5. 0 \in N
  BY <1>0, <1>3, <1>4
<1>6. ASSUME NEW n \in N PROVE n + 1 \in N
  <2> SUFFICES ASSUME n + 1 \in 0..Len(s) PROVE f[n + 1] = g[n + 1] <=> n + 1 < i
    OBVIOUS
  <2>1. n \in 0..Len(s) /\ (n + 1) - 1 = n /\ n + 1 # 0 /\ n + 1 \in 1..Len(s)
    BY <1>0
  <2>2. f[n + 1] = f[n] + s[n + 1] /\ g[n + 1] = g[n] + t[n + 1]
    BY <1>3, <1>4, <2>1
  <2>3. /\ f[n] \in Int /\ g[n] \in Int
        /\ s[n + 1] \in Int /\ t[n + 1] \in Int
    BY <1>0, <1>1, <1>2, <2>1
  <2>4. f[n] = g[n] <=> n < i
    BY <2>1
  <2>5. n + 1 = i => s[n + 1] # t[n + 1]
    BY <1>0
  <2>6. n + 1 # i => s[n + 1] = t[n + 1]
    BY <1>0, <2>1
  <2>7. CASE n + 1 = i
    BY <1>0, <2>2, <2>3, <2>4, <2>5, <2>7
  <2>8. CASE n + 1 # i
    <3>1. n + 1 < i <=> n < i
      BY <1>0, <2>8
    <3>2. f[n + 1] = g[n + 1] <=> f[n] = g[n]
      BY <2>2, <2>3, <2>6, <2>8
    <3> QED
      BY <2>4, <3>1, <3>2
  <2> QED
    BY <2>7, <2>8
<1>7. N = Nat
  BY <1>5, <1>6, InductionOnNumbers
<1>8. Len(s) \in N /\ Len(s) \in 0..Len(s) /\ ~(Len(s) < i)
  BY <1>0, <1>7
<1> QED
  BY <1>0, <1>1, <1>2, <1>8

\* Sums of parts that make up the members of a third list make up its sum.
LEMMA SumSplits ==
  ASSUME NEW s \in Seq(Int), NEW t \in Seq(Int), NEW u \in Seq(Int),
         Len(s) = Len(u), Len(t) = Len(u), \A i \in 1..Len(u) : s[i] + t[i] = u[i]
  PROVE  SumOf(s) + SumOf(t) = SumOf(u)
<1>0. /\ Len(u) \in Nat
      /\ \A n \in 1..Len(u) : s[n] \in Int /\ t[n] \in Int /\ u[n] \in Int
  OBVIOUS
<1>1. PICK f : /\ Adds(f, s, Len(u)) /\ SumOf(s) = f[Len(u)]
               /\ \A n \in 0..Len(u) : f[n] \in Int
  BY SumAdds
<1>2. PICK g : /\ Adds(g, t, Len(u)) /\ SumOf(t) = g[Len(u)]
               /\ \A n \in 0..Len(u) : g[n] \in Int
  BY SumAdds
<1>3. PICK h : /\ Adds(h, u, Len(u)) /\ SumOf(u) = h[Len(u)]
               /\ \A n \in 0..Len(u) : h[n] \in Int
  BY SumAdds
<1>4a. \A n \in 0..Len(u) : f[n] = IF n = 0 THEN 0 ELSE f[n - 1] + s[n]
  BY <1>1 DEF Adds
<1>4b. \A n \in 0..Len(u) : g[n] = IF n = 0 THEN 0 ELSE g[n - 1] + t[n]
  BY <1>2 DEF Adds
<1>4c. \A n \in 0..Len(u) : h[n] = IF n = 0 THEN 0 ELSE h[n - 1] + u[n]
  BY <1>3 DEF Adds
<1> DEFINE N == {n \in Nat : n \in 0..Len(u) => f[n] + g[n] = h[n]}
<1>5. 0 \in N
  BY <1>0, <1>4a, <1>4b, <1>4c
<1>6. ASSUME NEW n \in N PROVE n + 1 \in N
  <2> SUFFICES ASSUME n + 1 \in 0..Len(u) PROVE f[n + 1] + g[n + 1] = h[n + 1]
    OBVIOUS
  <2>1. n \in 0..Len(u) /\ (n + 1) - 1 = n /\ n + 1 # 0 /\ n + 1 \in 1..Len(u)
    BY <1>0
  <2>2. f[n + 1] = f[n] + s[n + 1]
    BY <1>4a, <2>1
  <2>3. g[n + 1] = g[n] + t[n + 1]
    BY <1>4b, <2>1
  <2>4. h[n + 1] = h[n] + u[n + 1]
    BY <1>4c, <2>1
  <2>5. f[n] \in Int /\ g[n] \in Int /\ h[n] \in Int /\ f[n] + g[n] = h[n]
    BY <1>1, <1>2, <1>3, <2>1
  <2> DEFINE x == s[n + 1]
             y == t[n + 1]
             z == u[n + 1]
  <2>6. x \in Int /\ y \in Int /\ z \in Int /\ x + y = z
    BY <1>0, <2>1
  <2>7. f[n + 1] = f[n] + x /\ g[n + 1] = g[n] + y /\ h[n + 1] = h[n] + z
    BY <2>2, <2>3, <2>4
  <2> DEFINE a == f[n]
             b == g[n]
             c == h[n]
  <2>8. a \in Int /\ b \in Int /\ c \in Int /\ a + b = c
    BY <2>5
  <2>9. f[n + 1] = a + x /\ g[n + 1] = b + y /\ h[n + 1] = c + z
    BY <2>7
  <2> HIDE DEF x, y, z, a, b, c
  <2>10. (a + x) + (b + y) = c + z
    BY <2>6, <2>8
  <2> QED
    BY <2>9, <2>10
<1>7. N = Nat
  BY <1>5, <1>6, InductionOnNumbers
<1>8. Len(u) \in N /\ Len(u) \in 0..Len(u)
  BY <1>0, <1>7
<1> QED
  BY <1>1, <1>2, <1>3, <1>8

-----------------------------------------------------------------------------
(* One day, saved over and over.                                           *)

StoredRow == [description : Seq(STRING), quantity : Int \cup {NoCount}, minutes : Int]

LEMMA RowsStored ==
  ASSUME NEW s \in Submissions PROVE RowsOf(s) \in Seq(StoredRow)
<1> DEFINE parts == [i \in DOMAIN s |-> Kept(s[i], IsFilled(s[i]))]
           filled == FlattenSeq(parts)
<1>1. PICK n \in 1..MaxRows : s \in [1..n -> SubmittedRows]
  BY DEF Submissions
<1>2. n \in Nat
  BY RowAssumption
<1>3. s \in Seq(SubmittedRows) /\ DOMAIN s = 1..n /\ \A i \in 1..n : s[i] \in SubmittedRows
  BY <1>1, <1>2
<1>4. \A i \in 1..n : Kept(s[i], IsFilled(s[i])) \in Seq(SubmittedRows)
  BY <1>3 DEF Kept
<1>5. parts \in Seq(Seq(SubmittedRows))
  BY <1>2, <1>3, <1>4
<1> HIDE DEF parts
<1>6. filled \in Seq(SubmittedRows)
  BY <1>5, FlattenType
<1>7. RowsOf(s) = [i \in DOMAIN filled |-> NormaliseRow(filled[i])]
  BY DEF RowsOf, parts
<1> HIDE DEF filled
<1>8. ASSUME NEW r \in SubmittedRows PROVE NormaliseRow(r) \in StoredRow
  <2>1. /\ r.description \in Seq(STRING)
        /\ r.quantity \in Int \cup {NoCount}
        /\ r.hr \in Int /\ r.min \in Int
    BY RowAssumption DEF SubmittedRows
  <2>2. \A k \in Int : AtLeastZero(k) \in Int
    BY DEF AtLeastZero
  <2>3. AtLeastZero(r.hr) * 60 + AtLeastZero(r.min) \in Int
    <3> DEFINE hours == AtLeastZero(r.hr)
               minutes == AtLeastZero(r.min)
    <3>1. hours \in Int /\ minutes \in Int
      BY <2>1, <2>2
    <3> HIDE DEF hours, minutes
    <3>2. hours * 60 + minutes \in Int
      BY <3>1
    <3> QED
      BY <3>2 DEF hours, minutes
  <2>4. (IF r.quantity = NoCount THEN NoCount ELSE AtLeastZero(r.quantity)) \in Int \cup {NoCount}
    BY <2>1, <2>2
  <2> QED
    BY <2>1, <2>3, <2>4 DEF NormaliseRow, StoredRow
<1>9. DOMAIN filled = 1..Len(filled) /\ Len(filled) \in Nat
      /\ \A i \in 1..Len(filled) : filled[i] \in SubmittedRows
  BY <1>6
<1>10. \A i \in 1..Len(filled) : NormaliseRow(filled[i]) \in StoredRow
  BY <1>8, <1>9
<1> QED
  BY <1>7, <1>9, <1>10

\* What a stored day is made of: a day with rows has no column of its own.
DayAddsUp(d) ==
  /\ d.minutes \in Int
  /\ d.activities \in Seq(StoredRow)
  /\ d.activities # NoRows =>
       /\ d.deliverable = DeliverableFrom(d.activities)
       /\ d.quantity = QuantityFrom(d.activities)
       /\ d.minutes = TotalMinutes(d.activities)

StoredDay == Saved => DayAddsUp(day)

LEMMA MinutesListed ==
  ASSUME NEW rows \in Seq(StoredRow)
  PROVE  [i \in DOMAIN rows |-> rows[i].minutes] \in Seq(Int)
<1>1. /\ DOMAIN rows = 1..Len(rows) /\ Len(rows) \in Nat
      /\ \A i \in 1..Len(rows) : rows[i] \in StoredRow
  OBVIOUS
<1>2. \A i \in 1..Len(rows) : rows[i].minutes \in Int
  BY <1>1 DEF StoredRow
<1> QED
  BY <1>1, <1>2

LEMMA FromRowsAddsUp ==
  ASSUME NEW s \in Submissions, FromRows(s, 0) # Refused
  PROVE  DayAddsUp(FromRows(s, 0))
<1> DEFINE rows == RowsOf(s)
<1>1. rows \in Seq(StoredRow)
  BY RowsStored
<1>2. FromRows(s, 0) = [deliverable |-> DeliverableFrom(rows), quantity |-> QuantityFrom(rows),
                        minutes |-> TotalMinutes(rows), remarks |-> 0, activities |-> rows]
  BY DEF FromRows
<1> HIDE DEF rows
<1>3. TotalMinutes(rows) \in Int
  BY <1>1, MinutesListed, SumType DEF TotalMinutes
<1> QED
  BY <1>1, <1>2, <1>3 DEF DayAddsUp

LEMMA RowDaysAddUp ==
  ASSUME NEW d \in RowDays PROVE DayAddsUp(d)
<1>1. PICK s \in Submissions : d = FromRows(s, 0) /\ FromRows(s, 0) # Refused
  BY DEF RowDays
<1> QED
  BY <1>1, FromRowsAddsUp

LEMMA TextDaysAddUp ==
  ASSUME NEW e \in TextDays PROVE DayAddsUp(e)
<1>1. PICK d \in RowDays : e = FromText(d.deliverable, d.quantity, d.minutes, 0) /\ e # Refused
  BY DEF TextDays
<1>2. e = [deliverable |-> d.deliverable, quantity |-> d.quantity, minutes |-> d.minutes,
           remarks |-> 0, activities |-> <<>>]
  BY <1>1 DEF FromText, NoRows
<1>3. d.minutes \in Int /\ <<>> \in Seq(StoredRow)
  BY RowDaysAddUp DEF DayAddsUp
<1>4. e.minutes \in Int /\ e.activities \in Seq(StoredRow) /\ e.activities = NoRows
  BY <1>2, <1>3 DEF NoRows
<1> QED
  BY <1>4 DEF DayAddsUp

LEMMA SaveAddsUp == Save => DayAddsUp(day')
  BY RowDaysAddUp, TextDaysAddUp DEF Save, SaveRows, SaveText

LEMMA DaysAreStored == Saving => []StoredDay
<1>1. NothingSaved => StoredDay
  BY DEF NothingSaved, StoredDay, Saved
<1>2. StoredDay /\ [Save]_savedVars => StoredDay'
  BY SaveAddsUp DEF StoredDay, Saved, DayAddsUp, savedVars
<1> QED
  BY <1>1, <1>2, PTL DEF Saving

\* The hours and minutes an item is sent with give back its minutes.
LEMMA DurationIsExact ==
  ASSUME NEW m \in Int PROVE Duration(m).hours * 60 + Duration(m).minutes = m
<1>1. (m \div 60) * 60 + (m % 60) = m
  OBVIOUS
<1> QED
  BY <1>1 DEF Duration

\* The activities of a day are its lines, each with the minutes recorded against it.
LEMMA LinesOfADay ==
  ASSUME NEW d, DayAddsUp(d)
  PROVE  /\ Recorded(d) \in Seq(Int)
         /\ DOMAIN ToSummaryDay(d) = DOMAIN Recorded(d)
         /\ \A i \in DOMAIN Recorded(d) : MinutesOf(ToSummaryDay(d)[i]) = Recorded(d)[i]
         /\ SumOf(Recorded(d)) = d.minutes
<1> DEFINE rows == d.activities
           lines == ToSummaryDay(d)
<1>1. CASE rows # NoRows
  <2>1. DOMAIN lines = DOMAIN rows
        /\ \A i \in DOMAIN rows : lines[i].time = Duration(rows[i].minutes)
    BY <1>1 DEF ToSummaryDay
  <2>2. rows \in Seq(StoredRow) /\ d.minutes = TotalMinutes(rows)
    BY <1>1 DEF DayAddsUp
  <2>3. Recorded(d) = [i \in DOMAIN rows |-> rows[i].minutes]
    BY <1>1 DEF Recorded
  <2> HIDE DEF rows, lines
  <2>4. \A i \in DOMAIN rows : rows[i] \in StoredRow
    BY <2>2
  <2>5. \A i \in DOMAIN rows : rows[i].minutes \in Int
    BY <2>4 DEF StoredRow
  <2>6. \A i \in DOMAIN rows : MinutesOf(lines[i]) = rows[i].minutes
    BY <2>1, <2>5, DurationIsExact DEF MinutesOf
  <2>7. Recorded(d) \in Seq(Int) /\ SumOf(Recorded(d)) = d.minutes
    BY <2>2, <2>3, MinutesListed DEF TotalMinutes
  <2> QED
    BY <2>1, <2>3, <2>6, <2>7 DEF lines
<1>2. CASE rows = NoRows
  <2>1. lines = <<[text |-> [words |-> NormaliseText(d.deliverable), count |-> d.quantity],
                   time |-> Duration(d.minutes)]>>
    BY <1>2 DEF ToSummaryDay
  <2>2. DOMAIN lines = 1..1 /\ lines[1].time = Duration(d.minutes)
    BY <2>1
  <2>3. Recorded(d) = <<d.minutes>> /\ d.minutes \in Int
    BY <1>2 DEF Recorded, DayAddsUp
  <2> HIDE DEF lines
  <2>4. MinutesOf(lines[1]) = d.minutes
    BY <2>2, <2>3, DurationIsExact DEF MinutesOf
  <2>5. /\ Recorded(d) \in Seq(Int) /\ DOMAIN Recorded(d) = 1..1 /\ Recorded(d)[1] = d.minutes
        /\ SumOf(Recorded(d)) = d.minutes
    BY <2>3, SumOfOne
  <2> QED
    BY <2>2, <2>4, <2>5 DEF lines
<1> QED
  BY <1>1, <1>2

\* Each line of a stored reading has as many items as the model's answer about its
\* words had, and its row's minutes exactly when that is one.
LineIsAnswered(i) ==
  LET line == reading.lines[i] IN
  /\ line.text \in DOMAIN answered
  /\ answered[line.text] \in Nat
  /\ line.items = answered[line.text]
  /\ line.share = IF line.items = 1 THEN Recorded(reading.of)[i] ELSE 0

StoredReading ==
  /\ DOMAIN reading.lines \subseteq Nat
  /\ \A i \in DOMAIN reading.lines : LineIsAnswered(i)
  /\ HasReading => /\ DayAddsUp(reading.of)
                   /\ DOMAIN reading.lines = DOMAIN Recorded(reading.of)

\* What one occurrence of settled words is read as, the model said of them.
LEMMA SettledAsAnswered ==
  ASSUME StoredReading, NEW t, IsSettled(reading.lines, t)
  PROVE  /\ t \in DOMAIN answered /\ answered[t] \in Nat
         /\ ItemsOfOneOccurrence(reading.lines, t) = answered[t]
<1> DEFINE L == reading.lines
           S == {i \in DOMAIN L : L[i].text = t /\ L[i].items > 0}
           First(i) == /\ L[i].text = t /\ L[i].items > 0
                       /\ \A j \in DOMAIN L : L[j].text = t /\ L[j].items > 0 => i <= j
<1>1. S \subseteq Nat /\ S # {}
  BY DEF StoredReading, IsSettled
<1>2. PICK k \in S : \A j \in S : k <= j
  BY <1>1, LeastNumber
<1>3. \E i \in DOMAIN L : First(i)
  BY <1>2
<1> DEFINE first == CHOOSE i \in DOMAIN L : First(i)
<1>4. first \in DOMAIN L /\ First(first)
  BY <1>3
<1>5. ItemsOfOneOccurrence(L, t) = L[first].items
  BY DEF ItemsOfOneOccurrence
<1> HIDE DEF first
<1> QED
  BY <1>4, <1>5 DEF StoredReading, LineIsAnswered

LEMMA ReadsAgainStores ==
  ASSUME StoredReading, DayAddsUp(day'), NEW answers,
         answers \in [Unsettled(reading.lines, day') -> 0..MaxItems], ReadsAgain(answers)
  PROVE  StoredReading'
<1> DEFINE L == reading.lines
           acts == ToSummaryDay(day')
           lines == ReadLines(L, day', answers)
<1>1. /\ reading'.of = day' /\ reading'.lines = lines
      /\ answered' = [t \in {lines[i].text : i \in DOMAIN lines} |->
                        IF t \in DOMAIN answers THEN answers[t] ELSE answered[t]]
  BY DEF ReadsAgain
<1>2. /\ Recorded(day') \in Seq(Int) /\ DOMAIN acts = DOMAIN Recorded(day')
      /\ \A i \in DOMAIN acts : MinutesOf(acts[i]) = Recorded(day')[i]
  BY LinesOfADay
<1>3. DOMAIN lines = DOMAIN acts /\ DOMAIN acts \subseteq Nat
  BY <1>2 DEF ReadLines
<1>4. ASSUME NEW i \in DOMAIN acts
      PROVE  LineIsAnswered(i)'
  <2> DEFINE t == acts[i].text
             n == IF IsSettled(L, t) THEN ItemsOfOneOccurrence(L, t) ELSE answers[t]
  <2>1. lines[i] = [text |-> t, items |-> n,
                    share |-> IF n = 1 THEN Recorded(day')[i] ELSE 0]
    BY <1>2 DEF ReadLines, ReadLine
  <2>2. t \in DOMAIN answers <=> ~IsSettled(L, t)
    BY DEF Unsettled, IsSettled
  <2>3. CASE IsSettled(L, t)
    <3>1. n = answered[t] /\ n \in Nat
      BY <2>3, SettledAsAnswered
    <3>2. t \in DOMAIN answered' /\ answered'[t] = answered[t]
      BY <1>1, <1>3, <2>1, <2>2, <2>3
    <3> HIDE DEF n, t, lines
    <3> QED
      BY <1>1, <2>1, <3>1, <3>2 DEF LineIsAnswered
  <2>4. CASE ~IsSettled(L, t)
    <3>1. n = answers[t] /\ n \in Nat
      BY <2>2, <2>4, RowAssumption
    <3>2. t \in DOMAIN answered' /\ answered'[t] = answers[t]
      BY <1>1, <1>3, <2>1, <2>2, <2>4
    <3> HIDE DEF n, t, lines
    <3> QED
      BY <1>1, <2>1, <3>1, <3>2 DEF LineIsAnswered
  <2> QED
    BY <2>3, <2>4
<1> HIDE DEF lines, acts
<1> QED
  BY <1>1, <1>2, <1>3, <1>4 DEF StoredReading

LEMMA ReadingsAreStored == Saving => []StoredReading
<1>1. NothingSaved => StoredReading
  BY DEF NothingSaved, StoredReading, HasReading
<1>2. StoredReading /\ [Save]_savedVars => StoredReading'
  <2> SUFFICES ASSUME StoredReading, [Save]_savedVars PROVE StoredReading'
    OBVIOUS
  <2>1. ASSUME UNCHANGED <<reading, answered>> PROVE StoredReading'
    BY <2>1 DEF StoredReading, LineIsAnswered, HasReading
  <2>2. CASE Save
    <3>1. \/ KeepsReading
          \/ \E answers \in [Unsettled(reading.lines, day') -> 0..MaxItems] : ReadsAgain(answers)
      BY <2>2 DEF Save, SaveRows, SaveText
    <3>2. CASE KeepsReading
      BY <2>1, <3>2 DEF KeepsReading
    <3>3. ASSUME NEW answers, answers \in [Unsettled(reading.lines, day') -> 0..MaxItems],
                 ReadsAgain(answers)
          PROVE  StoredReading'
      BY <2>2, <3>3, SaveAddsUp, ReadsAgainStores
    <3> QED
      BY <3>1, <3>2, <3>3
  <2>3. CASE UNCHANGED savedVars
    BY <2>1, <2>3 DEF savedVars
  <2> QED
    BY <2>2, <2>3
<1> QED
  BY <1>1, <1>2, PTL DEF Saving

\* However often, in whatever rows and in either shape a day is saved, and whatever
\* the model found in its lines: a line read as one activity carries its row's
\* minutes, and the items miss of the day's total what the others were recorded with.
THEOREM ItemsCarryTheirRows == Saving => []NoMinuteIsLost
<1>1. StoredReading => NoMinuteIsLost
  <2> SUFFICES ASSUME StoredReading, HasReading
               PROVE  /\ \A i \in DOMAIN reading.lines :
                           answered[reading.lines[i].text] = 1 => Carried[i] = Recorded(reading.of)[i]
                      /\ SumOf(Carried) + SumOf(LeftOut) = reading.of.minutes
    BY DEF NoMinuteIsLost
  <2> DEFINE L == reading.lines
             R == Recorded(reading.of)
  <2>1. /\ R \in Seq(Int) /\ DOMAIN L = DOMAIN R /\ SumOf(R) = reading.of.minutes
    BY LinesOfADay DEF StoredReading
  <2>2. /\ DOMAIN R = 1..Len(R) /\ Len(R) \in Nat /\ \A i \in 1..Len(R) : R[i] \in Int
    BY <2>1
  <2>3. ASSUME NEW i \in 1..Len(R)
        PROVE  /\ Carried[i] \in Int /\ LeftOut[i] \in Int
               /\ Carried[i] + LeftOut[i] = R[i]
               /\ answered[L[i].text] = 1 => Carried[i] = R[i]
    <3>1. i \in DOMAIN L /\ LineIsAnswered(i)
      BY <2>1, <2>2 DEF StoredReading
    <3> DEFINE n == L[i].items
    <3>2. /\ n \in Nat /\ n = answered[L[i].text]
          /\ L[i].share = IF n = 1 THEN R[i] ELSE 0
      BY <3>1 DEF LineIsAnswered
    <3>3. /\ Carried[i] = n * L[i].share
          /\ LeftOut[i] = IF n = 1 THEN 0 ELSE R[i]
      BY <3>1, <3>2 DEF Carried, LeftOut
    <3>4. R[i] \in Int
      BY <2>2
    <3> HIDE DEF n
    <3>5. CASE n = 1
      BY <3>2, <3>3, <3>4, <3>5
    <3>6. CASE n # 1
      BY <3>2, <3>3, <3>4, <3>6
    <3> QED
      BY <3>5, <3>6
  <2>4. Carried \in Seq(Int) /\ LeftOut \in Seq(Int) /\ Len(Carried) = Len(R) /\ Len(LeftOut) = Len(R)
    <3>1. /\ DOMAIN Carried = 1..Len(R) /\ DOMAIN LeftOut = 1..Len(R)
          /\ Carried = [i \in 1..Len(R) |-> Carried[i]]
          /\ LeftOut = [i \in 1..Len(R) |-> LeftOut[i]]
      BY <2>1, <2>2 DEF Carried, LeftOut
    <3> QED
      BY <2>2, <2>3, <3>1
  <2>5. SumOf(Carried) + SumOf(LeftOut) = SumOf(R)
    <3>1. \A i \in 1..Len(R) : Carried[i] + LeftOut[i] = R[i]
      BY <2>3
    <3> HIDE DEF R
    <3> QED
      BY <2>1, <2>4, <3>1, SumSplits
  <2> QED
    BY <2>1, <2>2, <2>3, <2>5
<1> QED
  BY <1>1, ReadingsAreStored, PTL

-----------------------------------------------------------------------------
(* Every edit of one field reaches the hash.                               *)

LEMMA RowsDiffer ==
  ASSUME NEW p \in Seq(StoredRow), NEW q \in Seq(StoredRow), NEW i \in DOMAIN p, p[i] # q[i],
         NEW f \in {"description", "quantity", "minutes"}, SameBut(p, q, i, f)
  PROVE  /\ Len(p) = Len(q) /\ Len(p) \in Nat /\ DOMAIN p = 1..Len(p) /\ DOMAIN q = 1..Len(p)
         /\ \A j \in 1..Len(p) : p[j] \in StoredRow /\ q[j] \in StoredRow
         /\ \A j \in 1..Len(p) : j # i => p[j] = q[j]
         /\ p[i][f] # q[i][f]
<1>1. /\ Len(p) \in Nat /\ DOMAIN p = 1..Len(p) /\ Len(q) \in Nat /\ DOMAIN q = 1..Len(q)
      /\ \A j \in 1..Len(p) : p[j] \in StoredRow
      /\ \A j \in 1..Len(q) : q[j] \in StoredRow
  OBVIOUS
<1>2. DOMAIN p = DOMAIN q
  BY DEF SameBut
<1>3. Len(p) = Len(q)
  <2>1. Len(p) # 0 => Len(p) \in 1..Len(q)
    BY <1>1, <1>2
  <2>2. Len(q) # 0 => Len(q) \in 1..Len(p)
    BY <1>1, <1>2
  <2> DEFINE m == Len(p)
             n == Len(q)
  <2>3. m \in Nat /\ n \in Nat /\ (m # 0 => m \in 1..n) /\ (n # 0 => n \in 1..m)
    BY <1>1, <2>1, <2>2
  <2> HIDE DEF m, n
  <2>4. m = n
    BY <2>3
  <2> QED
    BY <2>4 DEF m, n
<1>4. p[i] \in StoredRow /\ q[i] \in StoredRow
  BY <1>1, <1>2
<1>5. p[i][f] # q[i][f]
  <2> SUFFICES ASSUME p[i][f] = q[i][f] PROVE p[i] = q[i]
    OBVIOUS
  <2>1. \A g \in {"description", "quantity", "minutes"} : p[i][g] = q[i][g]
    BY DEF SameBut
  <2>2. p[i].description = q[i].description /\ p[i].quantity = q[i].quantity
        /\ p[i].minutes = q[i].minutes
    BY <2>1
  <2>3. \A r \in StoredRow : r = [description |-> r.description, quantity |-> r.quantity,
                                minutes |-> r.minutes]
    BY DEF StoredRow
  <2> QED
    BY <1>4, <2>2, <2>3
<1> QED
  BY <1>1, <1>2, <1>3, <1>5 DEF SameBut

LEMMA EditReachesHash ==
  ASSUME NEW d, NEW e, DayAddsUp(d), DayAddsUp(e), BothInRows(d, e),
         NEW f \in {"description", "quantity", "minutes"}, NEW i \in DOMAIN d.activities,
         EditsField(d, e, i, f)
  PROVE  CanonicalDay(d) # CanonicalDay(e)
<1> DEFINE p == d.activities
           q == e.activities
<1>1. /\ p \in Seq(StoredRow) /\ q \in Seq(StoredRow)
      /\ d.deliverable = DeliverableFrom(p) /\ e.deliverable = DeliverableFrom(q)
      /\ d.quantity = QuantityFrom(p) /\ e.quantity = QuantityFrom(q)
      /\ d.minutes = TotalMinutes(p) /\ e.minutes = TotalMinutes(q)
  BY DEF DayAddsUp, BothInRows
<1>2. SameBut(p, q, i, f) /\ p[i] # q[i] /\ i \in DOMAIN p
  BY DEF EditsField
<1> HIDE DEF p, q
<1>3. /\ Len(p) = Len(q) /\ Len(p) \in Nat /\ DOMAIN p = 1..Len(p) /\ DOMAIN q = 1..Len(p)
      /\ \A j \in 1..Len(p) : p[j] \in StoredRow /\ q[j] \in StoredRow
      /\ \A j \in 1..Len(p) : j # i => p[j] = q[j]
      /\ p[i][f] # q[i][f]
  BY <1>1, <1>2, RowsDiffer
<1>4. i \in 1..Len(p)
  BY <1>2, <1>3
<1>5. CASE f = "description"
  <2> DEFINE s == DeliverableFrom(p)
             t == DeliverableFrom(q)
  <2>1. \A j \in 1..Len(p) : p[j].description \in Seq(STRING) /\ q[j].description \in Seq(STRING)
    BY <1>3 DEF StoredRow
  <2>2. s = [j \in 1..Len(p) |-> p[j].description] /\ t = [j \in 1..Len(p) |-> q[j].description]
    BY <1>3 DEF DeliverableFrom
  <2> HIDE DEF s, t
  <2>3. s \in Seq(Seq(STRING)) /\ t \in Seq(Seq(STRING)) /\ Len(s) = Len(p) /\ Len(t) = Len(p)
    BY <1>3, <2>1, <2>2
  <2>4. OnlyAt(s, t, i)
    BY <1>3, <1>4, <1>5, <2>2, <2>3 DEF OnlyAt
  <2>5. FlattenSeq(s) # FlattenSeq(t)
    BY <2>3, <2>4, FlattenTells
  <2> QED
    BY <1>1, <2>5 DEF CanonicalDay, NormaliseText, s, t
<1>6. CASE f = "quantity"
  <2> DEFINE s == [j \in DOMAIN p |-> Kept(p[j].quantity, p[j].quantity # NoCount)]
             t == [j \in DOMAIN q |-> Kept(q[j].quantity, q[j].quantity # NoCount)]
  <2>1. \A j \in 1..Len(p) : p[j].quantity \in Int \cup {NoCount} /\ q[j].quantity \in Int \cup {NoCount}
    BY <1>3 DEF StoredRow
  <2>2. \A x \in Int \cup {NoCount} : Kept(x, x # NoCount) \in Seq(Int)
    BY DEF Kept
  <2>3. \A x, y \in Int \cup {NoCount} :
          x # y => Kept(x, x # NoCount) # Kept(y, y # NoCount)
    <3> SUFFICES ASSUME NEW x \in Int \cup {NoCount}, NEW y \in Int \cup {NoCount}, x # y
                 PROVE  Kept(x, x # NoCount) # Kept(y, y # NoCount)
      OBVIOUS
    <3>1. /\ <<x>>[1] = x /\ <<y>>[1] = y
          /\ Len(<<x>>) = 1 /\ Len(<<y>>) = 1 /\ Len(<<>>) = 0
      OBVIOUS
    <3>2. CASE x = NoCount
      BY <3>1, <3>2 DEF Kept
    <3>3. CASE y = NoCount
      BY <3>1, <3>3 DEF Kept
    <3>4. CASE x # NoCount /\ y # NoCount
      BY <3>1, <3>4 DEF Kept
    <3> QED
      BY <3>2, <3>3, <3>4
  <2>4. /\ DOMAIN s = 1..Len(p) /\ DOMAIN t = 1..Len(p)
        /\ \A j \in 1..Len(p) : s[j] \in Seq(Int) /\ t[j] \in Seq(Int)
        /\ \A j \in 1..Len(p) : j # i => s[j] = t[j]
    BY <1>3, <2>1, <2>2
  <2>5. s[i] # t[i]
    <3>1. p[i].quantity # q[i].quantity
      BY <1>3, <1>6
    <3>2. s[i] = Kept(p[i].quantity, p[i].quantity # NoCount)
          /\ t[i] = Kept(q[i].quantity, q[i].quantity # NoCount)
      BY <1>3, <1>4
    <3> QED
      BY <1>4, <2>1, <2>3, <3>1, <3>2
  <2>6. s = [j \in 1..Len(p) |-> s[j]] /\ t = [j \in 1..Len(p) |-> t[j]]
    BY <1>3
  <2>7. QuantityFrom(p) = FlattenSeq(s) /\ QuantityFrom(q) = FlattenSeq(t)
    BY DEF QuantityFrom
  <2> HIDE DEF s, t
  <2>8. s \in Seq(Seq(Int)) /\ t \in Seq(Seq(Int)) /\ Len(s) = Len(p) /\ Len(t) = Len(p)
    BY <1>3, <2>4, <2>6
  <2>9. OnlyAt(s, t, i)
    BY <1>4, <2>4, <2>5, <2>8 DEF OnlyAt
  <2>10. FlattenSeq(s) # FlattenSeq(t)
    BY <2>8, <2>9, FlattenTells
  <2> QED
    BY <1>1, <2>7, <2>10 DEF CanonicalDay
<1>7. CASE f = "minutes"
  <2> DEFINE s == [j \in DOMAIN p |-> p[j].minutes]
             t == [j \in DOMAIN q |-> q[j].minutes]
  <2>1. s \in Seq(Int) /\ t \in Seq(Int)
    BY <1>1, MinutesListed
  <2>2. Len(s) = Len(p) /\ Len(t) = Len(p)
    BY <1>3
  <2>3. OnlyAt(s, t, i)
    BY <1>3, <1>4, <1>7, <2>2 DEF OnlyAt
  <2>4. TotalMinutes(p) = SumOf(s) /\ TotalMinutes(q) = SumOf(t)
    BY DEF TotalMinutes
  <2> HIDE DEF s, t
  <2>5. SumOf(s) # SumOf(t)
    BY <2>1, <2>3, SumTells
  <2> QED
    BY <1>1, <2>4, <2>5 DEF CanonicalDay
<1> QED
  BY <1>5, <1>6, <1>7

\* Correcting one field of one row of a day of any number of rows moves what
\* the context hash sees: the corrected day is read again.
THEOREM EditInvalidates == Saving => OneFieldEditInvalidates
<1> DEFINE Edits ==
      Saved /\ BothInRows(day, day') =>
        \A f \in {"description", "quantity", "minutes"} :
          \A i \in DOMAIN day.activities \cap DOMAIN day'.activities :
            EditsField(day, day', i, f) => CanonicalDay(day) # CanonicalDay(day')
<1>1. StoredDay /\ [Save]_savedVars => [Edits]_savedVars
  <2> SUFFICES ASSUME StoredDay, Save, Saved, BothInRows(day, day'),
                      NEW f \in {"description", "quantity", "minutes"},
                      NEW i \in DOMAIN day.activities \cap DOMAIN day'.activities,
                      EditsField(day, day', i, f)
               PROVE  CanonicalDay(day) # CanonicalDay(day')
    OBVIOUS
  <2>1. DayAddsUp(day) /\ DayAddsUp(day')
    BY SaveAddsUp DEF StoredDay
  <2> QED
    BY <2>1, EditReachesHash
<1> QED
  BY <1>1, DaysAreStored, PTL DEF Saving, OneFieldEditInvalidates
=============================================================================
