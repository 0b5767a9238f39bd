------------------------- MODULE InsightCacheProofs -------------------------
(***************************************************************************)
(* Proofs about the stored insight of a period: for any contents and any   *)
(* number of viewers, edits, refusals, crashes and timed-out transactions. *)
(***************************************************************************)
EXTENDS InsightCache, TLAPS

\* Only a period that holds something is taken to the model.
CarriesRows ==
  \A c \in Calls :
    pc[c] \in {"waiting", "generating", "building"} => context[c] \in Contents

\* While somebody pays, nobody writes: what was read under the lock is what is
\* stored.
SeenIsStored == \A c \in Calls : Generates(c) => seen[c] = cacheRow

Typed == TypeOK /\ CarriesRows
OneAtATime == PaysOnlyForMissing /\ SeenIsStored

\* A generation that was not cut has the rows its request hashed.
Uncut ==
  \A c \in Calls \ cut :
    /\ pc[c] \in {"opened", "waiting", "generating"} => context[c] = data
    /\ pc[c] = "building" => built[c] = context[c]

\* What is stored and what is answered agree with what was hashed.
Agreeing == Uncut /\ PayloadMatchesSnapshot /\ UnflaggedIsCurrent

Inv == Typed /\ OneAtATime /\ Agreeing

USE DEF Goto, Say, Periods

-----------------------------------------------------------------------------
(* What ending a request does.                                             *)

LEMMA FinishTypes ==
  ASSUME Typed, NEW c \in Calls, NEW a \in Answer, Finish(c, a)
  PROVE  /\ pc' \in [Calls -> Steps]
         /\ context' \in [Calls -> Periods]
         /\ seen' \in [Calls -> Row \cup {None}]
         /\ built' \in [Calls -> Periods]
         /\ answer' \in [Calls -> Answer]
         /\ CarriesRows'
<1>1. /\ pc' \in [Calls -> Steps]
      /\ context' \in [Calls -> Periods]
      /\ built' \in [Calls -> Periods]
  BY DEF Finish, Typed, TypeOK, Steps
<1>2. /\ seen' \in [Calls -> Row \cup {None}]
      /\ answer' \in [Calls -> Answer]
  BY DEF Finish, Typed, TypeOK
<1>3. CarriesRows'
  BY DEF Finish, Typed, TypeOK, CarriesRows
<1> QED
  BY <1>1, <1>2, <1>3

LEMMA FinishLeavesOthers ==
  ASSUME Typed, NEW c \in Calls, NEW a, Finish(c, a)
  PROVE  /\ pc'[c] = "done" /\ answer'[c] = a
         /\ \A o \in Calls : o # c =>
              /\ pc'[o] = pc[o] /\ context'[o] = context[o] /\ seen'[o] = seen[o]
              /\ built'[o] = built[o] /\ answer'[o] = answer[o]
  BY DEF Finish, Typed, TypeOK

LEMMA ServedTypes ==
  ASSUME Typed, NEW c \in Calls, NEW r \in Row,
         NEW status \in {"READY", "FAILED"}, NEW stale \in BOOLEAN
  PROVE  Served(c, r, status, stale) \in Answer
  BY DEF Served, Answer, Row, Typed, TypeOK

LEMMA SayTypes ==
  ASSUME NEW status \in {"NONE", "EMPTY", "FAILED", "ERROR"}
  PROVE  Say(status) \in Answer
  BY DEF Answer

LEMMA HitTypes ==
  ASSUME Typed, NEW h, Hit(cacheRow, h)
  PROVE  cacheRow \in Row /\ cacheRow.contextHash = h
  BY DEF Hit, Typed, TypeOK

\* A row whose failure was counted keeps everything else.
LEMMA FailureCounted ==
  ASSUME Typed, cacheRow # None, cacheRow' = [cacheRow EXCEPT !.failureCount = Bump(@)]
  PROVE  /\ cacheRow' \in Row
         /\ cacheRow'.contextHash = cacheRow.contextHash
         /\ cacheRow'.raw = cacheRow.raw
         /\ cacheRow'.of = cacheRow.of
         /\ cacheRow'.cut = cacheRow.cut
<1>1. cacheRow \in Row
  BY DEF Typed, TypeOK
<1>2. Bump(cacheRow.failureCount) \in 0..Cap
  BY <1>1, PeriodAssumption DEF Row, Bump
<1> QED
  BY <1>1, <1>2 DEF Row

\* A row a generation writes.
LEMMA SuccessRow ==
  ASSUME Typed, NEW c \in Calls, Succeeds(c)
  PROVE  /\ cacheRow' \in Row
         /\ cacheRow'.contextHash = context[c] /\ cacheRow'.raw = context[c]
         /\ cacheRow'.of = built[c] /\ cacheRow'.cut = (c \in cut)
         /\ Finish(c, Served(c, cacheRow', "READY", FALSE))
         /\ Served(c, cacheRow', "READY", FALSE) \in Answer
<1> DEFINE r == [contextHash |-> context[c], raw |-> context[c], of |-> built[c],
                 failureCount |-> 0, cut |-> c \in cut]
<1>1. context[c] \in Contents /\ built[c] \in Contents
  BY DEF Typed, TypeOK, CarriesRows, Succeeds
<1>2. r \in Row
  BY <1>1, PeriodAssumption DEF Row
<1>3. cacheRow' = r /\ Finish(c, Served(c, r, "READY", FALSE))
  BY DEF Succeeds
<1> HIDE DEF r
<1>4. Served(c, r, "READY", FALSE) \in Answer
  BY <1>2, ServedTypes
<1>5. /\ r.contextHash = context[c] /\ r.raw = context[c]
      /\ r.of = built[c] /\ r.cut = (c \in cut)
  BY DEF r
<1> QED
  BY <1>2, <1>3, <1>4, <1>5

LEMMA CountTypes ==
  ASSUME Typed, NEW c \in Calls, CountsFailure(c)
  PROVE  failing' \in Failing
  BY DEF CountsFailure, Failing, MAX_CONSECUTIVE_FAILURES, Typed, TypeOK

-----------------------------------------------------------------------------
(* Types.                                                                  *)

LEMMA InitTyped == Init => Typed
  BY PeriodAssumption DEF Init, Typed, TypeOK, CarriesRows, Steps, Answer,
     Failing, NoFailure, MAX_CONSECUTIVE_FAILURES

LEMMA NextTyped == Inv /\ [Next]_vars => Typed'
<1> SUFFICES ASSUME Inv, [Next]_vars PROVE Typed'
  OBVIOUS
<1> USE DEF Inv, Typed
<1>1. ASSUME NEW d \in Periods, EditRows(d) PROVE Typed'
  BY <1>1, PeriodAssumption DEF EditRows, TypeOK, CarriesRows
<1>2. ASSUME NEW c \in Calls, Open(c) PROVE Typed'
  BY <1>2, SayTypes DEF Open, TypeOK, CarriesRows, Steps
<1>3. ASSUME NEW c \in Calls, Decide(c) PROVE Typed'
  <2> DEFINE v == Verdict(cacheRow, context[c])
  <2>1. CASE v = "GENERATE"
    <3>1. context[c] \in Contents
      BY <2>1 DEF Verdict, TypeOK
    <3> QED
      BY <1>3, <2>1, <3>1 DEF Decide, TypeOK, CarriesRows, Steps
  <2>2. CASE v # "GENERATE"
    <3>1. v \in {"HIT", "STOPPED", "EMPTY"}
      BY <2>2 DEF Verdict
    <3>2. v \in {"HIT", "STOPPED"} => cacheRow \in Row
      BY DEF Verdict, Hit, TypeOK
    <3>3. PICK a \in Answer : Finish(c, a) /\ UNCHANGED <<data, edits, cacheRow, lock, cut, failing>>
      <4>1. CASE v = "HIT"
        BY <1>3, <2>2, <3>2, <4>1, ServedTypes DEF Decide
      <4>2. CASE v = "STOPPED"
        BY <1>3, <2>2, <3>2, <4>2, ServedTypes DEF Decide
      <4>3. CASE v = "EMPTY"
        BY <1>3, <2>2, <4>3, SayTypes DEF Decide
      <4> QED
        BY <3>1, <4>1, <4>2, <4>3
    <3> QED
      BY <3>3, FinishTypes DEF TypeOK
  <2> QED
    BY <2>1, <2>2
<1>4. ASSUME NEW c \in Calls, TakesLock(c) PROVE Typed'
  <2>1. CASE Hit(cacheRow, context[c])
    <3>1. Served(c, cacheRow, "READY", FALSE) \in Answer
      BY <2>1, HitTypes, ServedTypes
    <3>2. Finish(c, Served(c, cacheRow, "READY", FALSE))
          /\ UNCHANGED <<data, edits, cacheRow, lock, cut, failing>>
      BY <1>4, <2>1 DEF TakesLock
    <3> QED
      BY <3>1, <3>2, FinishTypes DEF TypeOK
  <2>2. CASE ~Hit(cacheRow, context[c])
    BY <1>4, <2>2 DEF TakesLock, TypeOK, CarriesRows, Steps
  <2> QED
    BY <2>1, <2>2
<1>5. ASSUME NEW c \in Calls, GeneratorReads(c) PROVE Typed'
  BY <1>5 DEF GeneratorReads, TypeOK, CarriesRows, Steps
<1>6. ASSUME NEW c \in Calls, Succeeds(c) PROVE Typed'
  <2>1. /\ cacheRow' \in Row
        /\ Finish(c, Served(c, cacheRow', "READY", FALSE))
        /\ Served(c, cacheRow', "READY", FALSE) \in Answer
    BY <1>6, SuccessRow
  <2>2. /\ UNCHANGED <<data, edits, cut>> /\ lock' \in Calls \cup {None}
        /\ failing' \in Failing
    BY <1>6 DEF Succeeds, Release, TypeOK, NoFailure, Failing, MAX_CONSECUTIVE_FAILURES
  <2> QED
    BY <2>1, <2>2, FinishTypes DEF TypeOK
<1>7. ASSUME NEW c \in Calls, Fails(c) PROVE Typed'
  <2>1. /\ UNCHANGED <<data, edits, cut>> /\ lock' \in Calls \cup {None}
        /\ failing' \in Failing
    BY <1>7, CountTypes DEF Fails, Release, TypeOK
  <2>2. CASE seen[c] # None
    <3>1. seen[c] = cacheRow
      BY <1>7 DEF Fails, OneAtATime, SeenIsStored, Generates
    <3>2. seen[c] \in Row
      BY <2>2 DEF TypeOK
    <3>3. Served(c, seen[c], "FAILED", TRUE) \in Answer
      BY <3>2, ServedTypes
    <3>4. /\ cacheRow' = [cacheRow EXCEPT !.failureCount = Bump(@)]
          /\ Finish(c, Served(c, seen[c], "FAILED", TRUE))
      BY <1>7, <2>2 DEF Fails
    <3>5. cacheRow' \in Row
      BY <2>2, <3>1, <3>4, FailureCounted
    <3> QED
      BY <2>1, <3>3, <3>4, <3>5, FinishTypes DEF TypeOK
  <2>3. CASE seen[c] = None
    <3>1. cacheRow' = cacheRow /\ Finish(c, Say("FAILED"))
      BY <1>7, <2>3 DEF Fails
    <3> QED
      BY <2>1, <3>1, SayTypes, FinishTypes DEF TypeOK
  <2> QED
    BY <2>2, <2>3
<1>8. ASSUME NEW c \in Calls, Crash(c) \/ TimesOutWaiting(c) \/ OverrunEnds(c)
      PROVE  Typed'
  <2>1. /\ UNCHANGED <<data, edits, cacheRow, cut, failing>>
        /\ lock' \in Calls \cup {None}
        /\ Finish(c, Say("ERROR"))
    BY <1>8 DEF Crash, TimesOutWaiting, OverrunEnds, Release, TypeOK
  <2> QED
    BY <2>1, SayTypes, FinishTypes DEF TypeOK
<1>9. ASSUME NEW c \in Calls, TimesOutPaying(c) PROVE Typed'
  BY <1>9 DEF TimesOutPaying, Release, TypeOK, CarriesRows, Steps
<1>10. CASE UNCHANGED vars
  BY <1>10 DEF vars, TypeOK, CarriesRows
<1> QED
  BY <1>1, <1>2, <1>3, <1>4, <1>5, <1>6, <1>7, <1>8, <1>9, <1>10 DEF Next, Step, Fault

-----------------------------------------------------------------------------
(* One turn at a time.                                                     *)

Bill(c) == [by |-> c, hash |-> context[c]]
Turn == PayingAt({"generating", "building"})
Late == PayingAt({"overrun"})

LEMMA OneTurn ==
  ASSUME OneAtATime, NEW c \in Calls, Generates(c)
  PROVE  Turn = {Bill(c)} /\ \A o \in Calls : Generates(o) => o = c
<1>1. \A o \in Calls : Generates(o) => o = c
  BY DEF OneAtATime, PaysOnlyForMissing
<1> QED
  BY <1>1 DEF Turn, PayingAt, Bill, Generates

LEMMA PayersKept ==
  ASSUME NEW steps,
         \A o \in Calls : pc'[o] \in steps <=> pc[o] \in steps,
         \A o \in Calls : pc[o] \in steps => context'[o] = context[o]
  PROVE  PayingAt(steps)' = PayingAt(steps)
<1>1. {v \in Calls : pc'[v] \in steps} = {v \in Calls : pc[v] \in steps}
  OBVIOUS
<1> QED
  BY <1>1 DEF PayingAt

\* A step of a viewer that pays neither before it nor after it.
LEMMA NobodyPays ==
  ASSUME OneAtATime, NEW c \in Calls,
         pc[c] \notin {"generating", "building", "overrun"},
         pc'[c] \notin {"generating", "building", "overrun"},
         \A o \in Calls : o # c => /\ pc'[o] = pc[o] /\ context'[o] = context[o]
                                 /\ seen'[o] = seen[o],
         cacheRow' = cacheRow,
         lock' \in {lock, IF lock = c THEN None ELSE lock}
  PROVE  OneAtATime' /\ UNCHANGED Payer!vars
<1>1. Turn' = Turn /\ Late' = Late
  BY PayersKept DEF Turn, Late
<1>2. \A o \in Calls : Generates(o)' => /\ Generates(o) /\ o # c /\ context'[o] = context[o]
                                       /\ seen'[o] = seen[o]
  BY DEF Generates
<1>3. OneAtATime'
  BY <1>2 DEF OneAtATime, PaysOnlyForMissing, SeenIsStored, Hit
<1> QED
  BY <1>1, <1>3 DEF Payer!vars, Turn, Late

\* A step that ends the turn of c, storing what c asked for or nothing new.
LEMMA TurnEnds ==
  ASSUME OneAtATime, NEW c \in Calls, Generates(c), pc'[c] = "done",
         \A o \in Calls : o # c => pc'[o] = pc[o] /\ context'[o] = context[o],
         \/ cacheRow' = cacheRow
         \/ /\ cacheRow # None /\ cacheRow' # None
            /\ cacheRow'.contextHash = cacheRow.contextHash
         \/ cacheRow' # None /\ cacheRow'.contextHash = context[c]
  PROVE  OneAtATime' /\ Payer!Next
<1>1. Turn = {Bill(c)} /\ (\A o \in Calls : ~Generates(o)')
  BY OneTurn DEF Generates
<1>2. Turn' = {}
  BY <1>1 DEF Turn, PayingAt, Generates
<1>3. Late' = Late
  BY PayersKept DEF Late, Generates
<1>4. OneAtATime'
  BY <1>1 DEF OneAtATime, PaysOnlyForMissing, SeenIsStored
<1>5. CASE (IF cacheRow = None THEN {} ELSE {cacheRow.contextHash})'
             = (IF cacheRow = None THEN {} ELSE {cacheRow.contextHash})
  BY <1>1, <1>2, <1>3, <1>4, <1>5 DEF Payer!Next, Payer!GiveUp, Turn, Late
<1>6. CASE cacheRow' # None /\ cacheRow'.contextHash = context[c]
  <2>1. Bill(c) \in Turn /\ Bill(c).hash = context[c]
    BY <1>1 DEF Bill
  <2>2. Payer!Pay(Bill(c))
    BY <1>1, <1>2, <1>3, <1>6, <2>1 DEF Payer!Pay, Turn, Late
  <2> QED
    BY <1>4, <2>1, <2>2 DEF Payer!Next, Turn
<1> QED
  BY <1>4, <1>5, <1>6

\* A transaction that times out under the generator: the turn is lost, the paying
\* goes on.
LEMMA TurnOverruns ==
  ASSUME OneAtATime, NEW c \in Calls, Generates(c), pc'[c] = "overrun",
         \A o \in Calls : o # c => pc'[o] = pc[o],
         UNCHANGED <<context, cacheRow>>
  PROVE  OneAtATime' /\ Payer!Next
<1>1. Turn = {Bill(c)} /\ (\A o \in Calls : ~Generates(o)')
  BY OneTurn DEF Generates
<1>2. Turn' = {}
  BY <1>1 DEF Turn, PayingAt, Generates
<1>3. {v \in Calls : pc'[v] \in {"overrun"}} = {v \in Calls : pc[v] \in {"overrun"}} \cup {c}
  OBVIOUS
<1>4. Late' = Late \cup {Bill(c)}
  BY <1>3 DEF Late, PayingAt, Bill
<1>5. Payer!Overrun(Bill(c))
  BY <1>1, <1>2, <1>4 DEF Payer!Overrun, Turn, Late
<1>6. OneAtATime'
  BY <1>1 DEF OneAtATime, PaysOnlyForMissing, SeenIsStored
<1> QED
  BY <1>1, <1>5, <1>6 DEF Payer!Next, Turn

\* A late payer's end: it may not be the one who holds the lock.
LEMMA LatePayerEnds ==
  ASSUME OneAtATime, NEW c \in Calls, pc[c] = "overrun", pc'[c] = "done",
         \A o \in Calls : o # c => /\ pc'[o] = pc[o] /\ context'[o] = context[o]
                                 /\ seen'[o] = seen[o],
         cacheRow' = cacheRow,
         lock' \in {lock, IF lock = c THEN None ELSE lock}
  PROVE  OneAtATime' /\ Payer!Next
<1>1. Turn' = Turn
  BY PayersKept DEF Turn
<1>2. {v \in Calls : pc'[v] \in {"overrun"}} = {v \in Calls : pc[v] \in {"overrun"}} \ {c}
  OBVIOUS
<1>3. Late' = Late \ {Bill(c)} /\ Bill(c) \in Late
  BY <1>2 DEF Late, PayingAt, Bill
<1>4. Payer!LateEnds(Bill(c))
  BY <1>1, <1>3 DEF Payer!LateEnds, Turn, Late
<1>5. \A o \in Calls : Generates(o)' => /\ Generates(o) /\ o # c /\ context'[o] = context[o]
                                       /\ seen'[o] = seen[o]
  BY DEF Generates
<1>6. OneAtATime'
  BY <1>5 DEF OneAtATime, PaysOnlyForMissing, SeenIsStored, Hit
<1> QED
  BY <1>3, <1>4, <1>6 DEF Payer!Next, Late

LEMMA NextPays ==
  Inv /\ [Next]_vars => OneAtATime' /\ [Payer!Next]_(Payer!vars)
<1> SUFFICES ASSUME Inv, [Next]_vars
             PROVE  OneAtATime' /\ [Payer!Next]_(Payer!vars)
  OBVIOUS
<1> USE DEF Inv, Typed
<1>1. ASSUME NEW d \in Periods, EditRows(d) PROVE OneAtATime' /\ UNCHANGED Payer!vars
  BY <1>1 DEF EditRows, OneAtATime, PaysOnlyForMissing, SeenIsStored, Generates,
              PayingAt, Payer!vars
<1>2. ASSUME NEW c \in Calls, Open(c) \/ Decide(c) \/ TimesOutWaiting(c)
      PROVE  OneAtATime' /\ UNCHANGED Payer!vars
  BY NobodyPays, <1>2 DEF Open, Decide, TimesOutWaiting, Finish, TypeOK
<1>4. ASSUME NEW c \in Calls, TakesLock(c)
      PROVE  OneAtATime' /\ [Payer!Next]_(Payer!vars)
  <2>1. CASE Hit(cacheRow, context[c])
    BY NobodyPays, <1>4, <2>1 DEF TakesLock, Finish, TypeOK
  <2>2. CASE ~Hit(cacheRow, context[c])
    <3>1. \A o \in Calls : ~Generates(o)
      BY <1>4, PeriodAssumption DEF TakesLock, OneAtATime, PaysOnlyForMissing
    <3>2. /\ pc[c] = "waiting" /\ pc'[c] = "generating" /\ lock' = c /\ seen'[c] = cacheRow
          /\ UNCHANGED <<cacheRow, context>>
          /\ \A o \in Calls : o # c => pc'[o] = pc[o]
      BY <1>4, <2>2 DEF TakesLock, TypeOK
    <3>3. \A o \in Calls : Generates(o)' <=> o = c
      BY <3>1, <3>2 DEF Generates
    <3>4. OneAtATime'
      BY <2>2, <3>2, <3>3 DEF OneAtATime, PaysOnlyForMissing, SeenIsStored, Hit
    <3>5. Turn = {} /\ Late' = Late
      BY <3>1, <3>2, PayersKept DEF Turn, Late, PayingAt, Generates
    <3>6. {v \in Calls : pc'[v] \in {"generating", "building"}} = {c}
      BY <3>3 DEF Generates
    <3>7. Turn' = {[by |-> c, hash |-> context[c]]}
      BY <3>2, <3>6 DEF Turn, PayingAt
    <3>8. context[c] \notin (IF cacheRow = None THEN {} ELSE {cacheRow.contextHash})
      BY <2>2 DEF Hit
    <3>9. Payer!Begin(c, context[c])
      BY <3>2, <3>5, <3>7, <3>8 DEF Payer!Begin, Turn, Late
    <3>10. context[c] \in Contents
      BY <3>2 DEF CarriesRows
    <3> QED
      BY <3>4, <3>9, <3>10 DEF Payer!Next
  <2> QED
    BY <2>1, <2>2
<1>5. ASSUME NEW c \in Calls, GeneratorReads(c)
      PROVE  OneAtATime' /\ UNCHANGED Payer!vars
  <2>1. /\ \A o \in Calls : Generates(o)' <=> Generates(o)
        /\ \A o \in Calls : pc'[o] = "overrun" <=> pc[o] = "overrun"
        /\ UNCHANGED <<cacheRow, lock, context, seen>>
    BY <1>5 DEF GeneratorReads, Generates, TypeOK
  <2>2. Turn' = Turn /\ Late' = Late
    BY <2>1, PayersKept DEF Turn, Late, Generates
  <2>3. OneAtATime'
    BY <2>1 DEF OneAtATime, PaysOnlyForMissing, SeenIsStored
  <2> QED
    BY <2>1, <2>2, <2>3 DEF Payer!vars, Turn, Late
<1>6. ASSUME NEW c \in Calls, Succeeds(c) PROVE OneAtATime' /\ Payer!Next
  <2>1. /\ cacheRow' # None /\ cacheRow'.contextHash = context[c]
        /\ pc'[c] = "done" /\ Generates(c)
        /\ \A o \in Calls : o # c => pc'[o] = pc[o] /\ context'[o] = context[o]
    BY <1>6, SuccessRow, NoRowAssumption, FinishLeavesOthers DEF Succeeds, Generates
  <2> QED
    BY <2>1, TurnEnds
<1>7. ASSUME NEW c \in Calls, Fails(c) PROVE OneAtATime' /\ Payer!Next
  <2>1. /\ Generates(c) /\ pc'[c] = "done"
        /\ \A o \in Calls : o # c => pc'[o] = pc[o] /\ context'[o] = context[o]
    BY <1>7 DEF Fails, Finish, Generates, TypeOK
  <2>2. seen[c] = cacheRow
    BY <2>1 DEF OneAtATime, SeenIsStored
  <2>3. CASE cacheRow # None
    <3>1. cacheRow' = [cacheRow EXCEPT !.failureCount = Bump(@)]
      BY <1>7, <2>2, <2>3 DEF Fails
    <3>2. cacheRow' \in Row /\ cacheRow'.contextHash = cacheRow.contextHash
      BY <2>3, <3>1, FailureCounted
    <3> QED
      BY <2>1, <2>3, <3>2, TurnEnds, NoRowAssumption
  <2>4. CASE cacheRow = None
    BY <1>7, <2>1, <2>2, <2>4, TurnEnds DEF Fails
  <2> QED
    BY <2>3, <2>4
<1>8. ASSUME NEW c \in Calls, Crash(c) PROVE OneAtATime' /\ [Payer!Next]_(Payer!vars)
  <2>1. /\ pc[c] \notin {"idle", "done"} /\ pc'[c] = "done" /\ cacheRow' = cacheRow
        /\ lock' = IF lock = c THEN None ELSE lock
        /\ \A o \in Calls : o # c => /\ pc'[o] = pc[o] /\ context'[o] = context[o]
                                    /\ seen'[o] = seen[o]
    BY <1>8, FinishLeavesOthers DEF Crash, Release
  <2>2. CASE Generates(c)
    BY <2>1, <2>2, TurnEnds
  <2>3. CASE pc[c] = "overrun"
    BY <2>1, <2>3, LatePayerEnds
  <2>4. CASE pc[c] \notin {"generating", "building", "overrun"}
    BY <2>1, <2>4, NobodyPays
  <2> QED
    BY <2>2, <2>3, <2>4 DEF Generates
<1>9. ASSUME NEW c \in Calls, TimesOutPaying(c) PROVE OneAtATime' /\ Payer!Next
  BY TurnOverruns, <1>9 DEF TimesOutPaying, Generates, TypeOK
<1>10. ASSUME NEW c \in Calls, OverrunEnds(c) PROVE OneAtATime' /\ Payer!Next
  <2>1. /\ pc[c] = "overrun" /\ pc'[c] = "done" /\ UNCHANGED <<cacheRow, lock>>
        /\ \A o \in Calls : o # c => /\ pc'[o] = pc[o] /\ context'[o] = context[o]
                                    /\ seen'[o] = seen[o]
    BY <1>10, FinishLeavesOthers DEF OverrunEnds
  <2> QED
    BY <2>1, LatePayerEnds
<1>11. CASE UNCHANGED vars
  BY <1>11 DEF vars, OneAtATime, PaysOnlyForMissing, SeenIsStored, Generates, Hit, PayingAt,
              Payer!vars
<1> QED
  BY <1>1, <1>2, <1>4, <1>5, <1>6, <1>7, <1>8, <1>9, <1>10, <1>11 DEF Next, Step, Fault

-----------------------------------------------------------------------------
(* What a row and an answer say.                                           *)

\* One answer is given: it is flagged, or of the hash it was asked for.
LEMMA AnswerAgrees ==
  ASSUME Inv, NEW c \in Calls, NEW a, Finish(c, a),
         a.status = "READY" => ~a.stale,
         a.stale \/ a.under = a.for
  PROVE  UnflaggedIsCurrent'
<1>1. answer'[c] = a /\ (\A o \in Calls : o # c => answer'[o] = answer[o])
  BY FinishLeavesOthers DEF Inv
<1> QED
  BY <1>1 DEF UnflaggedIsCurrent, Inv, Agreeing

\* A viewer whose request ends, or moves to a step of no consequence, cuts nobody.
LEMMA OthersUncut ==
  ASSUME Inv, NEW c \in Calls, UNCHANGED <<data, cut>>,
         pc'[c] \notin {"opened", "waiting", "generating", "building"},
         \A o \in Calls : o # c => /\ pc'[o] = pc[o] /\ context'[o] = context[o]
                                 /\ built'[o] = built[o]
  PROVE  Uncut'
  BY DEF Inv, Agreeing, Uncut

LEMMA NextAgrees == Inv /\ [Next]_vars => Agreeing'
<1> SUFFICES ASSUME Inv, [Next]_vars PROVE Agreeing'
  OBVIOUS
<1> USE DEF Inv, Typed
<1>1. ASSUME UNCHANGED <<cacheRow, answer>>
      PROVE  PayloadMatchesSnapshot' /\ UnflaggedIsCurrent'
  BY <1>1 DEF Agreeing, PayloadMatchesSnapshot, UnflaggedIsCurrent
\* A request ends and the row is left as it is.
<1>2. ASSUME NEW c \in Calls, NEW a, Finish(c, a), UNCHANGED <<data, cut, cacheRow>>,
             a.status = "READY" => ~a.stale,
             a.stale \/ a.under = a.for
      PROVE  Agreeing'
  <2>1. Uncut'
    BY <1>2, OthersUncut, FinishLeavesOthers
  <2>2. UnflaggedIsCurrent'
    BY <1>2, AnswerAgrees
  <2> QED
    BY <1>2, <2>1, <2>2 DEF Agreeing, PayloadMatchesSnapshot
<1>3. ASSUME NEW d \in Periods, EditRows(d) PROVE Agreeing'
  <2>1. Uncut'
    BY <1>3 DEF EditRows, Agreeing, Uncut
  <2> QED
    BY <1>1, <1>3, <2>1 DEF EditRows, Agreeing
<1>4. ASSUME NEW c \in Calls, Open(c) PROVE Agreeing'
  <2>1. Uncut'
    BY <1>4 DEF Open, Agreeing, Uncut, TypeOK
  <2>2. cacheRow' = cacheRow /\ answer' = [answer EXCEPT ![c] = Say("NONE")]
    BY <1>4 DEF Open
  <2>3. UnflaggedIsCurrent'
    BY <2>2 DEF Agreeing, UnflaggedIsCurrent, TypeOK
  <2> QED
    BY <2>1, <2>2, <2>3 DEF Agreeing, PayloadMatchesSnapshot
<1>5. ASSUME NEW c \in Calls, Decide(c) PROVE Agreeing'
  <2> DEFINE v == Verdict(cacheRow, context[c])
  <2>1. UNCHANGED <<data, cut, cacheRow>>
    BY <1>5 DEF Decide
  <2>2. CASE v = "GENERATE"
    <3>1. Uncut'
      BY <1>5, <2>2 DEF Decide, Agreeing, Uncut, TypeOK
    <3> QED
      BY <1>1, <1>5, <2>2, <3>1 DEF Decide, Agreeing
  <2>3. CASE v = "HIT"
    <3>1. Finish(c, Served(c, cacheRow, "READY", FALSE))
      BY <1>5, <2>3 DEF Decide
    <3>2. cacheRow.contextHash = context[c]
      BY <2>3 DEF Verdict, Hit
    <3> QED
      BY <1>2, <2>1, <3>1, <3>2 DEF Served
  <2>4. CASE v = "STOPPED"
    <3>1. Finish(c, Served(c, cacheRow, "FAILED", TRUE))
      BY <1>5, <2>4 DEF Decide
    <3> QED
      BY <1>2, <2>1, <3>1 DEF Served
  <2>5. CASE v = "EMPTY"
    <3>1. Finish(c, Say("EMPTY"))
      BY <1>5, <2>5 DEF Decide
    <3> QED
      BY <1>2, <2>1, <3>1
  <2> QED
    BY <2>2, <2>3, <2>4, <2>5 DEF Verdict
<1>6. ASSUME NEW c \in Calls, TakesLock(c) PROVE Agreeing'
  <2>1. CASE Hit(cacheRow, context[c])
    <3>1. Finish(c, Served(c, cacheRow, "READY", FALSE)) /\ UNCHANGED <<data, cut, cacheRow>>
      BY <1>6, <2>1 DEF TakesLock
    <3>2. cacheRow.contextHash = context[c]
      BY <2>1 DEF Hit
    <3> QED
      BY <1>2, <3>1, <3>2 DEF Served
  <2>2. CASE ~Hit(cacheRow, context[c])
    <3>1. Uncut'
      BY <1>6, <2>2 DEF TakesLock, Agreeing, Uncut, TypeOK
    <3> QED
      BY <1>1, <1>6, <2>2, <3>1 DEF TakesLock, Agreeing
  <2> QED
    BY <2>1, <2>2
<1>7. ASSUME NEW c \in Calls, GeneratorReads(c) PROVE Agreeing'
  <2>1. Uncut'
    BY <1>7 DEF GeneratorReads, Agreeing, Uncut, TypeOK
  <2> QED
    BY <1>1, <1>7, <2>1 DEF GeneratorReads, Agreeing
<1>8. ASSUME NEW c \in Calls, Succeeds(c) PROVE Agreeing'
  <2>1. /\ cacheRow'.contextHash = context[c] /\ cacheRow'.raw = context[c]
        /\ cacheRow'.of = built[c] /\ cacheRow'.cut = (c \in cut)
        /\ Finish(c, Served(c, cacheRow', "READY", FALSE))
    BY <1>8, SuccessRow
  <2>2. pc[c] = "building" /\ UNCHANGED <<data, cut>>
    BY <1>8 DEF Succeeds
  <2>3. PayloadMatchesSnapshot'
    BY <2>1, <2>2 DEF Agreeing, Uncut, PayloadMatchesSnapshot
  <2>4. Uncut'
    BY <2>1, <2>2, OthersUncut, FinishLeavesOthers
  <2>5. UnflaggedIsCurrent'
    BY <2>1, AnswerAgrees DEF Served
  <2> QED
    BY <2>3, <2>4, <2>5 DEF Agreeing
<1>9. ASSUME NEW c \in Calls, Fails(c) PROVE Agreeing'
  <2>1. seen[c] = cacheRow /\ UNCHANGED <<data, cut>>
    BY <1>9 DEF Fails, OneAtATime, SeenIsStored, Generates
  <2>2. CASE seen[c] # None
    <3>1. /\ cacheRow' = [cacheRow EXCEPT !.failureCount = Bump(@)]
          /\ Finish(c, Served(c, seen[c], "FAILED", TRUE))
      BY <1>9, <2>2 DEF Fails
    <3>2. PayloadMatchesSnapshot'
      BY <2>1, <2>2, <3>1, FailureCounted DEF Agreeing, PayloadMatchesSnapshot
    <3>3. UnflaggedIsCurrent'
      BY <3>1, AnswerAgrees DEF Served
    <3>4. Uncut'
      BY <2>1, <3>1, OthersUncut, FinishLeavesOthers
    <3> QED
      BY <3>2, <3>3, <3>4 DEF Agreeing
  <2>3. CASE seen[c] = None
    <3>1. cacheRow' = cacheRow /\ Finish(c, Say("FAILED"))
      BY <1>9, <2>3 DEF Fails
    <3> QED
      BY <1>2, <2>1, <3>1
  <2> QED
    BY <2>2, <2>3
<1>10. ASSUME NEW c \in Calls, Crash(c) \/ TimesOutWaiting(c) \/ OverrunEnds(c)
       PROVE  Agreeing'
  <2>1. UNCHANGED <<data, cut, cacheRow>> /\ Finish(c, Say("ERROR"))
    BY <1>10 DEF Crash, TimesOutWaiting, OverrunEnds
  <2> QED
    BY <1>2, <2>1
<1>11. ASSUME NEW c \in Calls, TimesOutPaying(c) PROVE Agreeing'
  <2>1. Uncut'
    BY <1>11 DEF TimesOutPaying, Agreeing, Uncut, TypeOK
  <2> QED
    BY <1>1, <1>11, <2>1 DEF TimesOutPaying, Agreeing
<1>12. CASE UNCHANGED vars
  BY <1>12 DEF vars, Agreeing, Uncut, PayloadMatchesSnapshot, UnflaggedIsCurrent
<1> QED
  BY <1>3, <1>4, <1>5, <1>6, <1>7, <1>8, <1>9, <1>10, <1>11, <1>12 DEF Next, Step, Fault

LEMMA InitInv == Init => Inv
<1> SUFFICES ASSUME Init PROVE Inv
  OBVIOUS
<1>1. Typed
  BY InitTyped
<1>2. OneAtATime
  BY DEF Init, OneAtATime, PaysOnlyForMissing, SeenIsStored, Generates
<1>3. Agreeing
  BY DEF Init, Agreeing, Uncut, PayloadMatchesSnapshot, UnflaggedIsCurrent
<1> QED
  BY <1>1, <1>2, <1>3 DEF Inv

\* The inductive invariant: types, one payer at a time who has read the stored
\* row inside its lock, and snapshots and answers that are of what was hashed.
THEOREM CacheInvariant == Spec => []Inv
<1>1. Inv /\ [Next]_vars => Inv'
  BY NextTyped, NextPays, NextAgrees DEF Inv
<1> QED
  BY <1>1, InitInv, PTL DEF Spec

\* Type correctness of the cache row, its lock and the requests around it.
THEOREM TypeCorrect == Spec => []TypeOK
<1>1. Inv => TypeOK
  BY DEF Inv, Typed
<1> QED
  BY <1>1, CacheInvariant, PTL

\* Any number of viewers of a period buy one answer between them, as far as a
\* transaction carries its lock: whoever has one open on the generator is alone
\* with it, and asks for what is not stored.
THEOREM CachePaysOnce == Spec => []PaysOnlyForMissing
<1>1. Inv => PaysOnlyForMissing
  BY DEF Inv, OneAtATime
<1> QED
  BY <1>1, CacheInvariant, PTL

\* A stored payload is of the rows its snapshot was taken of, unless they changed
\* between the hashing and the generator's own reading.
THEOREM PayloadAgrees == Spec => []PayloadMatchesSnapshot
<1>1. Inv => PayloadMatchesSnapshot
  BY DEF Inv, Agreeing
<1> QED
  BY <1>1, CacheInvariant, PTL

\* An answer not flagged stale is of the rows its request read.
THEOREM UnflaggedAnswers == Spec => []UnflaggedIsCurrent
<1>1. Inv => UnflaggedIsCurrent
  BY DEF Inv, Agreeing
<1> QED
  BY <1>1, CacheInvariant, PTL

\* generateUnderLock implements the abstract single flight of OnePayer.
THEOREM CachePaysLikeOnePayer == Spec => PaysLikeOnePayer
<1>1. Init => Payer!Init
  BY DEF Init, Payer!Init, PayingAt
<1> QED
  BY <1>1, CacheInvariant, NextPays, PTL DEF Spec, PaysLikeOnePayer, Payer!Spec

-----------------------------------------------------------------------------
(* What a failure leaves behind.                                           *)

\* A request that is still going has answered nothing yet: whoever is answered
\* "READY" is answered by this very step.
Unanswered ==
  \A c \in Calls : pc[c] \notin {"idle", "done"} => answer[c] = Say("NONE")

LEMMA NextUnanswered == Inv /\ Unanswered /\ [Next]_vars => Unanswered'
<1> SUFFICES ASSUME Inv, Unanswered, [Next]_vars PROVE Unanswered'
  OBVIOUS
<1> USE DEF Inv, Typed
<1>1. ASSUME NEW c \in Calls, NEW a, Finish(c, a) PROVE Unanswered'
  <2>1. /\ pc'[c] = "done"
        /\ \A o \in Calls : o # c => pc'[o] = pc[o] /\ answer'[o] = answer[o]
    BY <1>1, FinishLeavesOthers
  <2> QED
    BY <2>1 DEF Unanswered
<1>2. ASSUME NEW c \in Calls, pc[c] \notin {"idle", "done"}, UNCHANGED answer,
             \A o \in Calls : o # c => pc'[o] = pc[o]
      PROVE  Unanswered'
  BY <1>2 DEF Unanswered
<1>3. ASSUME NEW d \in Periods, EditRows(d) PROVE Unanswered'
  BY <1>3 DEF EditRows, Unanswered
<1>4. ASSUME NEW c \in Calls, Open(c) PROVE Unanswered'
  <2>1. /\ answer'[c] = Say("NONE")
        /\ \A o \in Calls : o # c => pc'[o] = pc[o] /\ answer'[o] = answer[o]
    BY <1>4 DEF Open, TypeOK
  <2> QED
    BY <2>1 DEF Unanswered
<1>5. ASSUME NEW c \in Calls, Decide(c) PROVE Unanswered'
  BY <1>1, <1>2, <1>5 DEF Decide, TypeOK
<1>6. ASSUME NEW c \in Calls, TakesLock(c) PROVE Unanswered'
  BY <1>1, <1>2, <1>6 DEF TakesLock, TypeOK
<1>7. ASSUME NEW c \in Calls, GeneratorReads(c) PROVE Unanswered'
  BY <1>2, <1>7 DEF GeneratorReads, TypeOK
<1>8. ASSUME NEW c \in Calls, Succeeds(c) PROVE Unanswered'
  BY <1>1, <1>8, SuccessRow
<1>9. ASSUME NEW c \in Calls, Fails(c) PROVE Unanswered'
  BY <1>1, <1>9 DEF Fails
<1>10. ASSUME NEW c \in Calls, Crash(c) \/ TimesOutWaiting(c) \/ OverrunEnds(c)
       PROVE  Unanswered'
  BY <1>1, <1>10 DEF Crash, TimesOutWaiting, OverrunEnds
<1>11. ASSUME NEW c \in Calls, TimesOutPaying(c) PROVE Unanswered'
  BY <1>2, <1>11 DEF TimesOutPaying, TypeOK
<1>12. CASE UNCHANGED vars
  BY <1>12 DEF vars, Unanswered
<1> QED
  BY <1>3, <1>4, <1>5, <1>6, <1>7, <1>8, <1>9, <1>10, <1>11, <1>12 DEF Next, Step, Fault

\* A stored answer survives every step but a successful generation: an edit, a
\* crash, a refusal or an empty period moves at most the failure counter.
THEOREM FailuresKeepAnswers == Spec => FailureKeepsTheAnswer
<1> DEFINE Kept == /\ cacheRow'.contextHash = cacheRow.contextHash
                   /\ cacheRow'.raw = cacheRow.raw
                   /\ cacheRow'.of = cacheRow.of
           Buys == \E c \in Calls : answer'[c] # answer[c] /\ answer'[c].status = "READY"
           Keeps == cacheRow # None => cacheRow' # None /\ (~Buys => Kept)
<1>1. Init => Unanswered
  BY DEF Init, Unanswered
<1>2. Inv /\ Unanswered /\ [Next]_vars => [Keeps]_vars
  <2> SUFFICES ASSUME Inv, Unanswered, Next, cacheRow # None
               PROVE  cacheRow' # None /\ (~Buys => Kept)
    BY DEF vars
  <2> USE DEF Inv, Typed
  <2>1. ASSUME UNCHANGED cacheRow PROVE cacheRow' # None /\ Kept
    BY <2>1
  <2>2. ASSUME NEW c \in Calls, Succeeds(c) PROVE cacheRow' # None /\ Buys
    <3>1. cacheRow' \in Row /\ answer'[c] = Served(c, cacheRow', "READY", FALSE)
      BY <2>2, SuccessRow, FinishLeavesOthers
    <3>2. answer'[c].status = "READY"
      BY <3>1 DEF Served
    <3>3. answer[c].status = "NONE"
      BY <2>2 DEF Succeeds, Unanswered
    <3> QED
      BY <3>1, <3>2, <3>3, NoRowAssumption
  <2>3. ASSUME NEW c \in Calls, Fails(c) PROVE cacheRow' # None /\ Kept
    <3>1. cacheRow' = [cacheRow EXCEPT !.failureCount = Bump(@)] \/ UNCHANGED cacheRow
      BY <2>3 DEF Fails
    <3> QED
      BY <2>1, <3>1, FailureCounted, NoRowAssumption
  <2>4. ASSUME ~(\E c \in Calls : Succeeds(c) \/ Fails(c)) PROVE UNCHANGED cacheRow
    BY <2>4 DEF Next, Step, Fault, EditRows, Open, Decide, TakesLock, GeneratorReads,
                Crash, TimesOutWaiting, TimesOutPaying, OverrunEnds
  <2> QED
    BY <2>1, <2>2, <2>3, <2>4
<1>3. Keeps <=> (cacheRow # None =>
        /\ cacheRow' # None
        /\ (\A c \in Calls : answer'[c] = answer[c] \/ answer'[c].status # "READY") => Kept)
  OBVIOUS
<1> HIDE DEF Keeps
<1>4. Spec => [][Keeps]_vars
  BY <1>1, <1>2, CacheInvariant, NextUnanswered, PTL DEF Spec
<1> QED
  BY <1>3, <1>4, PTL DEF FailureKeepsTheAnswer, Keeps
=============================================================================
