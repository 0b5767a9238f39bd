--------------------------- MODULE StoredMetrics ---------------------------
(***************************************************************************)
(* The stored figures of one university: a row for each instructor and     *)
(* day, one for the university and day, one for each instructor and week,  *)
(* as rollupUniversityDaily derives them with computeAnalytics from the    *)
(* worklog, the leave and the departures, in transactions of their own.    *)
(* Whoever starts a rollup (scheduler or revoked leave) runs the same      *)
(* code.  Two may be under way at once: a revoked leave takes no lease,    *)
(* and a scheduled one may outlive its own (MetricsLease).                 *)
(*                                                                         *)
(* Dates are numbers; a date of the database and of a departure's instant  *)
(* is in UTC, the university's own date differs from it by one of          *)
(* ZoneShift.  Percentages, names and deliverables are left out, and the   *)
(* calendar does not change while the model runs.  A recomputation an      *)
(* admin asks for, of any range of dates, is left out.                     *)
(***************************************************************************)
EXTENDS Integers, FiniteSets, Functions

CONSTANTS
  Instructors,
  LastDate,      \* bound: the last date there is
  DaysPerWeek,   \* 7
  WorkingDates,  \* resolveWorkingDay, over every date
  Capacity,      \* minutes of a working day less its break
  Minutes,       \* what a saved day may add up to
  WindowDays,    \* ROLLUP_WINDOW_DAYS
  ZoneShift,     \* the university's date less the UTC date, at any hour
  Rollups,       \* rollups that may be under way at the same time
  Beginnings,    \* [leave, gone]: the leave there may be to begin with, and who may
                 \* have left before
  MaxEdits,      \* bound: changes to the data
  MaxRollups,    \* bound: rollups there are
  None

Dates == 0..LastDate
Week(d) == d \div DaysPerWeek
Weeks == {Week(d) : d \in Dates}
DatesOf(w) == {d \in Dates : Week(d) = w}

\* No date of departure, which is later than any date.
Never == LastDate + 2
NotLeft == [here |-> Never, utc |-> Never]
LongAgo == [here |-> -1, utc |-> -1]

\* What a day, or a sum of days, adds up to.
Figures == [capacity : Nat, productive : Nat, unutilized : Nat, missing : Nat, working : Nat]

ASSUME MetricsAssumption ==
  /\ IsFiniteSet(Instructors)
  /\ LastDate \in Nat /\ WindowDays \in Nat /\ MaxEdits \in Nat /\ MaxRollups \in Nat
  /\ DaysPerWeek \in Nat \ {0}
  /\ WorkingDates \subseteq Dates
  /\ Capacity \in Nat
  /\ Minutes \subseteq Nat
  /\ ZoneShift \subseteq -1..1
  /\ Beginnings \subseteq [leave : SUBSET (Instructors \X Dates), gone : SUBSET Instructors]
  /\ None \notin Nat \cup Figures \cup Rollups

VARIABLES
  today,    \* the UTC date
  worked,   \* WorklogEntry.workingMinutes, or None
  leave,    \* approved leave
  active,   \* User.isActive
  left,     \* User.deletedAt: its date here and in UTC
  edits,
  day,      \* InstructorDailyMetric
  uni,      \* UniversityDailyMetric
  week,     \* InstructorWeeklyMetric
  at,       \* each rollup: its next step
  span,     \* ... the dates it covers
  staff,    \* ... whom it measures, and until when
  rows,     \* ... the rows it has computed
  todo,     \* ... whose rows, or which weeks, are still to be written
  sums,     \* ... the sums of the week it has read
  begun,    \* how many have begun
  rolled,   \* history: a rollup of today's window has ended today
  owedDays,  \* history: dates written for instructors and not yet summed in full
  owedWeeks, \* history: weeks of instructors with days written, not yet summed
  ahead,     \* history: dates recorded before they came, or of who had left
  crossed,   \* history: the rows others have written since each rollup read
  contested, \* history: dates written by a rollup others had crossed
  dropped    \* history: dates with rows of somebody who may not be summed again

data == <<today, worked, leave, active, left, edits>>
tables == <<day, uni, week>>
job == <<at, span, staff, rows, todo, sums, begun>>
owed == <<owedDays, owedWeeks, crossed, contested>>
vars == <<data, tables, job, rolled, owed, ahead, dropped>>

-----------------------------------------------------------------------------
(***************************************************************************)
(* The figures of a day.                                                   *)
(***************************************************************************)
\* Slip: hours are kept to one decimal.
OneDecimal(m) == 10 * ((10 * m + 30) \div 60)

\* round: minutes as hundredths of an hour ...
RoundedHours(m) == (100 * m + 30) \div 60

\* ... and toMinutes: back again.
ToMinutes(h) == (60 * h + 50) \div 100

Stored(m) == ToMinutes(RoundedHours(m))

AtLeastZero(n) == IF n < 0 THEN 0 ELSE n

NoMinutes == [capacity |-> 0, productive |-> 0, unutilized |-> 0, missing |-> 0, working |-> 0]

\* A day off, of leave or after the last day: nothing is expected of it, and
\* what was worked counts all the same.
IdleRow(m) == [NoMinutes EXCEPT !.productive = Stored(m)]

\* Nothing recorded is missing data; what was recorded leaves the rest unused.
WorkingRow(entry) ==
  IF entry = None
  THEN [capacity |-> Stored(Capacity), productive |-> 0, unutilized |-> 0,
        missing |-> Stored(Capacity), working |-> 1]
  ELSE [capacity |-> Stored(Capacity), productive |-> Stored(entry),
        unutilized |-> Stored(AtLeastZero(Capacity - entry)), missing |-> 0, working |-> 1]

DayRow(i, d, lastDay) ==
  IF d \in WorkingDates /\ <<i, d>> \notin leave /\ d <= lastDay
  THEN WorkingRow(worked[i][d])
  ELSE IdleRow(IF worked[i][d] = None THEN 0 ELSE worked[i][d])

Plus(a, b) ==
  [capacity |-> a.capacity + b.capacity, productive |-> a.productive + b.productive,
   unutilized |-> a.unutilized + b.unutilized, missing |-> a.missing + b.missing,
   working |-> a.working + b.working]

Total(figures) == FoldFunction(Plus, NoMinutes, figures)

\* The stored days of a week, as the weekly rollup finds them.
StoredDays(i, w) == {d \in DatesOf(w) : day[i][d] # None}
SumOfDays(i, w) == Total([d \in StoredDays(i, w) |-> day[i][d]])

\* Whoever has a stored row of a date.
Measured(d) == {i \in Instructors : day[i][d] # None}

-----------------------------------------------------------------------------
Init ==
  /\ today = 0
  /\ worked = [i \in Instructors |-> [d \in Dates |-> None]]
  /\ \E begin \in Beginnings :
       /\ leave = begin.leave
       /\ active = Instructors \ begin.gone
       /\ left = [i \in Instructors |-> IF i \in begin.gone THEN LongAgo ELSE NotLeft]
  /\ edits = 0
  /\ day = [i \in Instructors |-> [d \in Dates |-> None]]
  /\ uni = [d \in Dates |-> None]
  /\ week = [i \in Instructors |-> [w \in Weeks |-> None]]
  /\ at = [r \in Rollups |-> "idle"]
  /\ span = [r \in Rollups |-> {}]
  /\ staff = [r \in Rollups |-> <<>>]
  /\ rows = [r \in Rollups |-> <<>>]
  /\ todo = [r \in Rollups |-> {}]
  /\ sums = [r \in Rollups |-> <<>>]
  /\ begun = 0
  /\ rolled = FALSE
  /\ owedDays = {}
  /\ owedWeeks = {}
  /\ ahead = {}
  /\ crossed = [r \in Rollups |-> {}]
  /\ contested = {}
  /\ dropped = {}

-----------------------------------------------------------------------------
(***************************************************************************)
(* What happens to the data.                                               *)
(***************************************************************************)
Edits == edits < MaxEdits /\ edits' = edits + 1

\* POST worklog/entry, and DELETE (None): nothing is recomputed.  An instructor
\* records what has come, a manager any date, and of whoever has left too.
SaveDay(i, d, m) ==
  /\ Edits
  /\ worked[i][d] # m
  /\ worked' = [worked EXCEPT ![i][d] = m]
  /\ ahead' = IF i \in active /\ left[i].utc = Never /\ d <= today THEN ahead ELSE ahead \cup {d}
  /\ UNCHANGED <<today, leave, active, left, tables, job, rolled, owed, dropped>>

\* POST leave, approved: nothing is recomputed.
GrantLeave(i, d) ==
  /\ Edits
  /\ <<i, d>> \notin leave
  /\ leave' = leave \cup {<<i, d>>}
  /\ UNCHANGED <<today, worked, active, left, tables, job, rolled, owed, ahead, dropped>>

\* PATCH staff: leaving, and coming back.  Who leaves on a date that has not come
\* in UTC is measured until the date before, and their last day is dropped.
Departs(i) ==
  /\ Edits
  /\ i \in active
  /\ active' = active \ {i}
  /\ \E s \in ZoneShift :
       /\ left' = [left EXCEPT ![i] = [here |-> today + s, utc |-> today]]
       /\ dropped' = IF s > 0 THEN dropped \cup {today + s} ELSE dropped
  /\ UNCHANGED <<today, worked, leave, tables, job, rolled, owed, ahead>>

Returns(i) ==
  /\ Edits
  /\ i \notin active
  /\ active' = active \cup {i}
  /\ left' = [left EXCEPT ![i] = NotLeft]
  /\ UNCHANGED <<today, worked, leave, tables, job, rolled, owed, ahead, dropped>>

\* An import sets isActive and leaves deletedAt alone, either way.
ImportSets(i) ==
  /\ Edits
  /\ active' = IF i \in active THEN active \ {i} ELSE active \cup {i}
  /\ UNCHANGED <<today, worked, leave, left, tables, job, rolled, owed, ahead, dropped>>

\* The scheduler ticks every hour: no day ends without a rollup of its window.
NextDay ==
  /\ rolled
  /\ today + 1 < LastDate
  /\ today' = today + 1
  /\ rolled' = FALSE
  /\ UNCHANGED <<worked, leave, active, left, edits, tables, job, owed, ahead, dropped>>

-----------------------------------------------------------------------------
(***************************************************************************)
(* The rollup.                                                             *)
(***************************************************************************)
Goto(r, step) == at' = [at EXCEPT ![r] = step]

Begins(r, dates) ==
  /\ at[r] = "idle"
  /\ begun < MaxRollups
  /\ begun' = begun + 1
  /\ Goto(r, "staff")
  /\ span' = [span EXCEPT ![r] = dates]
  /\ UNCHANGED <<tables, staff, rows, todo, sums, rolled, owed, ahead>>

\* trailingWindow: the last days, and a day ahead for universities east of UTC.
TrailingWindow == {d \in Dates : today - WindowDays <= d /\ d <= today + 1}

Scheduled(r) == Begins(r, TrailingWindow) /\ UNCHANGED <<data, dropped>>

\* DELETE leave, and recomputeDay of the day it covered: one that has not come by
\* tomorrow is dropped, for whoever leaves before it is not measured on it again.
RevokesLeave(r, i, d) ==
  /\ <<i, d>> \in leave
  /\ leave' = leave \ {<<i, d>>}
  /\ Begins(r, {d})
  /\ dropped' = IF d <= today + 1 THEN dropped ELSE dropped \cup {d}
  /\ Edits
  /\ UNCHANGED <<today, worked, active, left>>

\* Slip: whoever has left is not measured any more.
StillWorks(i, from) == i \in active

\* Whoever works here, or left on or after the first date.  Nobody else, and so
\* nobody an import has deactivated: their departure has no date.
IsMeasured(i, from) == i \in active \/ (left[i].utc # Never /\ left[i].utc >= from)

\* The dates whose rows another rollup has written since this one read.
CrossedDates(r) == {row[2] : row \in crossed[r]}

\* computeAnalytics reads whom it measures, with their departures ...
ReadsStaff(r) ==
  /\ at[r] = "staff"
  /\ LET from == CHOOSE d \in span[r] : \A e \in span[r] : d <= e
         who == {i \in Instructors : IsMeasured(i, from)}
         undated == {i \in Instructors \ active : left[i].utc = Never}
     IN  /\ staff' = [staff EXCEPT ![r] = [i \in who |-> left[i].here]]
         /\ dropped' = dropped \cup {d \in span[r] : Measured(d) \cap undated # {}}
  /\ Goto(r, "figures")
  /\ UNCHANGED <<begun, data, tables, span, rows, todo, sums, rolled, owed, ahead>>

\* ... then what they recorded and their leave.
Computes(r) ==
  /\ at[r] = "figures"
  /\ rows' = [rows EXCEPT ![r] = [i \in DOMAIN staff[r] |->
                                    [d \in span[r] |-> DayRow(i, d, staff[r][i])]]]
  /\ todo' = [todo EXCEPT ![r] = DOMAIN staff[r]]
  /\ staff' = [staff EXCEPT ![r] = <<>>]
  /\ Goto(r, "days")
  /\ UNCHANGED <<begun, data, tables, span, sums, rolled, owed, ahead, dropped>>

\* The rows of a day are written in chunks, each a transaction, over whatever
\* another rollup has written since this one read.
WritesDays(r, i) ==
  /\ at[r] = "days"
  /\ i \in todo[r]
  /\ day' = [day EXCEPT ![i] = [d \in Dates |-> IF d \in span[r] THEN rows[r][i][d] ELSE @[d]]]
  /\ todo' = [todo EXCEPT ![r] = @ \ {i}]
  /\ owedDays' = owedDays \cup span[r]
  /\ owedWeeks' = owedWeeks \cup {<<i, Week(d)>> : d \in span[r]}
  /\ crossed' = [q \in Rollups |->
                   IF q # r /\ at[q] \notin {"idle", "weeks"}
                   THEN crossed[q] \cup ({i} \X span[r]) ELSE crossed[q]]
  /\ contested' = contested \cup (span[r] \cap CrossedDates(r))
  /\ UNCHANGED <<begun, data, uni, week, at, span, staff, rows, sums, rolled, ahead, dropped>>

\* History.  The sum of a date is the sum of its rows when no other rollup wrote
\* any of them meanwhile and whoever has a row was measured.  A window leaves out
\* those who left before it: their rows are of no consequence, unless rollups
\* crossed on the date.  A recomputed date is measured by itself and leaves out
\* whoever left before it, though a window may have stored a row of theirs.
SummedInFull(r, d) ==
  /\ DOMAIN rows[r] # {}
  /\ d \notin CrossedDates(r)
  /\ \/ Measured(d) \subseteq DOMAIN rows[r]
     \/ span[r] = TrailingWindow /\ d \notin contested

\* The university's rows are the sums of the rows just computed; of nobody, none.
WritesUniversity(r) ==
  /\ at[r] = "days"
  /\ todo[r] = {}
  /\ uni' = [d \in Dates |->
               IF d \in span[r] /\ DOMAIN rows[r] # {}
               THEN Total([i \in DOMAIN rows[r] |-> rows[r][i][d]])
               ELSE uni[d]]
  /\ owedDays' = (owedDays \cup (span[r] \cap CrossedDates(r))) \ {d \in span[r] : SummedInFull(r, d)}
  /\ contested' = contested \ {d \in span[r] : SummedInFull(r, d)}
  /\ rows' = [rows EXCEPT ![r] = <<>>]
  /\ todo' = [todo EXCEPT ![r] = {Week(d) : d \in span[r]}]
  /\ crossed' = [crossed EXCEPT ![r] = {}]
  /\ Goto(r, "weeks")
  /\ UNCHANGED <<begun, data, day, week, span, staff, sums, rolled, owedWeeks, ahead, dropped>>

\* Slip: only the days of the window are summed.
WeekInSpan(r, w) ==
  [i \in {j \in Instructors : StoredDays(j, w) # {}} |->
     Total([d \in StoredDays(i, w) \cap span[r] |-> day[i][d]])]

\* Every week touched is read in full ...
WeekInFull(r, w) ==
  [i \in {j \in Instructors : StoredDays(j, w) # {}} |-> SumOfDays(i, w)]

ReadsWeek(r, w) ==
  /\ at[r] = "weeks"
  /\ w \in todo[r]
  /\ \A v \in todo[r] : w <= v
  /\ sums' = [sums EXCEPT ![r] = WeekInFull(r, w)]
  /\ Goto(r, "sums")
  /\ UNCHANGED <<begun, data, tables, span, staff, rows, todo, rolled, owed, ahead, dropped>>

\* Whose days of the week another rollup has written since this one read it.
CrossedIn(r, w) == {i \in Instructors : \E d \in DatesOf(w) : <<i, d>> \in crossed[r]}

\* ... and written in one transaction.
WritesWeek(r, w) ==
  /\ at[r] = "sums"
  /\ w \in todo[r]
  /\ \A v \in todo[r] : w <= v
  /\ week' = [i \in Instructors |->
                IF i \in DOMAIN sums[r] THEN [week[i] EXCEPT ![w] = sums[r][i]] ELSE week[i]]
  /\ owedWeeks' = (owedWeeks \ (Instructors \X {w})) \cup (CrossedIn(r, w) \X {w})
  /\ crossed' = [crossed EXCEPT ![r] = {}]
  /\ sums' = [sums EXCEPT ![r] = <<>>]
  /\ todo' = [todo EXCEPT ![r] = @ \ {w}]
  /\ Goto(r, "weeks")
  /\ UNCHANGED <<begun, data, day, uni, span, staff, rows, rolled, owedDays, contested, ahead, dropped>>

Ends(r) ==
  /\ at[r] = "weeks"
  /\ todo[r] = {}
  /\ rolled' = (rolled \/ span[r] = TrailingWindow)
  /\ Goto(r, "idle")
  /\ span' = [span EXCEPT ![r] = {}]
  /\ UNCHANGED <<begun, data, tables, staff, rows, todo, sums, owed, ahead, dropped>>

\* A query fails or the process dies: what is written stays.
Dies(r) ==
  /\ at[r] # "idle"
  /\ Goto(r, "idle")
  /\ span' = [span EXCEPT ![r] = {}]
  /\ staff' = [staff EXCEPT ![r] = <<>>]
  /\ rows' = [rows EXCEPT ![r] = <<>>]
  /\ todo' = [todo EXCEPT ![r] = {}]
  /\ sums' = [sums EXCEPT ![r] = <<>>]
  /\ crossed' = [crossed EXCEPT ![r] = {}]
  /\ UNCHANGED <<begun, data, tables, rolled, owedDays, owedWeeks, contested, ahead, dropped>>

Edit(i, d) ==
  \/ \E m \in Minutes \cup {None} : SaveDay(i, d, m)
  \/ GrantLeave(i, d)

Rolls(r) ==
  \/ Scheduled(r) \/ ReadsStaff(r) \/ Computes(r)
  \/ \E i \in Instructors : WritesDays(r, i) \/ \E d \in Dates : RevokesLeave(r, i, d)
  \/ WritesUniversity(r)
  \/ \E w \in Weeks : ReadsWeek(r, w) \/ WritesWeek(r, w)
  \/ Ends(r) \/ Dies(r)

Next ==
  \/ \E i \in Instructors : Departs(i) \/ Returns(i) \/ ImportSets(i) \/ \E d \in Dates : Edit(i, d)
  \/ \E r \in Rollups : Rolls(r)
  \/ NextDay

Spec == Init /\ [][Next]_vars

-----------------------------------------------------------------------------
(***************************************************************************)
(* Properties.                                                             *)
(***************************************************************************)
Least(a, b) == IF a < b THEN a ELSE b

\* The minutes of a stored working day are all accounted for: what was worked
\* within its capacity, what was left unused and what is unknown make up the
\* capacity, through two roundings (round in the engine, toMinutes in the rollup).
DaysAddUp ==
  \A i \in Instructors, d \in Dates :
    day[i][d] # None /\ day[i][d].working = 1 =>
      LET row == day[i][d]
      IN  row.capacity = row.unutilized + row.missing + Least(row.productive, row.capacity)

SumOfRows(d) == Total([i \in Measured(d) |-> day[i][d]])
Expected(row) == [row EXCEPT !.productive = 0]

\* The university's day is the sum of its instructors' stored days, whoever left
\* or came back meanwhile and wherever a rollup died, once a rollup that no other
\* crossed has written the university's rows (rollup.ts: "the university total is
\* by construction the sum of its instructors", "history stops moving").  The
\* code leaves out of the total whose row stays: somebody an import deactivated,
\* the last day of somebody who left ahead of UTC, a date recomputed long before
\* it came (dropped).  Work recorded ahead of its date, or of somebody who had
\* left, may stay in the row alone; what was expected adds up even then.
UniversityIsItsInstructors ==
  \A d \in Dates \ (owedDays \cup dropped) :
    Measured(d) # {} =>
      /\ uni[d] # None
      /\ Expected(uni[d]) = Expected(SumOfRows(d))
      /\ d \notin ahead => uni[d] = SumOfRows(d)

\* A stored week is the sum of its stored days, whichever of them the rollups
\* rewrote, once one that read the week after them has written it (rollup.ts:
\* "Summing the dailies guarantees week = sum(its days) by construction").  A
\* rollup that read before another wrote, and writes after, leaves it owed.
WeekIsItsDays ==
  \A i \in Instructors, w \in Weeks :
    <<i, w>> \notin owedWeeks /\ StoredDays(i, w) # {} => week[i][w] = SumOfDays(i, w)
=============================================================================
