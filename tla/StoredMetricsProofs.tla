------------------------ MODULE StoredMetricsProofs ------------------------
(***************************************************************************)
(* Proofs about the stored figures, however many rollups are under way and *)
(* wherever they die: minutes survive the two roundings, the minutes of a  *)
(* stored day are all accounted for, a week is the sum of its days once a  *)
(* rollup has summed them with no other writing beside it, and a total is  *)
(* the sum of the rows as they stand when it is written.                   *)
(***************************************************************************)
EXTENDS StoredMetrics, TLAPS

-----------------------------------------------------------------------------
USE MetricsAssumption

(***************************************************************************)
(* Minutes, hundredths of an hour and back.                                *)
(***************************************************************************)
\* A whole number of minutes survives round to hundredths of an hour and
\* toMinutes back: what is saved is what was recorded.
THEOREM StoredIsExact == ASSUME NEW m \in Nat PROVE Stored(m) = m
BY SMT DEF Stored, ToMinutes, RoundedHours

Row == [capacity : Nat, productive : Nat, unutilized : Nat, missing : Nat, working : {0, 1}]

Accounted(row) ==
  row.working = 1 =>
    row.capacity = row.unutilized + row.missing + Least(row.productive, row.capacity)

GoodRow == {row \in Row : Accounted(row)}

\* The row computed for any day accounts for its minutes.
LEMMA WorkingRowIsGood ==
  ASSUME NEW entry \in Nat \cup {None}
  PROVE  WorkingRow(entry) \in GoodRow
<1>1. CASE entry = None
  <2>1. Stored(Capacity) = Capacity
    BY StoredIsExact
  <2>2. WorkingRow(entry) = [capacity |-> Capacity, productive |-> 0, unutilized |-> 0,
                             missing |-> Capacity, working |-> 1]
    BY <1>1, <2>1 DEF WorkingRow
  <2> QED BY <2>2 DEF GoodRow, Row, Accounted, Least
<1>2. CASE entry # None
  <2> DEFINE u == AtLeastZero(Capacity - entry)
  <2>1. entry \in Nat
    BY <1>2
  <2>2. u \in Nat /\ Capacity = u + Least(entry, Capacity)
    BY <2>1 DEF AtLeastZero, Least
  <2>3. Stored(Capacity) = Capacity /\ Stored(entry) = entry /\ Stored(u) = u
    BY <2>1, <2>2, StoredIsExact
  <2>4. WorkingRow(entry) = [capacity |-> Capacity, productive |-> entry,
                             unutilized |-> u, missing |-> 0, working |-> 1]
    BY <1>2, <2>3 DEF WorkingRow
  <2> HIDE DEF u
  <2> QED BY <2>1, <2>2, <2>4 DEF GoodRow, Row, Accounted, Least
<1> QED BY <1>1, <1>2

LEMMA IdleRowIsGood ==
  ASSUME NEW m \in Nat
  PROVE  IdleRow(m) \in GoodRow
<1>1. Stored(m) = m
  BY StoredIsExact
<1>2. IdleRow(m) = [capacity |-> 0, productive |-> m, unutilized |-> 0, missing |-> 0,
                    working |-> 0]
  BY <1>1 DEF IdleRow, NoMinutes
<1> QED BY <1>2 DEF GoodRow, Row, Accounted

Worked == worked \in [Instructors -> [Dates -> Nat \cup {None}]]

LEMMA DayRowIsGood ==
  ASSUME Worked, NEW i \in Instructors, NEW d \in Dates, NEW lastDay
  PROVE  DayRow(i, d, lastDay) \in GoodRow
<1>1. worked[i][d] \in Nat \cup {None}
  BY DEF Worked
<1>2. CASE d \in WorkingDates /\ <<i, d>> \notin leave /\ d <= lastDay
  BY <1>1, <1>2, WorkingRowIsGood DEF DayRow
<1>3. CASE ~(d \in WorkingDates /\ <<i, d>> \notin leave /\ d <= lastDay)
  <2> DEFINE m == IF worked[i][d] = None THEN 0 ELSE worked[i][d]
  <2>1. m \in Nat
    BY <1>1
  <2>2. DayRow(i, d, lastDay) = IdleRow(m)
    BY <1>3 DEF DayRow
  <2> HIDE DEF m
  <2> QED BY <2>1, <2>2, IdleRowIsGood
<1> QED BY <1>2, <1>3

-----------------------------------------------------------------------------
(***************************************************************************)
(* What is written is what was computed.                                   *)
(***************************************************************************)
Steps == {"idle", "staff", "figures", "days", "weeks", "sums"}

Days == day \in [Instructors -> [Dates -> GoodRow \cup {None}]]

Jobs ==
  /\ at \in [Rollups -> Steps]
  /\ span \in [Rollups -> SUBSET Dates]
  /\ DOMAIN staff = Rollups
  /\ DOMAIN rows = Rollups
  /\ DOMAIN todo = Rollups

\* Whoever is measured is an instructor ...
StaffWorksHere == \A r \in Rollups : at[r] = "figures" => DOMAIN staff[r] \subseteq Instructors

\* ... and the rows under way are theirs, for every date covered.
RowsAreGood ==
  \A r \in Rollups :
    at[r] = "days" =>
      /\ rows[r] \in [DOMAIN rows[r] -> [span[r] -> GoodRow]]
      /\ DOMAIN rows[r] \subseteq Instructors
      /\ todo[r] \subseteq DOMAIN rows[r]

RowInv == Worked /\ Days /\ Jobs /\ StaffWorksHere /\ RowsAreGood

LEMMA RowInvInit == Init => RowInv
BY DEF Init, RowInv, Worked, Days, Jobs, Steps, StaffWorksHere, RowsAreGood

LEMMA RowInvGivesDays == RowInv => DaysAddUp
BY DEF RowInv, Days, DaysAddUp, GoodRow, Accounted, Row

-----------------------------------------------------------------------------
(***************************************************************************)
(* Each step keeps RowInv.                                                 *)
(***************************************************************************)
\* The steps that only touch the data.
DataStep == UNCHANGED <<tables, job>>

LEMMA RowInvData ==
  ASSUME RowInv, DataStep, Worked'
  PROVE  RowInv'
BY DEF RowInv, DataStep, tables, job, Worked, Days, Jobs, StaffWorksHere, RowsAreGood

LEMMA RowInvEdits ==
  ASSUME RowInv,
         NEW i \in Instructors,
         Departs(i) \/ Returns(i) \/ ImportSets(i) \/ \E d \in Dates : Edit(i, d)
  PROVE  RowInv'
<1>1. CASE \E d \in Dates : \E m \in Minutes \cup {None} : SaveDay(i, d, m)
  <2>1. PICK d \in Dates, m \in Minutes \cup {None} : SaveDay(i, d, m)
    BY <1>1
  <2>2. worked' = [worked EXCEPT ![i][d] = m] /\ DataStep
    BY <2>1 DEF SaveDay, DataStep
  <2>3. Worked'
    BY <2>2 DEF RowInv, Worked
  <2> QED BY <2>2, <2>3, RowInvData
<1>2. CASE Departs(i) \/ Returns(i) \/ ImportSets(i) \/ \E d \in Dates : GrantLeave(i, d)
  <2>1. worked' = worked /\ DataStep
    BY <1>2 DEF Departs, Returns, ImportSets, GrantLeave, DataStep
  <2>2. Worked'
    BY <2>1 DEF RowInv, Worked
  <2> QED BY <2>1, <2>2, RowInvData
<1> QED BY <1>1, <1>2 DEF Edit

LEMMA RowInvNextDay ==
  ASSUME RowInv, NextDay
  PROVE  RowInv'
<1>1. worked' = worked /\ DataStep
  BY DEF NextDay, DataStep
<1>2. Worked'
  BY <1>1 DEF RowInv, Worked
<1> QED BY <1>1, <1>2, RowInvData

LEMMA RowInvBegins ==
  ASSUME RowInv, NEW r \in Rollups, NEW dates \in SUBSET Dates, Begins(r, dates),
         worked' = worked
  PROVE  RowInv'
<1>1. /\ at' = [at EXCEPT ![r] = "staff"]
      /\ span' = [span EXCEPT ![r] = dates]
      /\ day' = day /\ staff' = staff /\ rows' = rows /\ todo' = todo
  BY DEF Begins, Goto, tables
<1>2. Worked' /\ Days' /\ Jobs'
  BY <1>1 DEF RowInv, Worked, Days, Jobs, Steps
<1>3. StaffWorksHere' /\ RowsAreGood'
  BY <1>1 DEF RowInv, Jobs, StaffWorksHere, RowsAreGood
<1> QED BY <1>2, <1>3 DEF RowInv

LEMMA RowInvReadsStaff ==
  ASSUME RowInv, NEW r \in Rollups, ReadsStaff(r)
  PROVE  RowInv'
<1>1. PICK from, who \in SUBSET Instructors :
        /\ at' = [at EXCEPT ![r] = "figures"]
        /\ staff' = [staff EXCEPT ![r] = [i \in who |-> left[i].here]]
        /\ worked' = worked /\ day' = day /\ span' = span /\ rows' = rows /\ todo' = todo
  <2> DEFINE from == CHOOSE d \in span[r] : \A e \in span[r] : d <= e
             who == {i \in Instructors : IsMeasured(i, from)}
  <2>1. who \in SUBSET Instructors
    OBVIOUS
  <2> QED BY <2>1 DEF ReadsStaff, Goto, data, tables
<1>2. Worked' /\ Days' /\ Jobs'
  BY <1>1 DEF RowInv, Worked, Days, Jobs, Steps
<1>3. StaffWorksHere' /\ RowsAreGood'
  BY <1>1 DEF RowInv, Jobs, StaffWorksHere, RowsAreGood
<1> QED BY <1>2, <1>3 DEF RowInv

LEMMA RowInvComputes ==
  ASSUME RowInv, NEW r \in Rollups, Computes(r)
  PROVE  RowInv'
<1> DEFINE new == [i \in DOMAIN staff[r] |-> [d \in span[r] |-> DayRow(i, d, staff[r][i])]]
<1>1. /\ at[r] = "figures"
      /\ at' = [at EXCEPT ![r] = "days"]
      /\ rows' = [rows EXCEPT ![r] = new]
      /\ todo' = [todo EXCEPT ![r] = DOMAIN staff[r]]
      /\ staff' = [staff EXCEPT ![r] = <<>>]
      /\ worked' = worked /\ day' = day /\ span' = span
  BY DEF Computes, Goto, data, tables
<1>2. DOMAIN staff[r] \subseteq Instructors /\ span[r] \subseteq Dates
  BY <1>1 DEF RowInv, StaffWorksHere, Jobs
<1>3. DOMAIN new = DOMAIN staff[r]
  OBVIOUS
<1>4. \A i \in DOMAIN staff[r], d \in span[r] : DayRow(i, d, staff[r][i]) \in GoodRow
  BY <1>2, DayRowIsGood DEF RowInv
<1>5. new \in [DOMAIN new -> [span[r] -> GoodRow]]
  BY <1>4
<1> HIDE DEF new
<1>6. Worked' /\ Days' /\ Jobs'
  BY <1>1 DEF RowInv, Worked, Days, Jobs, Steps
<1>7. StaffWorksHere'
  BY <1>1 DEF RowInv, Jobs, StaffWorksHere
<1>8. RowsAreGood'
  BY <1>1, <1>2, <1>3, <1>5 DEF RowInv, Jobs, RowsAreGood
<1> QED BY <1>6, <1>7, <1>8 DEF RowInv

LEMMA RowInvWritesDays ==
  ASSUME RowInv, NEW r \in Rollups, NEW i \in Instructors, WritesDays(r, i)
  PROVE  RowInv'
<1> DEFINE new == [d \in Dates |-> IF d \in span[r] THEN rows[r][i][d] ELSE day[i][d]]
<1>1. /\ at[r] = "days" /\ i \in todo[r]
      /\ day' = [day EXCEPT ![i] = new]
      /\ todo' = [todo EXCEPT ![r] = todo[r] \ {i}]
      /\ worked' = worked /\ at' = at /\ span' = span /\ staff' = staff /\ rows' = rows
  BY DEF WritesDays, data, RowInv, Jobs, Days
<1>2. \A d \in span[r] : rows[r][i][d] \in GoodRow
  BY <1>1 DEF RowInv, RowsAreGood
<1>3. new \in [Dates -> GoodRow \cup {None}]
  BY <1>2 DEF RowInv, Days
<1> HIDE DEF new
<1>4. Worked' /\ Days' /\ Jobs' /\ StaffWorksHere'
  BY <1>1, <1>3 DEF RowInv, Worked, Days, Jobs, StaffWorksHere
<1>5. RowsAreGood'
  BY <1>1 DEF RowInv, Jobs, RowsAreGood
<1> QED BY <1>4, <1>5 DEF RowInv

\* The steps of a rollup that leave the days alone and go where no rows are held.
PassesBy(r) ==
  /\ worked' = worked /\ day' = day
  /\ \E step \in Steps \ {"figures", "days"} : at' = [at EXCEPT ![r] = step]
  /\ span' = span \/ span' = [span EXCEPT ![r] = {}]
  /\ DOMAIN staff' = Rollups /\ DOMAIN rows' = Rollups /\ DOMAIN todo' = Rollups
  /\ \A q \in Rollups \ {r} :
       staff'[q] = staff[q] /\ rows'[q] = rows[q] /\ todo'[q] = todo[q]

LEMMA RowInvPassesBy ==
  ASSUME RowInv, NEW r \in Rollups, PassesBy(r)
  PROVE  RowInv'
<1>1. Worked' /\ Days' /\ Jobs'
  BY DEF PassesBy, RowInv, Worked, Days, Jobs
<1>2. StaffWorksHere'
  BY DEF PassesBy, RowInv, Jobs, StaffWorksHere
<1>3. RowsAreGood'
  <2> SUFFICES ASSUME NEW q \in Rollups, at'[q] = "days"
               PROVE  /\ rows'[q] \in [DOMAIN rows'[q] -> [span'[q] -> GoodRow]]
                      /\ DOMAIN rows'[q] \subseteq Instructors
                      /\ todo'[q] \subseteq DOMAIN rows'[q]
    BY DEF RowsAreGood
  <2>1. q # r
    BY DEF PassesBy, RowInv, Jobs
  <2>2. at[q] = "days" /\ span'[q] = span[q] /\ rows'[q] = rows[q] /\ todo'[q] = todo[q]
    BY <2>1 DEF PassesBy, RowInv, Jobs
  <2> QED BY <2>2 DEF RowInv, RowsAreGood
<1> QED BY <1>1, <1>2, <1>3 DEF RowInv

LEMMA RowInvLater ==
  ASSUME RowInv, NEW r \in Rollups,
         WritesUniversity(r) \/ Ends(r) \/ Dies(r)
           \/ \E w \in Weeks : ReadsWeek(r, w) \/ WritesWeek(r, w)
  PROVE  RowInv'
<1>1. CASE WritesUniversity(r)
  <2>1. PassesBy(r)
    BY <1>1 DEF WritesUniversity, Goto, data, PassesBy, Steps, RowInv, Jobs
  <2> QED BY <2>1, RowInvPassesBy
<1>2. CASE Ends(r)
  <2>1. PassesBy(r)
    BY <1>2 DEF Ends, Goto, data, tables, PassesBy, Steps, RowInv, Jobs
  <2> QED BY <2>1, RowInvPassesBy
<1>3. CASE Dies(r)
  <2>1. PassesBy(r)
    BY <1>3 DEF Dies, Goto, data, tables, PassesBy, Steps, RowInv, Jobs
  <2> QED BY <2>1, RowInvPassesBy
<1>4. CASE \E w \in Weeks : ReadsWeek(r, w)
  <2>1. PassesBy(r)
    BY <1>4 DEF ReadsWeek, Goto, data, tables, PassesBy, Steps, RowInv, Jobs
  <2> QED BY <2>1, RowInvPassesBy
<1>5. CASE \E w \in Weeks : WritesWeek(r, w)
  <2>1. PassesBy(r)
    BY <1>5 DEF WritesWeek, Goto, data, PassesBy, Steps, RowInv, Jobs
  <2> QED BY <2>1, RowInvPassesBy
<1> QED BY <1>1, <1>2, <1>3, <1>4, <1>5

LEMMA RowInvRolls ==
  ASSUME RowInv, NEW r \in Rollups, Rolls(r)
  PROVE  RowInv'
<1>1. CASE Scheduled(r)
  <2>1. TrailingWindow \in SUBSET Dates /\ Begins(r, TrailingWindow) /\ worked' = worked
    BY <1>1 DEF Scheduled, TrailingWindow, data
  <2> QED BY <2>1, RowInvBegins
<1>2. CASE \E i \in Instructors, d \in Dates : RevokesLeave(r, i, d)
  <2>1. PICK i \in Instructors, d \in Dates : Begins(r, {d}) /\ worked' = worked
    BY <1>2 DEF RevokesLeave
  <2> QED BY <2>1, RowInvBegins
<1> QED
  BY <1>1, <1>2, RowInvReadsStaff, RowInvComputes, RowInvWritesDays, RowInvLater DEF Rolls

LEMMA RowInvNext == RowInv /\ [Next]_vars => RowInv'
<1>1. ASSUME RowInv, UNCHANGED vars PROVE RowInv'
  <2>1. DataStep /\ worked' = worked
    BY <1>1 DEF vars, data, DataStep
  <2>2. Worked'
    BY <1>1, <2>1 DEF RowInv, Worked
  <2> QED BY <1>1, <2>1, <2>2, RowInvData
<1>2. ASSUME RowInv, Next PROVE RowInv'
  BY <1>2, RowInvEdits, RowInvRolls, RowInvNextDay DEF Next
<1> QED BY <1>1, <1>2

\* The minutes of every stored day are accounted for, whatever the capacity, the
\* hours saved, the leave, the departures and the order of the rollups' steps,
\* overlapping or cut short.
THEOREM DaysAddUpTheorem == Spec => []DaysAddUp
<1>1. Init => RowInv
  BY RowInvInit
<1>2. RowInv /\ [Next]_vars => RowInv'
  BY RowInvNext
<1>3. RowInv => DaysAddUp
  BY RowInvGivesDays
<1> QED BY <1>1, <1>2, <1>3, PTL DEF Spec


-----------------------------------------------------------------------------
(***************************************************************************)
(* A week is the sum of its days: what a rollup has read of a week is what *)
(* is there when it writes it, but for the instructors whose days another  *)
(* rollup has written meanwhile.                                           *)
(***************************************************************************)
WeekTables ==
  /\ DOMAIN sums = Rollups
  /\ DOMAIN crossed = Rollups
  /\ DOMAIN week = Instructors
  /\ \A i \in Instructors : DOMAIN week[i] = Weeks

First(r, w) == w \in todo[r] /\ \A v \in todo[r] : w <= v

\* The sum read of an instructor's week is that of the days stored now.
Current(r, i, w) ==
  StoredDays(i, w) # {} => i \in DOMAIN sums[r] /\ sums[r][i] = SumOfDays(i, w)

SumsAreCurrent ==
  \A r \in Rollups, w \in Weeks :
    at[r] = "sums" /\ First(r, w) =>
      \A i \in Instructors \ CrossedIn(r, w) : Current(r, i, w)

WeekInv == RowInv /\ WeekTables /\ SumsAreCurrent /\ WeekIsItsDays

LEMMA WeekInvInit == Init => WeekInv
<1> SUFFICES ASSUME Init PROVE WeekInv
  OBVIOUS
<1>1. RowInv
  BY RowInvInit
<1>2. WeekTables /\ SumsAreCurrent
  BY DEF Init, WeekTables, SumsAreCurrent
<1>3. \A i \in Instructors, w \in Weeks : StoredDays(i, w) = {}
  BY DEF Init, StoredDays, DatesOf
<1>4. WeekIsItsDays
  BY <1>3 DEF WeekIsItsDays
<1> QED BY <1>1, <1>2, <1>4 DEF WeekInv

\* A week none of whose days is written keeps its sum.
LEMMA SumStays ==
  ASSUME NEW i \in Instructors, NEW w \in Weeks,
         \A d \in DatesOf(w) : day'[i][d] = day[i][d]
  PROVE  StoredDays(i, w)' = StoredDays(i, w) /\ SumOfDays(i, w)' = SumOfDays(i, w)
<1>1. StoredDays(i, w)' = StoredDays(i, w)
  BY DEF StoredDays
<1>2. \A d \in StoredDays(i, w) : day'[i][d] = day[i][d]
  BY DEF StoredDays
<1>3. [d \in StoredDays(i, w)' |-> day'[i][d]] = [d \in StoredDays(i, w) |-> day[i][d]]
  BY <1>1, <1>2
<1> QED BY <1>1, <1>3 DEF SumOfDays

\* The steps that write no day, no week and no sum: what a rollup holds of a week
\* stays, and so does what others have written under it.
Quiet ==
  /\ UNCHANGED <<day, week, owedWeeks>>
  /\ DOMAIN sums' = Rollups /\ DOMAIN crossed' = Rollups
  /\ \A r \in Rollups : at'[r] = "sums" =>
       /\ at[r] = "sums" /\ todo'[r] = todo[r] /\ sums'[r] = sums[r]
       /\ crossed'[r] = crossed[r]

LEMMA WeekInvQuiet ==
  ASSUME WeekInv, Quiet, RowInv'
  PROVE  WeekInv'
<1>1. WeekTables'
  BY DEF WeekInv, WeekTables, Quiet
<1>2. SumsAreCurrent'
  <2> SUFFICES ASSUME NEW r \in Rollups, NEW w \in Weeks, at'[r] = "sums", First(r, w)',
                      NEW i \in Instructors, i \notin CrossedIn(r, w)'
               PROVE  Current(r, i, w)'
    BY DEF SumsAreCurrent
  <2>1. /\ at[r] = "sums" /\ First(r, w) /\ sums'[r] = sums[r]
        /\ i \notin CrossedIn(r, w)
    BY DEF Quiet, First, CrossedIn
  <2>2. Current(r, i, w)
    BY <2>1 DEF WeekInv, SumsAreCurrent
  <2> QED BY <2>1, <2>2, SumStays DEF Quiet, Current
<1>3. WeekIsItsDays'
  BY SumStays DEF WeekInv, WeekIsItsDays, Quiet
<1> QED BY <1>1, <1>2, <1>3 DEF WeekInv

\* Only the days written change, and only theirs is the week owed.
LEMMA WeekInvWritesDays ==
  ASSUME WeekInv, NEW r \in Rollups, NEW i \in Instructors, WritesDays(r, i), RowInv'
  PROVE  WeekInv'
<1>1. /\ at[r] = "days" /\ at' = at /\ week' = week /\ sums' = sums
      /\ \A q \in Rollups \ {r} : todo'[q] = todo[q]
      /\ day' = [day EXCEPT ![i] = [d \in Dates |-> IF d \in span[r] THEN rows[r][i][d]
                                                    ELSE day[i][d]]]
      /\ owedWeeks' = owedWeeks \cup {<<i, Week(d)>> : d \in span[r]}
      /\ DOMAIN crossed' = Rollups
      /\ \A q \in Rollups \ {r} :
           at[q] = "sums" => crossed'[q] = crossed[q] \cup ({i} \X span[r])
  BY DEF WritesDays, WeekInv, WeekTables, RowInv, Days, Jobs
<1>2. \A j \in Instructors, w \in Weeks :
        j # i \/ DatesOf(w) \cap span[r] = {} =>
          StoredDays(j, w)' = StoredDays(j, w) /\ SumOfDays(j, w)' = SumOfDays(j, w)
  <2> SUFFICES ASSUME NEW j \in Instructors, NEW w \in Weeks,
                      j # i \/ DatesOf(w) \cap span[r] = {}
               PROVE  \A d \in DatesOf(w) : day'[j][d] = day[j][d]
    BY SumStays
  <2>1. CASE j # i
    BY <1>1, <2>1 DEF WeekInv, RowInv, Days
  <2>2. CASE j = i
    <3>1. \A d \in DatesOf(w) : d \in Dates /\ d \notin span[r]
      BY <2>2 DEF DatesOf
    <3> QED BY <1>1, <2>2, <3>1 DEF WeekInv, RowInv, Days
  <2> QED BY <2>1, <2>2
<1>3. WeekTables'
  BY <1>1 DEF WeekInv, WeekTables
<1>4. SumsAreCurrent'
  <2> SUFFICES ASSUME NEW q \in Rollups, NEW w \in Weeks, at'[q] = "sums", First(q, w)',
                      NEW j \in Instructors, j \notin CrossedIn(q, w)'
               PROVE  Current(q, j, w)'
    BY DEF SumsAreCurrent
  <2>1. /\ at[q] = "sums" /\ q # r /\ First(q, w)
        /\ crossed'[q] = crossed[q] \cup ({i} \X span[r])
    BY <1>1 DEF First
  <2>2. j \notin CrossedIn(q, w)
    BY <2>1 DEF CrossedIn
  <2>3. j # i \/ DatesOf(w) \cap span[r] = {}
    BY <2>1 DEF CrossedIn
  <2>4. Current(q, j, w)
    BY <2>1, <2>2 DEF WeekInv, SumsAreCurrent
  <2> QED BY <1>1, <1>2, <2>3, <2>4 DEF Current
<1>5. WeekIsItsDays'
  <2> SUFFICES ASSUME NEW j \in Instructors, NEW w \in Weeks,
                      <<j, w>> \notin owedWeeks', StoredDays(j, w)' # {}
               PROVE  week'[j][w] = SumOfDays(j, w)'
    BY DEF WeekIsItsDays
  <2>1. j # i \/ DatesOf(w) \cap span[r] = {}
    BY <1>1 DEF DatesOf
  <2> QED BY <1>1, <1>2, <2>1 DEF WeekInv, WeekIsItsDays
<1> QED BY <1>3, <1>4, <1>5 DEF WeekInv

LEMMA WeekInvReadsWeek ==
  ASSUME WeekInv, NEW r \in Rollups, NEW w \in Weeks, ReadsWeek(r, w), RowInv'
  PROVE  WeekInv'
<1>1. /\ at[r] = "weeks" /\ First(r, w)
      /\ at' = [at EXCEPT ![r] = "sums"]
      /\ sums' = [sums EXCEPT ![r] = WeekInFull(r, w)]
      /\ day' = day /\ week' = week /\ todo' = todo
      /\ owedWeeks' = owedWeeks /\ crossed' = crossed
  BY DEF ReadsWeek, First, Goto, tables, owed
<1>2. WeekTables'
  BY <1>1 DEF WeekInv, WeekTables
<1>3. SumsAreCurrent'
  <2> SUFFICES ASSUME NEW q \in Rollups, NEW v \in Weeks, at'[q] = "sums", First(q, v)',
                      NEW i \in Instructors, i \notin CrossedIn(q, v)'
               PROVE  Current(q, i, v)'
    BY DEF SumsAreCurrent
  <2>1. First(q, v) /\ i \notin CrossedIn(q, v)
    BY <1>1 DEF First, CrossedIn
  <2>2. StoredDays(i, v)' = StoredDays(i, v) /\ SumOfDays(i, v)' = SumOfDays(i, v)
    BY <1>1, SumStays
  <2>3. CASE q = r
    <3>1. w \in Int /\ v \in Int
      BY DEF Weeks, Week, Dates
    <3>2. v = w
      BY <1>1, <2>1, <2>3, <3>1 DEF First
    <3>3. sums'[r] = WeekInFull(r, w)
      BY <1>1 DEF WeekInv, WeekTables
    <3> QED BY <2>2, <2>3, <3>2, <3>3 DEF Current, WeekInFull
  <2>4. CASE q # r
    <3>1. at[q] = "sums" /\ sums'[q] = sums[q]
      BY <1>1, <2>4 DEF WeekInv, WeekTables, RowInv, Jobs
    <3>2. Current(q, i, v)
      BY <2>1, <3>1 DEF WeekInv, SumsAreCurrent
    <3> QED BY <2>2, <3>1, <3>2 DEF Current
  <2> QED BY <2>3, <2>4
<1>4. WeekIsItsDays'
  BY <1>1, SumStays DEF WeekInv, WeekIsItsDays
<1> QED BY <1>2, <1>3, <1>4 DEF WeekInv

LEMMA WeekInvWritesWeek ==
  ASSUME WeekInv, NEW r \in Rollups, NEW w \in Weeks, WritesWeek(r, w), RowInv'
  PROVE  WeekInv'
<1>1. /\ at[r] = "sums" /\ First(r, w)
      /\ at' = [at EXCEPT ![r] = "weeks"]
      /\ sums' = [sums EXCEPT ![r] = <<>>]
      /\ crossed' = [crossed EXCEPT ![r] = {}]
      /\ todo' = [todo EXCEPT ![r] = todo[r] \ {w}]
      /\ week' = [i \in Instructors |->
                    IF i \in DOMAIN sums[r] THEN [week[i] EXCEPT ![w] = sums[r][i]] ELSE week[i]]
      /\ owedWeeks' = (owedWeeks \ (Instructors \X {w})) \cup (CrossedIn(r, w) \X {w})
      /\ day' = day
  BY DEF WritesWeek, First, Goto
<1>2. WeekTables'
  BY <1>1 DEF WeekInv, WeekTables
<1>3. SumsAreCurrent'
  <2> SUFFICES ASSUME NEW q \in Rollups, NEW v \in Weeks, at'[q] = "sums", First(q, v)',
                      NEW i \in Instructors, i \notin CrossedIn(q, v)'
               PROVE  Current(q, i, v)'
    BY DEF SumsAreCurrent
  <2>1. q # r /\ at[q] = "sums" /\ todo'[q] = todo[q] /\ sums'[q] = sums[q]
        /\ crossed'[q] = crossed[q]
    BY <1>1 DEF WeekInv, WeekTables, RowInv, Jobs
  <2>2. First(q, v) /\ i \notin CrossedIn(q, v)
    BY <2>1 DEF First, CrossedIn
  <2>3. Current(q, i, v)
    BY <2>1, <2>2 DEF WeekInv, SumsAreCurrent
  <2>4. StoredDays(i, v)' = StoredDays(i, v) /\ SumOfDays(i, v)' = SumOfDays(i, v)
    BY <1>1, SumStays
  <2> QED BY <2>1, <2>3, <2>4 DEF Current
<1>4. WeekIsItsDays'
  <2> SUFFICES ASSUME NEW i \in Instructors, NEW v \in Weeks,
                      <<i, v>> \notin owedWeeks', StoredDays(i, v)' # {}
               PROVE  week'[i][v] = SumOfDays(i, v)'
    BY DEF WeekIsItsDays
  <2>1. StoredDays(i, v)' = StoredDays(i, v) /\ SumOfDays(i, v)' = SumOfDays(i, v)
    BY <1>1, SumStays
  <2>2. CASE v = w
    <3>1. i \notin CrossedIn(r, w)
      BY <1>1, <2>2
    <3>2. i \in DOMAIN sums[r] /\ sums[r][i] = SumOfDays(i, w)
      BY <1>1, <2>1, <2>2, <3>1 DEF WeekInv, SumsAreCurrent, Current
    <3>3. week'[i][w] = sums[r][i]
      BY <1>1, <3>2 DEF WeekInv, WeekTables
    <3> QED BY <2>1, <2>2, <3>2, <3>3
  <2>3. CASE v # w
    <3>1. <<i, v>> \notin owedWeeks
      BY <1>1, <2>3
    <3>2. week'[i][v] = week[i][v]
      BY <1>1, <2>3 DEF WeekInv, WeekTables
    <3> QED BY <2>1, <3>1, <3>2 DEF WeekInv, WeekIsItsDays
  <2> QED BY <2>2, <2>3
<1> QED BY <1>2, <1>3, <1>4 DEF WeekInv

\* The other steps of a rollup are quiet.
LEMMA OthersAreQuiet ==
  ASSUME WeekInv, NEW r \in Rollups,
         \/ \E dates \in SUBSET Dates : Begins(r, dates)
         \/ ReadsStaff(r) \/ Computes(r) \/ WritesUniversity(r) \/ Ends(r) \/ Dies(r)
  PROVE  Quiet
<1>1. PICK step \in Steps \ {"sums"} :
        /\ at' = [at EXCEPT ![r] = step]
        /\ UNCHANGED <<day, week, owedWeeks>>
        /\ DOMAIN sums' = Rollups /\ DOMAIN crossed' = Rollups
        /\ \A q \in Rollups \ {r} :
             todo'[q] = todo[q] /\ sums'[q] = sums[q] /\ crossed'[q] = crossed[q]
  <2> USE DEF Goto, Steps, WeekInv, WeekTables, RowInv, Jobs
  <2>1. CASE \E dates \in SUBSET Dates : Begins(r, dates)
    BY <2>1 DEF Begins, tables, owed
  <2>2. CASE ReadsStaff(r)
    BY <2>2 DEF ReadsStaff, tables, owed
  <2>3. CASE Computes(r)
    BY <2>3 DEF Computes, tables, owed
  <2>4. CASE WritesUniversity(r)
    BY <2>4 DEF WritesUniversity
  <2>5. CASE Ends(r)
    BY <2>5 DEF Ends, tables, owed
  <2>6. CASE Dies(r)
    BY <2>6 DEF Dies, tables
  <2> QED BY <2>1, <2>2, <2>3, <2>4, <2>5, <2>6
<1> QED BY <1>1 DEF Quiet, WeekInv, RowInv, Jobs

LEMMA WeekInvData ==
  ASSUME WeekInv, RowInv',
         \/ \E i \in Instructors : \/ Departs(i) \/ Returns(i) \/ ImportSets(i)
                                   \/ \E d \in Dates : Edit(i, d)
         \/ NextDay \/ UNCHANGED vars
  PROVE  WeekInv'
<1>1. UNCHANGED <<day, week, owedWeeks, at, todo, sums, crossed>>
  BY DEF Departs, Returns, ImportSets, Edit, SaveDay, GrantLeave, NextDay, vars, tables, job,
         owed
<1>2. Quiet
  BY <1>1 DEF WeekInv, WeekTables, Quiet
<1> QED BY <1>2, WeekInvQuiet

LEMMA WeekInvRolls ==
  ASSUME WeekInv, RowInv', NEW r \in Rollups, Rolls(r)
  PROVE  WeekInv'
<1>1. CASE Scheduled(r) \/ \E i \in Instructors, d \in Dates : RevokesLeave(r, i, d)
  <2>1. \E dates \in SUBSET Dates : Begins(r, dates)
    BY <1>1 DEF Scheduled, TrailingWindow, RevokesLeave
  <2> QED BY <2>1, OthersAreQuiet, WeekInvQuiet
<1>2. CASE \E i \in Instructors : WritesDays(r, i)
  BY <1>2, WeekInvWritesDays
<1>3. CASE \E w \in Weeks : ReadsWeek(r, w) \/ WritesWeek(r, w)
  BY <1>3, WeekInvReadsWeek, WeekInvWritesWeek
<1> QED BY <1>1, <1>2, <1>3, OthersAreQuiet, WeekInvQuiet DEF Rolls

LEMMA WeekInvNext == WeekInv /\ [Next]_vars => WeekInv'
<1> SUFFICES ASSUME WeekInv, [Next]_vars PROVE WeekInv'
  OBVIOUS
<1>1. RowInv'
  BY RowInvNext DEF WeekInv
<1> QED BY <1>1, WeekInvRolls, WeekInvData DEF Next

\* However many rollups overlap and wherever they die, a stored week is the sum of
\* its stored days once a rollup that no other crossed since it read the week has
\* written it, and until one of its days is written again.
THEOREM WeekIsItsDaysTheorem == Spec => []WeekIsItsDays
<1>1. Init => WeekInv
  BY WeekInvInit
<1>2. WeekInv /\ [Next]_vars => WeekInv'
  BY WeekInvNext
<1>3. WeekInv => WeekIsItsDays
  BY DEF WeekInv
<1> QED BY <1>1, <1>2, <1>3, PTL DEF Spec

-----------------------------------------------------------------------------
(***************************************************************************)
(* The university is the sum of its instructors when it is written: what a *)
(* rollup has written of its rows is still there.                          *)
(***************************************************************************)
\* The rows a rollup has written, but for those written over meanwhile.
IsStored(r, i, d) ==
  i \notin todo[r] /\ <<i, d>> \notin crossed[r] => day[i][d] = rows[r][i][d]

RowsAreStored ==
  /\ DOMAIN crossed = Rollups
  /\ \A r \in Rollups :
       at[r] = "days" => \A i \in DOMAIN rows[r] : \A d \in span[r] : IsStored(r, i, d)

TotalInv == RowInv /\ RowsAreStored

LEMMA TotalInvInit == Init => TotalInv
BY RowInvInit DEF Init, TotalInv, RowsAreStored

\* The steps that write no day and compute no row.
LEMMA TotalInvRest ==
  ASSUME TotalInv, RowInv', day' = day, DOMAIN crossed' = Rollups,
         \A q \in Rollups : at'[q] = "days" =>
           /\ at[q] = "days" /\ rows'[q] = rows[q] /\ todo'[q] = todo[q]
           /\ span'[q] = span[q] /\ crossed'[q] = crossed[q]
  PROVE  TotalInv'
<1>1. RowsAreStored'
  <2> SUFFICES ASSUME NEW q \in Rollups, at'[q] = "days",
                      NEW i \in DOMAIN rows'[q], NEW d \in span'[q]
               PROVE  IsStored(q, i, d)'
    BY DEF RowsAreStored
  <2>1. IsStored(q, i, d)
    BY DEF TotalInv, RowsAreStored
  <2> QED BY <2>1 DEF IsStored
<1> QED BY <1>1 DEF TotalInv

LEMMA TotalInvWritesDays ==
  ASSUME TotalInv, RowInv', NEW r \in Rollups, NEW i \in Instructors, WritesDays(r, i)
  PROVE  TotalInv'
<1>1. /\ at[r] = "days" /\ at' = at /\ span' = span /\ rows' = rows
      /\ i \in todo[r] /\ todo' = [todo EXCEPT ![r] = todo[r] \ {i}]
      /\ day' = [day EXCEPT ![i] = [d \in Dates |-> IF d \in span[r] THEN rows[r][i][d]
                                                    ELSE day[i][d]]]
      /\ crossed' = [q \in Rollups |->
                       IF q # r /\ at[q] \notin {"idle", "weeks"}
                       THEN crossed[q] \cup ({i} \X span[r]) ELSE crossed[q]]
  BY DEF WritesDays, TotalInv, RowInv, Days, Jobs
<1>2. \A q \in Rollups : span[q] \subseteq Dates
  BY DEF TotalInv, RowInv, Jobs
<1>3. RowsAreStored'
  <2> SUFFICES ASSUME NEW q \in Rollups, at[q] = "days",
                      NEW j \in DOMAIN rows[q], NEW d \in span[q]
               PROVE  IsStored(q, j, d)'
    BY <1>1 DEF RowsAreStored
  <2>1. SUFFICES ASSUME j \notin todo'[q], <<j, d>> \notin crossed'[q]
                 PROVE  day'[j][d] = rows[q][j][d]
    BY <1>1 DEF IsStored
  <2>2. IsStored(q, j, d)
    BY DEF TotalInv, RowsAreStored
  <2>3. d \in Dates /\ j \in Instructors
    BY <1>2 DEF TotalInv, RowInv, RowsAreGood
  <2>4. CASE q = r /\ j = i
    BY <1>1, <2>3, <2>4 DEF TotalInv, RowInv, Days
  <2>5. CASE q = r /\ j # i
    <3>1. j \notin todo[q] /\ <<j, d>> \notin crossed[q]
      BY <1>1, <2>5, <2>1 DEF TotalInv, RowInv, Jobs
    <3>2. day'[j][d] = day[j][d]
      BY <1>1, <2>3, <2>5 DEF TotalInv, RowInv, Days
    <3> QED BY <2>2, <3>1, <3>2 DEF IsStored
  <2>6. CASE q # r
    <3>1. crossed'[q] = crossed[q] \cup ({i} \X span[r]) /\ todo'[q] = todo[q]
      BY <1>1, <2>6 DEF TotalInv, RowInv, Jobs
    <3>2. j # i \/ d \notin span[r]
      BY <2>1, <3>1
    <3>3. day'[j][d] = day[j][d]
      BY <1>1, <2>3, <3>2 DEF TotalInv, RowInv, Days
    <3>4. day[j][d] = rows[q][j][d]
      BY <2>1, <2>2, <3>1 DEF IsStored
    <3> QED BY <3>3, <3>4
  <2> QED BY <2>4, <2>5, <2>6
<1> QED BY <1>3 DEF TotalInv

\* Nothing is written yet of what has just been computed.
LEMMA TotalInvComputes ==
  ASSUME TotalInv, RowInv', NEW r \in Rollups, Computes(r)
  PROVE  TotalInv'
<1>1. /\ at' = [at EXCEPT ![r] = "days"]
      /\ DOMAIN rows'[r] = DOMAIN staff[r] /\ todo'[r] = DOMAIN staff[r]
      /\ \A q \in Rollups \ {r} : rows'[q] = rows[q] /\ todo'[q] = todo[q]
      /\ day' = day /\ span' = span /\ crossed' = crossed
  BY DEF Computes, Goto, tables, owed, TotalInv, RowInv, Jobs
<1>2. RowsAreStored'
  <2> SUFFICES ASSUME NEW q \in Rollups, at'[q] = "days",
                      NEW j \in DOMAIN rows'[q], NEW d \in span'[q]
               PROVE  IsStored(q, j, d)'
    BY <1>1 DEF TotalInv, RowsAreStored
  <2>1. CASE q = r
    BY <1>1, <2>1 DEF IsStored
  <2>2. CASE q # r
    <3>1. at[q] = "days" /\ rows'[q] = rows[q] /\ todo'[q] = todo[q]
      BY <1>1, <2>2 DEF TotalInv, RowInv, Jobs
    <3>2. IsStored(q, j, d)
      BY <1>1, <3>1 DEF TotalInv, RowsAreStored
    <3> QED BY <1>1, <3>1, <3>2 DEF IsStored
  <2> QED BY <2>1, <2>2
<1> QED BY <1>2 DEF TotalInv

LEMMA TotalInvRolls ==
  ASSUME TotalInv, RowInv', NEW r \in Rollups, Rolls(r)
  PROVE  TotalInv'
<1>1. CASE \E i \in Instructors : WritesDays(r, i)
  BY <1>1, TotalInvWritesDays
<1>2. CASE Computes(r)
  BY <1>2, TotalInvComputes
<1>3. CASE \/ Scheduled(r) \/ ReadsStaff(r) \/ WritesUniversity(r) \/ Ends(r) \/ Dies(r)
           \/ \E i \in Instructors, d \in Dates : RevokesLeave(r, i, d)
           \/ \E w \in Weeks : ReadsWeek(r, w) \/ WritesWeek(r, w)
  <2>1. PICK step \in Steps \ {"days"} :
          /\ at' = [at EXCEPT ![r] = step]
          /\ day' = day /\ DOMAIN crossed' = Rollups
          /\ \A q \in Rollups \ {r} :
               /\ rows'[q] = rows[q] /\ todo'[q] = todo[q]
               /\ span'[q] = span[q] /\ crossed'[q] = crossed[q]
    <3> USE DEF Goto, Steps, TotalInv, RowsAreStored, RowInv, Jobs
    <3>1. ASSUME NEW dates, Begins(r, dates)
          PROVE  /\ at' = [at EXCEPT ![r] = "staff"] /\ span' = [span EXCEPT ![r] = dates]
                 /\ UNCHANGED <<day, rows, todo, crossed>>
      BY <3>1 DEF Begins, tables, owed
    <3>2. CASE ReadsStaff(r)
      BY <3>2 DEF ReadsStaff, tables, owed
    <3>3. CASE WritesUniversity(r)
      BY <3>3 DEF WritesUniversity
    <3>4. CASE Ends(r)
      BY <3>4 DEF Ends, tables, owed
    <3>5. CASE Dies(r)
      BY <3>5 DEF Dies, tables
    <3>6. CASE \E w \in Weeks : ReadsWeek(r, w)
      BY <3>6 DEF ReadsWeek, tables, owed
    <3>7. CASE \E w \in Weeks : WritesWeek(r, w)
      BY <3>7 DEF WritesWeek
    <3>8. CASE Scheduled(r) \/ \E i \in Instructors, d \in Dates : RevokesLeave(r, i, d)
      <4>1. PICK dates : Begins(r, dates)
        BY <3>8 DEF Scheduled, RevokesLeave
      <4> QED BY <3>1, <4>1
    <3> HIDE DEF Goto, Steps, TotalInv, RowsAreStored, RowInv, Jobs
    <3> QED BY <1>3, <3>2, <3>3, <3>4, <3>5, <3>6, <3>7, <3>8
  <2> QED BY <2>1, TotalInvRest DEF TotalInv, RowInv, Jobs
<1> QED BY <1>1, <1>2, <1>3 DEF Rolls

LEMMA TotalInvNext == TotalInv /\ [Next]_vars => TotalInv'
<1> SUFFICES ASSUME TotalInv, [Next]_vars PROVE TotalInv'
  OBVIOUS
<1>1. RowInv'
  BY RowInvNext DEF TotalInv
<1>2. CASE \/ \E i \in Instructors : \/ Departs(i) \/ Returns(i) \/ ImportSets(i)
                                     \/ \E d \in Dates : Edit(i, d)
           \/ NextDay \/ UNCHANGED vars
  <2>1. UNCHANGED <<day, at, rows, todo, span, crossed>>
    BY <1>2 DEF Departs, Returns, ImportSets, Edit, SaveDay, GrantLeave, NextDay, vars, tables,
                job, owed
  <2> QED BY <1>1, <2>1, TotalInvRest DEF TotalInv, RowsAreStored
<1> QED BY <1>1, <1>2, TotalInvRolls DEF Next

\* A total is written as the sum of what is stored.
TotalIsOfTheRows ==
  \A r \in Rollups :
    WritesUniversity(r) =>
      \A d \in span[r] \ CrossedDates(r) :
        DOMAIN rows[r] # {} /\ Measured(d) \subseteq DOMAIN rows[r] =>
          uni'[d] = SumOfRows(d)'

LEMMA TotalWritten == TotalInv => TotalIsOfTheRows
<1> SUFFICES ASSUME TotalInv, NEW r \in Rollups, WritesUniversity(r),
                    NEW d \in span[r] \ CrossedDates(r),
                    DOMAIN rows[r] # {}, Measured(d) \subseteq DOMAIN rows[r]
             PROVE  uni'[d] = SumOfRows(d)'
  BY DEF TotalIsOfTheRows
<1>1. /\ at[r] = "days" /\ todo[r] = {} /\ day' = day /\ d \in Dates
      /\ DOMAIN rows[r] \subseteq Instructors
      /\ rows[r] \in [DOMAIN rows[r] -> [span[r] -> GoodRow]]
  BY DEF WritesUniversity, TotalInv, RowInv, Jobs, RowsAreGood
<1>2. uni'[d] = Total([i \in DOMAIN rows[r] |-> rows[r][i][d]])
  BY <1>1 DEF WritesUniversity
<1>3. \A i \in DOMAIN rows[r] : <<i, d>> \notin crossed[r]
  <2> SUFFICES ASSUME NEW i \in DOMAIN rows[r], <<i, d>> \in crossed[r] PROVE FALSE
    OBVIOUS
  <2>1. <<i, d>>[2] \in CrossedDates(r)
    BY DEF CrossedDates
  <2> QED BY <2>1
<1>4. \A i \in DOMAIN rows[r] : day[i][d] = rows[r][i][d]
  <2>1. \A i \in DOMAIN rows[r] : IsStored(r, i, d)
    BY <1>1 DEF TotalInv, RowsAreStored
  <2> QED BY <1>1, <1>3, <2>1 DEF IsStored
<1>5. \A i \in DOMAIN rows[r] : day[i][d] # None
  <2>1. None \notin GoodRow
    BY DEF GoodRow, Row, Figures
  <2>2. \A i \in DOMAIN rows[r] : rows[r][i][d] \in GoodRow
    BY <1>1
  <2> QED BY <1>4, <2>1, <2>2
<1>6. Measured(d)' = DOMAIN rows[r]
  BY <1>1, <1>5 DEF Measured
<1>7. [i \in Measured(d)' |-> day'[i][d]] = [i \in DOMAIN rows[r] |-> rows[r][i][d]]
  BY <1>1, <1>4, <1>6
<1> QED BY <1>2, <1>7 DEF SumOfRows

\* However many rollups overlap, a rollup whose rows no other has written over, and
\* which measured whoever has a row of the date, writes as the university's total
\* the sum of the rows as they are stored then.
THEOREM TotalIsOfTheRowsTheorem == Spec => [][TotalIsOfTheRows]_vars
<1>1. Init => TotalInv
  BY TotalInvInit
<1>2. TotalInv /\ [Next]_vars => TotalInv'
  BY TotalInvNext
<1>3. TotalInv => TotalIsOfTheRows
  BY TotalWritten
<1> QED BY <1>1, <1>2, <1>3, PTL DEF Spec
=============================================================================
