----------------------------- MODULE SavedDay -----------------------------
(***************************************************************************)
(* One worklog day, saved over and over in either shape by POST            *)
(* worklog/entry, and the reading summariseDay stores of it.               *)
(***************************************************************************)
EXTENDS WorklogDay

CONSTANTS
  Descriptions,   \* what a row may say, as the words it is made of
  Counts,         \* the quantities an instructor states
  Hours, Mins,    \* what the two time boxes of a row may hold
  MaxRows,        \* rows in one submission: bounds the saves
  MaxItems        \* activities the model may find in one line

ASSUME RowAssumption ==
  /\ Descriptions \subseteq Seq(STRING)
  /\ Counts \subseteq Int
  /\ NoCount \notin Int
  /\ Hours \subseteq Int
  /\ Mins \subseteq Int
  /\ MaxRows \in Nat
  /\ MaxItems \in Nat

VARIABLES
  day,       \* the WorklogEntry
  reading,   \* the DayExtraction
  answered   \* history: how many activities the model found in the words of
             \* each line, when it was last asked about them

SubmittedRows ==
  [description : Descriptions, quantity : Counts \cup {NoCount}, hr : Hours, min : Mins]

Submissions == UNION {[1..n -> SubmittedRows] : n \in 1..MaxRows}

\* A refused save changes nothing.
RowDays == {FromRows(s, 0) : s \in Submissions} \ {Refused}

\* The older client: the same words and total, without the rows.
TextDays == {FromText(d.deliverable, d.quantity, d.minutes, 0) : d \in RowDays} \ {Refused}

NoDay == [none |-> TRUE]

NothingSaved ==
  /\ day = NoDay
  /\ reading = [hash |-> NoDay, of |-> NoDay, lines |-> <<>>]
  /\ answered = <<>>

\* The stored reading is current: the hash is the only test.
KeepsReading ==
  /\ reading.hash = CanonicalDay(day')
  /\ UNCHANGED <<reading, answered>>

\* The day is read again.  Something is read of it: a reading refused whole is
\* not stored, which DayInsight has.
ReadsAgain(answers) ==
  LET lines == ReadLines(reading.lines, day', answers) IN
  /\ reading.hash # CanonicalDay(day')
  /\ \E i \in DOMAIN lines : lines[i].items > 0
  /\ reading' = [hash |-> CanonicalDay(day'), of |-> day', lines |-> lines]
  /\ answered' = [t \in {lines[i].text : i \in DOMAIN lines} |->
                    IF t \in DOMAIN answers THEN answers[t] ELSE answered[t]]

\* POST in either shape, and the refresh it schedules, run to its end: what
\* overlapping refreshes do is in DayInsight.
SaveRows ==
  \E d \in RowDays :
    /\ day' = d
    /\ \/ KeepsReading
       \/ \E answers \in [Unsettled(reading.lines, d) -> 0..MaxItems] : ReadsAgain(answers)

SaveText ==
  \E d \in TextDays :
    /\ day' = d
    /\ \/ KeepsReading
       \/ \E answers \in [Unsettled(reading.lines, d) -> 0..MaxItems] : ReadsAgain(answers)

Save == SaveRows \/ SaveText

savedVars == <<day, reading, answered>>

Saving == NothingSaved /\ [][Save]_savedVars

-----------------------------------------------------------------------------
Saved == day # NoDay
HasReading == reading.of # NoDay

\* What was recorded against each line of a day.
Recorded(d) ==
  IF d.activities # NoRows THEN [i \in DOMAIN d.activities |-> d.activities[i].minutes]
                           ELSE <<d.minutes>>

\* The minutes the items of a reading carry, and those of its lines that carry
\* none: the ones the model refused or found several activities in.
Carried == [i \in DOMAIN reading.lines |-> reading.lines[i].items * reading.lines[i].share]
LeftOut == [i \in DOMAIN reading.lines |->
              IF answered[reading.lines[i].text] = 1 THEN 0 ELSE Recorded(reading.of)[i]]

\* A line the model found one activity in carries exactly its own row's minutes,
\* however often the day is saved, its words repeated, reordered or taken over from
\* an earlier reading; so the items fall short of the day's total by the refused
\* and the divided lines alone (summariseDay: "which zeroed every duration and lost
\* the day").
NoMinuteIsLost ==
  HasReading =>
    /\ \A i \in DOMAIN reading.lines :
         answered[reading.lines[i].text] = 1 => Carried[i] = Recorded(reading.of)[i]
    /\ SumOf(Carried) + SumOf(LeftOut) = reading.of.minutes

SameBut(s, t, i, f) ==
  /\ DOMAIN s = DOMAIN t
  /\ \A j \in DOMAIN s \ {i} : s[j] = t[j]
  /\ \A g \in {"description", "quantity", "minutes"} \ {f} : s[i][g] = t[i][g]

\* Both days hold rows, and the one field f of row i is all that differs.
BothInRows(d, e) == d.activities # NoRows /\ e.activities # NoRows

EditsField(d, e, i, f) ==
  /\ SameBut(d.activities, e.activities, i, f)
  /\ d.activities[i] # e.activities[i]

\* Correcting one field of one row always moves the hash, so the reading of the
\* day is redone (contextHash over canonicalJson).
OneFieldEditInvalidates ==
  [][Saved /\ BothInRows(day, day') =>
       \A f \in {"description", "quantity", "minutes"} :
         \A i \in DOMAIN day.activities \cap DOMAIN day'.activities :
            EditsField(day, day', i, f) => CanonicalDay(day) # CanonicalDay(day')]_savedVars
=============================================================================
