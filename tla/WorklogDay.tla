----------------------------- MODULE WorklogDay -----------------------------
(***************************************************************************)
(* What one saved day is: the two shapes POST worklog/entry accepts        *)
(* (fromRows, fromText), what the context hash sees of the result          *)
(* (buildCanonicalContext, canonicalJson) and what the labelling model is  *)
(* sent of it (toSummaryDay).                                              *)
(*                                                                         *)
(* A text is a sequence of words.  A Deliverable cell is a sequence of     *)
(* lines, since fromRows joins the descriptions with a line break and      *)
(* normaliseText then folds every run of white space into one blank.       *)
(***************************************************************************)
EXTENDS Integers, Sequences, SequencesExt

CONSTANT NoCount  \* quantity null: it was not counted

MinutesPerDay == 24 * 60

Refused == [refused |-> TRUE]
NoRows == <<>>                  \* activities: SQL NULL, a free-text day

-----------------------------------------------------------------------------
(* domain/worklog-activities.ts                                            *)

IsFilled(r) == r.description # <<>>

HasOrphanNumbers(r) ==
  ~IsFilled(r) /\ (r.quantity # NoCount \/ r.hr > 0 \/ r.min > 0)

AtLeastZero(n) == IF n < 0 THEN 0 ELSE n

NormaliseRow(r) ==
  [description |-> r.description,
   quantity |-> IF r.quantity = NoCount THEN NoCount ELSE AtLeastZero(r.quantity),
   minutes |-> AtLeastZero(r.hr) * 60 + AtLeastZero(r.min)]

SumOf(s) ==
  LET upTo[n \in 0..Len(s)] == IF n = 0 THEN 0 ELSE upTo[n - 1] + s[n]
  IN upTo[Len(s)]

\* filter: a member becomes a sequence of one or of none, and those are joined.
Kept(x, keep) == IF keep THEN <<x>> ELSE <<>>

TotalMinutes(rows) == SumOf([i \in DOMAIN rows |-> rows[i].minutes])

DeliverableFrom(rows) == [i \in DOMAIN rows |-> rows[i].description]

QuantityFrom(rows) ==
  FlattenSeq([i \in DOMAIN rows |-> Kept(rows[i].quantity, rows[i].quantity # NoCount)])

-----------------------------------------------------------------------------
(* worklog/entry/route.ts                                                  *)

RowsOf(submitted) ==
  LET filled == FlattenSeq([i \in DOMAIN submitted |->
                              Kept(submitted[i], IsFilled(submitted[i]))])
  IN [i \in DOMAIN filled |-> NormaliseRow(filled[i])]

FromRows(submitted, remarks) ==
  LET rows == RowsOf(submitted)
  IN IF \/ \E i \in DOMAIN submitted : HasOrphanNumbers(submitted[i])
        \/ rows = <<>>
        \/ TotalMinutes(rows) > MinutesPerDay
       THEN Refused
       ELSE [deliverable |-> DeliverableFrom(rows),
             quantity |-> QuantityFrom(rows),
             minutes |-> TotalMinutes(rows),
             remarks |-> remarks,
             activities |-> rows]

\* The hours are what parseWorkingMinutes read; quantity is the box's own numbers.
FromText(lines, quantity, minutes, remarks) ==
  IF minutes > MinutesPerDay \/ FlattenSeq(lines) = <<>>
    THEN Refused
    ELSE [deliverable |-> lines, quantity |-> quantity, minutes |-> minutes,
          remarks |-> remarks, activities |-> NoRows]

-----------------------------------------------------------------------------
(* insights/context.ts and insights/serve-day.ts                           *)

\* normaliseText on a cell: white space folded, line breaks with it.
NormaliseText(lines) == FlattenSeq(lines)

\* Slip: the minutes are left out of the hash.
CanonicalDayNoMinutes(d) ==
  [deliverable |-> NormaliseText(d.deliverable), quantity |-> d.quantity,
   remarks |-> d.remarks]

\* The day as the hash sees it: canonicalJson deletes `activities`.
CanonicalDay(d) ==
  [deliverable |-> NormaliseText(d.deliverable), quantity |-> d.quantity,
   minutes |-> d.minutes, remarks |-> d.remarks]

\* toSummaryDay: one activity per row, or the whole text as one activity with
\* the day's total.  hours and minutes are split here and recombined by the
\* caller, hence the division and remainder.
Duration(m) == [hours |-> m \div 60, minutes |-> m % 60]

ToSummaryDay(d) ==
  IF d.activities # NoRows
    THEN [i \in DOMAIN d.activities |->
            [text |-> [words |-> d.activities[i].description, count |-> <<>>],
             time |-> Duration(d.activities[i].minutes)]]
    ELSE <<[text |-> [words |-> NormaliseText(d.deliverable), count |-> d.quantity],
            time |-> Duration(d.minutes)]>>

\* The minutes an activity is given back (serve-day.ts: hours * 60 + minutes).
MinutesOf(activity) == activity.time.hours * 60 + activity.time.minutes

-----------------------------------------------------------------------------
(* summariseDay: what is stored of a day.  A reading is kept as its lines, *)
(* one for each activity: the words, how many items were made of them      *)
(* (none when the model refused them), and the minutes each item carries.  *)

\* The words the last reading settled are not asked about again ...
IsSettled(lines, text) ==
  \E i \in DOMAIN lines : lines[i].text = text /\ lines[i].items > 0

\* Slip: the items of every line with these words, in one list.
ItemsOfAllOccurrences(lines, text) ==
  SumOf([i \in DOMAIN lines |-> IF lines[i].text = text THEN lines[i].items ELSE 0])

\* ... but taken from the first line that has them.
ItemsOfOneOccurrence(lines, text) ==
  LET first == CHOOSE i \in DOMAIN lines :
                 /\ lines[i].text = text /\ lines[i].items > 0
                 /\ \A j \in DOMAIN lines :
                      lines[j].text = text /\ lines[j].items > 0 => i <= j
  IN lines[first].items

\* The distinct words the model is asked about.
Unsettled(lines, d) ==
  {ToSummaryDay(d)[i].text : i \in DOMAIN ToSummaryDay(d)}
    \ {lines[i].text : i \in {j \in DOMAIN lines : lines[j].items > 0}}

\* Several items of one line had one duration between them: none carries it.
ReadLine(activity, items) ==
  [text |-> activity.text,
   items |-> items,
   share |-> IF items = 1 THEN MinutesOf(activity) ELSE 0]

\* The lines of d, read by the model's answers where the last lines do not settle them.
ReadLines(lines, d, answers) ==
  [i \in DOMAIN ToSummaryDay(d) |->
     LET activity == ToSummaryDay(d)[i] IN
     ReadLine(activity, IF IsSettled(lines, activity.text)
                          THEN ItemsOfOneOccurrence(lines, activity.text)
                          ELSE answers[activity.text])]

=============================================================================
