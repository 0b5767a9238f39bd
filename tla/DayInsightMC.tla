---------------------------- MODULE DayInsightMC ----------------------------
(***************************************************************************)
(* Small instances of DayInsight.  The contents stand for days saved as    *)
(* rows; their hashes and sentences come from WorklogDay.  The two days    *)
(* share a line, so a reading of one is partly reused for the other.       *)
(***************************************************************************)
EXTENDS DayInsight, TLC

CONSTANTS NoCount, one, two

W == INSTANCE WorklogDay

Line(words, min) == [description |-> words, quantity |-> NoCount, hr |-> 0, min |-> min]

SavedAs ==
  one :> W!FromRows(<<Line(<<"mark">>, 30)>>, 0) @@
  two :> W!FromRows(<<Line(<<"mark">>, 30), Line(<<"plan">>, 0)>>, 0)

MCContents == {one, two}

MCDigest ==
  [d \in Contents \cup {None} |->
     IF d = None THEN None
     ELSE CHOOSE e \in Contents : W!CanonicalDay(SavedAs[e]) = W!CanonicalDay(SavedAs[d])]

MCSentencesOf ==
  [d \in Contents |->
     LET lines == W!ToSummaryDay(SavedAs[d]) IN {lines[i].text : i \in DOMAIN lines}]

CONSTANTS r1, r2, x1, s1, m1, w1

\* A save and a deletion under a period's pass and the instructor's page; two
\* overtaking saves under the page, under the pass, and beside a deletion; the pass
\* under a manager's page.
MCCasts == {{r1, x1, w1, s1}, {r1, r2, s1}, {r1, r2, w1}, {r1, r2, x1}, {r1, w1, m1}}

=============================================================================
