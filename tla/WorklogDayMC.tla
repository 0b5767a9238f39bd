--------------------------- MODULE WorklogDayMC ---------------------------
(***************************************************************************)
(* An instructor saving one day over and over, in either shape: rows of    *)
(* blank, short and long descriptions.                                     *)
(***************************************************************************)
EXTENDS SavedDay

BlankAndTwoWords(a, b) == {<<>>, <<a>>, <<b>>, <<a, b>>}
MCDescriptions == BlankAndTwoWords("mark", "papers")
=============================================================================
