------------------------------ MODULE OnePayer ------------------------------
(***************************************************************************)
(* What summariseDay and generateUnderLock both promise about one record   *)
(* derived from an instructor's work.  One request at a time has the turn  *)
(* to make it, and takes it only for a record that is not stored; what is  *)
(* stored afterwards is what that request paid the model for.  A request   *)
(* may lose its turn to a timeout while the model is being asked.  It goes *)
(* on paying beside whoever has the turn then, and stores nothing.         *)
(*                                                                         *)
(* How a request comes to its turn, and what it does before and after, is  *)
(* left to DayInsight and InsightCache, which implement this               *)
(* specification.                                                          *)
(***************************************************************************)
CONSTANTS
  Callers,   \* requests that may generate
  Hashes,    \* what a record may have been made from
  MayDrop    \* TRUE or FALSE: whether a stored record may be removed by somebody else

VARIABLES
  stored,    \* the hash of the stored record: a set of at most one
  payer,     \* who has the turn, and for which hash: a set of at most one
  late       \* who is still paying after losing the turn

vars == <<stored, payer, late>>

Init == stored = {} /\ payer = {} /\ late = {}

\* Nobody has the turn and the record is missing.
Begin(c, h) ==
  /\ payer = {}
  /\ h \notin stored
  /\ payer' = {[by |-> c, hash |-> h]}
  /\ UNCHANGED <<stored, late>>

\* The record is stored under the hash it was asked for.
Pay(p) ==
  /\ payer = {p}
  /\ stored' = {p.hash}
  /\ payer' = {}
  /\ UNCHANGED late

\* A refusal, an exception or a crash: nothing is stored.
GiveUp ==
  /\ payer # {}
  /\ payer' = {}
  /\ UNCHANGED <<stored, late>>

\* The turn runs out, the paying does not.
Overrun(p) ==
  /\ payer = {p}
  /\ payer' = {}
  /\ late' = late \cup {p}
  /\ UNCHANGED stored

\* A late payer has its answer, or dies: nothing is stored.
LateEnds(p) ==
  /\ late' = late \ {p}
  /\ UNCHANGED <<stored, payer>>

\* The record's source is deleted, and the record with it.
Drop ==
  /\ MayDrop
  /\ stored' = {}
  /\ UNCHANGED <<payer, late>>

Next ==
  \/ \E c \in Callers, h \in Hashes : Begin(c, h)
  \/ \E p \in payer : Pay(p) \/ Overrun(p)
  \/ \E p \in late : LateEnds(p)
  \/ GiveUp
  \/ Drop

Spec == Init /\ [][Next]_vars
=============================================================================
