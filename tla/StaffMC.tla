------------------------------ MODULE StaffMC ------------------------------
(***************************************************************************)
(* Values for Staff: one university with two managers and two instructors, *)
(* and another with a manager of its own.                                  *)
(***************************************************************************)
EXTENDS Staff, TLC

CONSTANTS m1, m2, m3, i1, i2, here, there

MCHome == m1 :> here @@ m2 :> here @@ m3 :> there @@ i1 :> here @@ i2 :> here

Alike == Permutations(Calls)
=============================================================================
