---------------------------- MODULE ImportJobMC ----------------------------
(***************************************************************************)
(* ImportJob in small: two administrators doing anything beside each       *)
(* other, and three confirming at once.                                    *)
(***************************************************************************)
EXTENDS ImportJob, TLC

CONSTANTS q1, q2, q3, k1, k2, k3

MCRequests == {q1, q2, q3}

Cast(a, b, c, runs) == [asks |-> (q1 :> a) @@ (q2 :> b) @@ (q3 :> c), runs |-> runs]

Confirms == {"confirm"}

MCRuns == {k1, k2, k3}

MCCasts == {Cast(Kinds, Kinds, {}, {k1, k2}),
            Cast(Confirms, Confirms, Confirms, MCRuns)}

=============================================================================
