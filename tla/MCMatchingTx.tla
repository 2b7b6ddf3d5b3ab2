---------------------------- MODULE MCMatchingTx ----------------------------
(***************************************************************************)
(* Instances of MatchingTx for TLC.                                        *)
(***************************************************************************)
EXTENDS MatchingTx, TLC

CONSTANTS c1, c2, c3, m1, m2, m3, t1, t2

\* m1 and m2 are one payment stored twice, m3 is another; all but m1 report
\* the balance, so that m1 does not wait for the profile.
TwoPayments == (m1 :> t1) @@ (m2 :> t1) @@ (m3 :> t2)
Reported == (m1 :> None) @@ (m2 :> 15) @@ (m3 :> 15)

OnePayment == m1 :> t1
Unreported == [m \in Messages |-> None]

\* All ask for the same amount; the oldest session has claimed a TrxID.
Fives == [m \in Messages |-> 5]
FitsAll == [m \in Messages |-> Sessions]
FirstClaimed == [s \in Sessions |-> IF s = 1 THEN t1 ELSE None]

Symmetry == Permutations(Calls)
=============================================================================
