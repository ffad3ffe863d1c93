----------------------------- MODULE MCDisputes -----------------------------
(***************************************************************************)
(* Small instances of Disputes.                                            *)
(***************************************************************************)
EXTENDS Disputes, TLC

CONSTANTS c1, c2, r1, r2, r3, r4, MaxFunds

FundsBound == funded <= MaxFunds

\* The first three requests overlap as they like, the fourth with one of them.
FourthIsLate == \/ Cardinality(Handling) <= 2
                \/ Cardinality({r \in Handlers : ~HandlerAt(r, "idle")}) <= 3

HandlerSymmetry == Permutations(Handlers)
=============================================================================
