----------------------------- MODULE MCPayouts -----------------------------
(***************************************************************************)
(* A small instance of Payouts: one brand that withdraws, another it trades*)
(* with in the same currency, an admin and two cron runs.                  *)
(***************************************************************************)
EXTENDS Payouts, TLC

CONSTANTS b1, b2, k1, h1, a1, r1, r2, MaxIncome

OneCurrency == [b \in Brands |-> "CNY"]
Cents       == [b \in Brands |-> 100]

\* What the two have taken from outside; transfers only move it.
IncomeBound == income[b1] + income[b2] <= MaxIncome

CronSymmetry == Permutations(Crons)
=============================================================================
