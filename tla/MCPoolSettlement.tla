-------------------------- MODULE MCPoolSettlement --------------------------
(***************************************************************************)
(* A small instance of PoolSettlement: three brands of one currency, where *)
(* brand 1's vouchers are worth half at brand 3.                           *)
(***************************************************************************)
EXTENDS PoolSettlement, TLC

OneCurrency == [b \in Brands |-> "CNY"]
Cents       == [b \in Brands |-> 100]
HalfAtThree == [b \in Brands |-> [c \in Brands |-> IF b = 1 /\ c = 3 THEN 50 ELSE 100]]

\* On the first day two requests at once (two sales, two sweeps or one of each),
\* then one; three legs paid;
\* members stay while a worker runs (settlement reads flows, not members); and
\* vouchers are numbered by source.
Bounds == /\ Cardinality({h \in Storefronts : till[h] # Idle})
             + Cardinality({w \in Callers : sweep[w] # Resting}) <= IF now = 1 THEN 2 ELSE 1
          /\ Len(ledger) <= 3
          /\ Len(vouchers) = 2 => vouchers[1].source <= vouchers[2].source
          /\ members = Brands \/ \A w \in Callers : sweep[w] = Resting

Alike == Permutations(Callers) \cup Permutations(Storefronts) \cup Permutations(Txns)
=============================================================================
