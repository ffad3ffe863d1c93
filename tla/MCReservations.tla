--------------------------- MODULE MCReservations ---------------------------
EXTENDS Reservations, TLC
\* The brand has a trigger for a missed booking and one for a booking honored.
OutcomeRewards == [e \in Events |-> IF e \in {"no_show", "honored"} THEN 1 ELSE 0]
DeskSymmetry == Permutations(Desks)
=============================================================================
