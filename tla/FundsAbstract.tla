--------------------------- MODULE FundsAbstract ---------------------------
(***************************************************************************)
(* What a prepaid wallet promises its brand, without any of the machinery: *)
(* money arrives, a charge takes money that is there, and a charge hands   *)
(* back at most what it still holds.                                       *)
(***************************************************************************)
EXTENDS Integers

CONSTANTS Charges,  \* charge ids
          Amounts   \* sums of money one operation may move, in cents

VARIABLES cash,  \* what the brand can spend
          held   \* held[c]: what charge c took and has not given back

vars == <<cash, held>>

TypeOK == /\ cash \in Nat
          /\ held \in [Charges -> Nat]

Init == /\ cash = 0
        /\ held = [c \in Charges |-> 0]

Fund(a) == /\ cash' = cash + a
           /\ UNCHANGED held

Spend(c, a) == /\ held[c] = 0
               /\ a <= cash
               /\ cash' = cash - a
               /\ held' = [held EXCEPT ![c] = a]

GiveBack(c, a) == /\ a \in 1..held[c]
                  /\ cash' = cash + a
                  /\ held' = [held EXCEPT ![c] = @ - a]

Next == \/ \E a \in Amounts : Fund(a) \/ \E c \in Charges : Spend(c, a)
        \/ \E c \in Charges : \E a \in 1..held[c] : GiveBack(c, a)

Spec == Init /\ [][Next]_vars
=============================================================================
