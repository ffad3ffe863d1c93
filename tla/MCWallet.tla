------------------------------ MODULE MCWallet ------------------------------
(***************************************************************************)
(* Small instances of Wallet.                                              *)
(***************************************************************************)
EXTENDS Wallet, FiniteSets, TLC

CONSTANTS c1, c2, c3, f1, t1

\* Two kinds of pairs: two charges, or a charge and a marketplace charge. (A
\* crashed request is one that stalls for ever: safety loses nothing.) The
\* top-up is the larger amount, opened before the first request arrives, and
\* at most 3 cents come in.
TwoRequests == /\ funded <= 3
               /\ \A t \in Topups : topup[t].amount # 1
               /\ (\E t \in Topups : topup[t].status = "none") => \A r \in Requests : At(r, "idle")
               /\ Cardinality({r \in Requests : ~At(r, "idle")}) <= 2
               /\ \A r \in Requests : ~At(r, "crashed")

ChargeSymmetry == Permutations({c1, c2})
=============================================================================
