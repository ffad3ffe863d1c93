-------------------------- MODULE MCRefundCascade --------------------------
(***************************************************************************)
(* Small instances of RefundCascade. FundsBound keeps what a behaviour may *)
(* bring into the wallet finite.                                           *)
(***************************************************************************)
EXTENDS RefundCascade

CONSTANTS c1, c2, s1, s2, MaxFunds

FundsBound == funded <= MaxFunds
=============================================================================
