-------------------------- MODULE MCEnergySession --------------------------
(***************************************************************************)
(* Small instances of EnergySession: a clock of a few ticks on which the   *)
(* periods keep the order they have in the code (15 s of play, a lock of   *)
(* 120 s, 25 minutes of regeneration, 30 minutes of a nonce, its code 30   *)
(* seconds more, 4 hours of cooldown, 8 of absence).                       *)
(***************************************************************************)
EXTENDS EnergySession, TLC

CONSTANT n1

CodesIssued == n1 :> 0
=============================================================================
