--------------------------- MODULE MCStreamWorker ---------------------------
(***************************************************************************)
(* One honored reservation and one other event, which is an ordinary one   *)
(* or one that cannot be processed.                                        *)
(***************************************************************************)
EXTENDS StreamWorker, TLC

CONSTANTS honored, other

MixesSmall == {honored :> "critical" @@ other :> k : k \in {"plain", "poison"}}
=============================================================================
