---------------------------- MODULE RefundCascade ----------------------------
(***************************************************************************)
(* The refund cascade (app/saga_definitions.py, refund_cascade_saga): the  *)
(* coordinator of Saga driving four concrete steps over the wallet rows of *)
(* ChargeBook, the attribution journey and the commission ledger, while    *)
(* the rest of the wallet goes on. A step's await is where other requests  *)
(* interleave and where its deadline (wait_for) may cut it off: after its  *)
(* writes reached Redis, or before.                                        *)
(*                                                                         *)
(* One charge is refunded; it led to one conversion, whose attribution     *)
(* event sits in one user's journey: a LIST kept for old readers, and a    *)
(* ZSET, empty for a user not migrated yet, which readers prefer.          *)
(***************************************************************************)
EXTENDS ChargeBook, Functions

CONSTANTS Sagas,   \* saga ids
          Target,  \* the charge the sagas refund
          None

ASSUME CascadeAssumption == /\ Target \in Charges
                            /\ None \notin Sagas

VARIABLES saga,        \* saga:{id}:meta and the locals of its coroutine
          refundRow,   \* wallet:refund:{id} of each saga
          reversal,    \* commission:reversal:{id} of each saga
          reversedBy,  \* conversion:{id}:commission: reversal_id, None if applied
          event,       \* attr:{event} exists
          listed,      \* how often user:{u}:attr_journey names it
          ranked,      \* user:{u}:attr_journey_z names it
          broadcast    \* sagas whose event is on the events:refund stream

cascadeVars == <<saga, refundRow, reversal, reversedBy, event, listed, ranked, broadcast>>
vars == <<bookVars, cascadeVars>>

CascadeSteps == 1..4
WALLET == 1
ATTRIBUTION == 2
COMMISSION == 3
BROADCAST == 4

Ended == {"succeeded", "failed_rolled_back", "failed_compensation_failed"}

\* linked: the request names a conversion. place: how far step 2 or its
\* compensation is; snapshot: ctx["_attribution_snapshot"] holds the event.
Places == {"start", "snapped", "found", "unlisted", "rehashed"}
SagaState == [status : {"idle", "running", "compensating"} \cup Ended,
              meta : {"none", "running"} \cup Ended,
              completed : 0..4, failed : 0..4, undone : 1..5,
              compFailures : SUBSET CascadeSteps, alive : BOOLEAN,
              amount : Nat, linked : BOOLEAN, place : Places, snapshot : BOOLEAN]
IdleSaga == [status |-> "idle", meta |-> "none", completed |-> 0, failed |-> 0, undone |-> 5,
             compFailures |-> {}, alive |-> TRUE,
             amount |-> 0, linked |-> FALSE, place |-> "start", snapshot |-> FALSE]

TypeOK == /\ BookTypeOK
          /\ saga \in [Sagas -> SagaState]
          /\ refundRow \in [Sagas -> {"none", "live", "reversed"}]
          /\ reversal \in [Sagas -> {"none", "applied", "cancelled"}]
          /\ reversedBy \in Sagas \cup {None}
          /\ event \in BOOLEAN
          /\ listed \in Nat
          /\ ranked \in BOOLEAN
          /\ broadcast \subseteq Sagas

Init == /\ BookInit
        /\ saga = [s \in Sagas |-> IdleSaga]
        /\ refundRow = [s \in Sagas |-> "none"]
        /\ reversal = [s \in Sagas |-> "none"]
        /\ reversedBy = None
        /\ event = TRUE
        /\ listed = 1
        /\ ranked \in BOOLEAN
        /\ broadcast = {}
-----------------------------------------------------------------------------
\* Where a saga is, and how it moves on.
Running(s, i) == /\ saga[s].alive
                 /\ saga[s].status = "running"
                 /\ saga[s].completed = i - 1

Completes(s) == saga' = [saga EXCEPT ![s].completed = @ + 1]

Fails(s) == saga' = [saga EXCEPT ![s].status = "compensating",
                                 ![s].failed = saga[s].completed + 1,
                                 ![s].undone = saga[s].completed + 1]

\* After its writes a step returns, or has been cut off.
ReturnsOrIsCutOff(s) == Completes(s) \/ Fails(s)

Compensating(s, i) == /\ saga[s].alive
                      /\ saga[s].status = "compensating"
                      /\ saga[s].undone = i + 1

Compensated(s) == saga' = [saga EXCEPT ![s].undone = @ - 1]
CompensationFailed(s) ==
    saga' = [saga EXCEPT ![s].compFailures = @ \cup {saga[s].undone - 1},
                         ![s].undone = @ - 1]
CompensatedOrIsCutOff(s) == Compensated(s) \/ CompensationFailed(s)

Start(s, a, linked) ==
    /\ saga[s].status = "idle"
    /\ \E m \in {"none", "running"} :
          saga' = [saga EXCEPT ![s].status = "running", ![s].meta = m,
                               ![s].amount = a, ![s].linked = linked]
    /\ UNCHANGED <<bookVars, refundRow, reversal, reversedBy, event, listed, ranked, broadcast>>

\* A step raises, or is cut off, before it writes (any more): the wallet refuses
\* the refund, Redis fails, the deadline passes.
FailsCleanly(s) ==
    /\ \E i \in CascadeSteps : Running(s, i)
    /\ Fails(s)
    /\ UNCHANGED <<bookVars, refundRow, reversal, reversedBy, event, listed, ranked, broadcast>>

(***************************************************************************)
(* Step 1, _do_wallet_refund. The refund id reaches the context only with  *)
(* the reply.                                                              *)
(***************************************************************************)
DoWalletRefund(s, d) ==
    /\ Running(s, WALLET)
    /\ DisputeRefund(Target, saga[s].amount, d)
    /\ refundRow' = [refundRow EXCEPT ![s] = "live"]
    /\ ReturnsOrIsCutOff(s)
    /\ UNCHANGED <<reversal, reversedBy, event, listed, ranked, broadcast>>

\* Steps 2 and 3 of a refund that names no conversion.
SkipUnlinked(s) ==
    /\ Running(s, ATTRIBUTION) \/ Running(s, COMMISSION)
    /\ ~saga[s].linked
    /\ Completes(s)
    /\ UNCHANGED <<bookVars, refundRow, reversal, reversedBy, event, listed, ranked, broadcast>>

(***************************************************************************)
(* Step 2, _do_cleanup_attribution: snapshot the event, then scrub it      *)
(* (_cascade_remove_attribution): read it again, and if it is there, LREM  *)
(* every mention of it from the list and DEL it, two commands of a pipeline*)
(* that is no transaction. The ZSET is left as it is. The scrubbing        *)
(* swallows its own errors, after any of its commands.                     *)
(***************************************************************************)
At(s, place) == Running(s, ATTRIBUTION) /\ saga[s].linked /\ saga[s].place = place

TakeSnapshot(s) ==
    /\ At(s, "start")
    /\ saga' = [saga EXCEPT ![s].place = "snapped", ![s].snapshot = event]
    /\ UNCHANGED <<bookVars, refundRow, reversal, reversedBy, event, listed, ranked, broadcast>>

FindEvent(s) ==
    /\ At(s, "snapped")
    /\ IF event THEN saga' = [saga EXCEPT ![s].place = "found"] ELSE Completes(s)
    /\ UNCHANGED <<bookVars, refundRow, reversal, reversedBy, event, listed, ranked, broadcast>>

\* Mutant: the pipeline deletes the event before it takes it from the list.
DeleteEventFirst(s) ==
    /\ At(s, "found")
    /\ event' = FALSE
    /\ saga' = [saga EXCEPT ![s].place = "unlisted"]
    /\ UNCHANGED <<bookVars, refundRow, reversal, reversedBy, listed, ranked, broadcast>>

UnlistEvent(s) ==
    /\ At(s, "found")
    /\ listed' = 0
    /\ saga' = [saga EXCEPT ![s].place = "unlisted"]
    /\ UNCHANGED <<bookVars, refundRow, reversal, reversedBy, event, ranked, broadcast>>

DeleteEvent(s) ==
    /\ At(s, "unlisted")
    /\ event' = FALSE
    /\ ReturnsOrIsCutOff(s)
    /\ UNCHANGED <<bookVars, refundRow, reversal, reversedBy, listed, ranked, broadcast>>

ScrubSwallowsError(s) ==
    /\ At(s, "snapped") \/ At(s, "found") \/ At(s, "unlisted")
    /\ Completes(s)
    /\ UNCHANGED <<bookVars, refundRow, reversal, reversedBy, event, listed, ranked, broadcast>>

\* Step 3, _do_reverse_commission.
DoReverseCommission(s) ==
    /\ Running(s, COMMISSION) /\ saga[s].linked
    /\ reversal' = [reversal EXCEPT ![s] = "applied"]
    /\ reversedBy' = s
    /\ ReturnsOrIsCutOff(s)
    /\ UNCHANGED <<bookVars, refundRow, event, listed, ranked, broadcast>>

\* Step 4, _emit_refund_event: an XADD whose error is swallowed.
EmitRefundEvent(s) ==
    /\ Running(s, BROADCAST)
    /\ broadcast' = broadcast \cup {s}
    /\ ReturnsOrIsCutOff(s)
    /\ UNCHANGED <<bookVars, refundRow, reversal, reversedBy, event, listed, ranked>>

EmitSwallowsError(s) ==
    /\ Running(s, BROADCAST)
    /\ Completes(s)
    /\ UNCHANGED <<bookVars, refundRow, reversal, reversedBy, event, listed, ranked, broadcast>>

CascadeSucceeds(s) ==
    /\ Running(s, 5)
    /\ \E m \in {saga[s].meta, "succeeded"} :
          saga' = [saga EXCEPT ![s].status = "succeeded", ![s].meta = m]
    /\ UNCHANGED <<bookVars, refundRow, reversal, reversedBy, event, listed, ranked, broadcast>>
-----------------------------------------------------------------------------
\* Mutant: only the reversal row is cancelled.
UndoReversalRowOnly(s) ==
    /\ Compensating(s, COMMISSION)
    /\ IF saga[s].linked THEN reversal' = [reversal EXCEPT ![s] = "cancelled"]
                         ELSE UNCHANGED reversal
    /\ CompensatedOrIsCutOff(s)
    /\ UNCHANGED <<bookVars, refundRow, reversedBy, event, listed, ranked, broadcast>>

\* _undo_reverse_commission: the conversion is "applied" again, whoever
\* reversed it last.
UndoReverseCommission(s) ==
    /\ Compensating(s, COMMISSION)
    /\ IF saga[s].linked
       THEN reversal' = [reversal EXCEPT ![s] = "cancelled"] /\ reversedBy' = None
       ELSE UNCHANGED <<reversal, reversedBy>>
    /\ CompensatedOrIsCutOff(s)
    /\ UNCHANGED <<bookVars, refundRow, event, listed, ranked, broadcast>>

\* _restore_attribution: without a snapshot it returns at once; else HSET, then
\* LPUSH, again no transaction.
NothingToRestore(s) ==
    /\ Compensating(s, ATTRIBUTION) /\ ~saga[s].snapshot
    /\ Compensated(s)
    /\ UNCHANGED <<bookVars, refundRow, reversal, reversedBy, event, listed, ranked, broadcast>>

RestoreEvent(s) ==
    /\ Compensating(s, ATTRIBUTION) /\ saga[s].snapshot /\ saga[s].place # "rehashed"
    /\ event' = TRUE
    /\ saga' = [saga EXCEPT ![s].place = "rehashed"]
    /\ UNCHANGED <<bookVars, refundRow, reversal, reversedBy, listed, ranked, broadcast>>

\* Mutant: only the hash of the event is restored.
RelistNothing(s) ==
    /\ Compensating(s, ATTRIBUTION) /\ saga[s].place = "rehashed"
    /\ CompensatedOrIsCutOff(s)
    /\ UNCHANGED <<bookVars, refundRow, reversal, reversedBy, event, listed, ranked, broadcast>>

RelistEvent(s) ==
    /\ Compensating(s, ATTRIBUTION) /\ saga[s].place = "rehashed"
    /\ listed' = listed + 1
    /\ CompensatedOrIsCutOff(s)
    /\ UNCHANGED <<bookVars, refundRow, reversal, reversedBy, event, ranked, broadcast>>

\* Mutant: the refund id never reached the context, nothing is undone.
UndoNothing(s) ==
    /\ Compensating(s, WALLET)
    /\ Compensated(s)
    /\ UNCHANGED <<bookVars, refundRow, reversal, reversedBy, event, listed, ranked, broadcast>>

\* _undo_wallet_refund.
UndoWalletRefund(s) ==
    /\ Compensating(s, WALLET)
    /\ UndoRefund(Target, saga[s].amount)
    /\ refundRow' = [refundRow EXCEPT ![s] = "reversed"]
    /\ CompensatedOrIsCutOff(s)
    /\ UNCHANGED <<reversal, reversedBy, event, listed, ranked, broadcast>>

CompensationFailsCleanly(s) ==
    /\ \E i \in CascadeSteps : Compensating(s, i)
    /\ CompensationFailed(s)
    /\ UNCHANGED <<bookVars, refundRow, reversal, reversedBy, event, listed, ranked, broadcast>>

OutcomeOf(s) == IF saga[s].compFailures = {} THEN "failed_rolled_back"
                                            ELSE "failed_compensation_failed"

CascadeRollsBack(s) ==
    /\ Compensating(s, 0)
    /\ \E m \in {saga[s].meta, OutcomeOf(s)} :
          saga' = [saga EXCEPT ![s].status = OutcomeOf(s), ![s].meta = m]
    /\ UNCHANGED <<bookVars, refundRow, reversal, reversedBy, event, listed, ranked, broadcast>>

CascadeDies(s) ==
    /\ saga[s].alive /\ saga[s].status \in {"running", "compensating"}
    /\ saga' = [saga EXCEPT ![s].alive = FALSE]
    /\ UNCHANGED <<bookVars, refundRow, reversal, reversedBy, event, listed, ranked, broadcast>>
-----------------------------------------------------------------------------
SagaStep(s) ==
    \/ \E a \in Amounts, linked \in BOOLEAN : Start(s, a, linked)
    \/ \E d \in HandlerDays : DoWalletRefund(s, d)
    \/ FailsCleanly(s) \/ SkipUnlinked(s)
    \/ TakeSnapshot(s) \/ FindEvent(s) \/ UnlistEvent(s) \/ DeleteEvent(s)
    \/ ScrubSwallowsError(s)
    \/ DoReverseCommission(s) \/ EmitRefundEvent(s) \/ EmitSwallowsError(s)
    \/ CascadeSucceeds(s)
    \/ UndoReverseCommission(s) \/ UndoWalletRefund(s)
    \/ NothingToRestore(s) \/ RestoreEvent(s) \/ RelistEvent(s)
    \/ CompensationFailsCleanly(s) \/ CascadeRollsBack(s) \/ CascadeDies(s)

\* Everything else the wallet does meanwhile.
WalletStep == BookNext /\ UNCHANGED cascadeVars

Next == WalletStep \/ \E s \in Sagas : SagaStep(s)

Spec == Init /\ [][Next]_vars
-----------------------------------------------------------------------------
\* What is said below of Lone is true where it is the only saga: two on one
\* charge undo each other's effects.
Lone == CHOOSE s \in Sagas : TRUE

\* The attribution step has its effect when readers, who take the list where
\* there is no ZSET, do not find the event.
Effect(i) == \/ i = WALLET /\ refundRow[Lone] = "live"
             \/ i = ATTRIBUTION /\ ~(event /\ (ranked \/ listed > 0))
             \/ i = COMMISSION /\ reversal[Lone] = "applied"
             \/ i = BROADCAST /\ Lone \in broadcast
Effects == [i \in CascadeSteps |-> Effect(i)]
Status  == IF saga[Lone].status = "idle" THEN "starting" ELSE saga[Lone].status

Coordinator == INSTANCE Saga WITH
    N <- 4, BestEffort <- {ATTRIBUTION, COMMISSION, BROADCAST},
    status <- Status, meta <- saga[Lone].meta, completed <- saga[Lone].completed, failed <- saga[Lone].failed,
    undone <- saga[Lone].undone, compFailures <- saga[Lone].compFailures,
    applied <- Effects, alive <- saga[Lone].alive

(***************************************************************************)
(* The cascade is a saga: each step of its coroutine is a step of the      *)
(* coordinator (or none), whose guarantees it therefore has. Only the      *)
(* wallet refund is essential, the other actions may succeed in vain.      *)
(***************************************************************************)
IsSaga == Coordinator!SagaSpec

(***************************************************************************)
(* "Keep the commission ledger consistent so analytics + payouts don't     *)
(* double-count": once a lone cascade ended and no failure was dishonest,  *)
(* the commission is reversed exactly if the money went back. The list     *)
(* never names an event that is gone, wherever the scrub, its deadline and *)
(* the restoration are cut off (the ZSET goes on naming it); and a rollback*)
(* that calls itself clean left the event where readers find it, whichever *)
(* journey they read (_do_reverse_commission, _do_cleanup_attribution,     *)
(* _restore_attribution).                                                  *)
(***************************************************************************)
CommissionFollowsMoney ==
    Status \in Ended /\ Coordinator!HonestFailures
    => (reversedBy # None <=> saga[Lone].linked /\ refundRow[Lone] = "live")

ListNamesWhatExists == listed > 0 => event

RollbackFindsEvent ==
    Status = "failed_rolled_back" /\ saga[Lone].failed # ATTRIBUTION => event /\ listed > 0

PartnersAgree == CommissionFollowsMoney /\ ListNamesWhatExists /\ RollbackFindsEvent

(***************************************************************************)
(* Through refunds and their compensations, mixed with every other refund  *)
(* of the wallet, the balance is what came in minus what the charges took  *)
(* and did not repay (_do_wallet_refund, _undo_wallet_refund).             *)
(***************************************************************************)
BalanceMatchesRows == balance + SumFunction(HeldBy) = funded
=============================================================================
