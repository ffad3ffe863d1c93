-------------------------------- MODULE Saga --------------------------------
(***************************************************************************)
(* The saga coordinator (app/saga.py, SagaCoordinator.run and              *)
(* _fail_and_compensate) over any list of steps: actions run in order, each*)
(* under a timeout; the first failure compensates the completed steps in   *)
(* reverse. A step is abstracted to whether its effect stands, which may   *)
(* show before the step returns. An action that raises or times out may    *)
(* have had its effect already: wait_for cancels the coroutine between two *)
(* Redis calls, or while the reply of the last one is on its way.          *)
(* _write_meta swallows the errors of Redis: what the hash of the saga says*)
(* may stay behind what its coroutine knows and tells its caller.          *)
(***************************************************************************)
EXTENDS Integers

CONSTANTS N,          \* number of steps
          BestEffort  \* steps that may report success without their effect:
                      \* they swallow an error, or may find nothing to do

ASSUME SagaAssumption == N \in Nat \ {0} /\ BestEffort \subseteq 1..N

VARIABLES status,       \* what the coroutine knows, and its SagaResult tells
          meta,         \* saga:{id}:meta status
          completed,    \* steps 1..completed are in the list completed
          failed,       \* the step that failed, 0 while none has
          undone,       \* steps undone..completed were compensated, or tried
          compFailures, \* steps whose compensation raised
          applied,      \* applied[i]: the effect of step i stands
          alive         \* the process running the coordinator

sagaVars == <<status, meta, completed, failed, undone, compFailures, applied, alive>>

Steps == 1..N
Essential == Steps \ BestEffort

Finished == {"succeeded", "failed_rolled_back", "failed_compensation_failed"}

SagaTypeOK == /\ status \in {"starting", "running", "compensating"} \cup Finished
              /\ meta \in {"none", "running"} \cup Finished
              /\ completed \in 0..N
              /\ failed \in 0..N
              /\ undone \in 1..N + 1
              /\ compFailures \subseteq Steps
              /\ applied \in [Steps -> BOOLEAN]
              /\ alive \in BOOLEAN

SagaInit == /\ status = "starting"
            /\ meta = "none"
            /\ completed = 0
            /\ failed = 0
            /\ undone = N + 1
            /\ compFailures = {}
            /\ applied = [i \in Steps |-> FALSE]
            /\ alive = TRUE

\* _write_meta: the write lands, or its error is logged and dropped.
WriteMeta(st) == meta' \in {meta, st}

Begin ==
    /\ alive /\ status = "starting"
    /\ status' = "running"
    /\ WriteMeta("running")
    /\ UNCHANGED <<completed, failed, undone, compFailures, applied, alive>>

Current == completed + 1

\* The effect of the step is there, the step has not returned.
StepActs ==
    /\ alive /\ status = "running" /\ Current \in Steps
    /\ applied' = [applied EXCEPT ![Current] = TRUE]
    /\ UNCHANGED <<status, meta, completed, failed, undone, compFailures, alive>>

StepSucceeds ==
    /\ alive /\ status = "running" /\ Current \in Steps
    /\ \E done \in BOOLEAN : /\ applied[Current] \/ Current \notin BestEffort => done
                             /\ applied' = [applied EXCEPT ![Current] = done]
    /\ completed' = Current
    /\ UNCHANGED <<status, meta, failed, undone, compFailures, alive>>

\* The step raises or times out, before or after its effect.
StepFails ==
    /\ alive /\ status = "running" /\ Current \in Steps
    /\ \E late \in BOOLEAN : applied' = [applied EXCEPT ![Current] = @ \/ late]
    /\ failed' = Current
    /\ undone' = Current
    /\ status' = "compensating"
    /\ UNCHANGED <<meta, completed, compFailures, alive>>

Succeed ==
    /\ alive /\ status = "running" /\ completed = N
    /\ status' = "succeeded"
    /\ WriteMeta("succeeded")
    /\ UNCHANGED <<completed, failed, undone, compFailures, applied, alive>>

Undoing == undone - 1

\* The effect is gone, the compensation has not returned.
CompensationActs ==
    /\ alive /\ status = "compensating" /\ Undoing \in Steps
    /\ applied' = [applied EXCEPT ![Undoing] = FALSE]
    /\ UNCHANGED <<status, meta, completed, failed, undone, compFailures, alive>>

\* Mutant: the steps are compensated in the order they ran.
CompensateOldestFirst ==
    /\ alive /\ status = "compensating" /\ Undoing \in Steps
    /\ applied' = [applied EXCEPT ![Current - Undoing] = FALSE]
    /\ undone' = Undoing
    /\ UNCHANGED <<status, meta, completed, failed, compFailures, alive>>

Compensate ==
    /\ alive /\ status = "compensating" /\ Undoing \in Steps
    /\ applied' = [applied EXCEPT ![Undoing] = FALSE]
    /\ undone' = Undoing
    /\ UNCHANGED <<status, meta, completed, failed, compFailures, alive>>

\* A compensation raises or times out; the loop goes on to the next one.
CompensationFails ==
    /\ alive /\ status = "compensating" /\ Undoing \in Steps
    /\ \E late \in BOOLEAN : applied' = [applied EXCEPT ![Undoing] = @ /\ ~late]
    /\ compFailures' = compFailures \cup {Undoing}
    /\ undone' = Undoing
    /\ UNCHANGED <<status, meta, completed, failed, alive>>

\* Mutant: failed compensations do not show.
OutcomeAlwaysClean == "failed_rolled_back"

OutcomeOfRollback == IF compFailures = {} THEN "failed_rolled_back"
                                          ELSE "failed_compensation_failed"

\* Mutant: the rollback ends by raising after a failed compensation.
FinishRollbackIfClean ==
    /\ alive /\ status = "compensating" /\ undone = 1 /\ compFailures = {}
    /\ status' = OutcomeOfRollback
    /\ WriteMeta(OutcomeOfRollback)
    /\ UNCHANGED <<completed, failed, undone, compFailures, applied, alive>>

FinishRollback ==
    /\ alive /\ status = "compensating" /\ undone = 1
    /\ status' = OutcomeOfRollback
    /\ WriteMeta(OutcomeOfRollback)
    /\ UNCHANGED <<completed, failed, undone, compFailures, applied, alive>>

\* The process dies or the request is cancelled (CancelledError is not an
\* Exception, so no handler catches it). Nothing resumes a saga.
Crash ==
    /\ alive /\ status \notin Finished
    /\ alive' = FALSE
    /\ UNCHANGED <<status, meta, completed, failed, undone, compFailures, applied>>

Advance == \/ Begin \/ StepActs \/ StepSucceeds \/ StepFails \/ Succeed
           \/ CompensationActs \/ Compensate \/ CompensationFails \/ FinishRollback

SagaNext == Advance \/ Crash

SagaSpec == SagaInit /\ [][SagaNext]_sagaVars

\* The coordinator is one coroutine: while its process lives it is resumed.
FairSpec == SagaInit /\ [][SagaNext]_sagaVars /\ WF_sagaVars(Advance)
-----------------------------------------------------------------------------
(***************************************************************************)
(* What a finished saga's status, as its caller learns it or as its hash   *)
(* keeps it, says of the effects: success means all that are not best      *)
(* effort; a clean rollback leaves at most that of the step that failed    *)
(* (its own compensation is never run); a dirty one leaves besides at most *)
(* those whose compensation failed. The hash may not say it (_write_meta), *)
(* but what it says of an end is true.                                     *)
(***************************************************************************)
Told(st) ==
    /\ st = "succeeded" => \A i \in Essential : applied[i]
    /\ st = "failed_rolled_back" => \A i \in Steps : applied[i] => i = failed
    /\ st = "failed_compensation_failed" =>
          \A i \in Steps : applied[i] => i = failed \/ i \in compFailures

StatusTellsEffects == Told(status) /\ Told(meta)

(***************************************************************************)
(* Effects are undone in reverse order (the loop over reversed(completed)):*)
(* while compensations succeed, the effects of the completed steps that    *)
(* still stand are a prefix, but for the one being undone.                 *)
(***************************************************************************)
UndoneInReverse ==
    status = "compensating" =>
        /\ \A i \in 1..completed : applied[i] => i < undone \/ i \in compFailures
        /\ \A i \in Essential : i < Undoing => applied[i]

\* No failure leaves an effect behind: the step that failed had none, and
\* every compensation returned.
HonestFailures == compFailures = {} /\ (failed # 0 => ~applied[failed])

(***************************************************************************)
(* A coordinator whose process survives ends and answers its caller,       *)
(* whatever its steps and compensations do. Its hash may keep saying       *)
(* "running" all the same: that write may be lost.                         *)
(***************************************************************************)
EndsUnlessKilled == <>(status \in Finished \/ ~alive)
=============================================================================
