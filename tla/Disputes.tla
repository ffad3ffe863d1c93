------------------------------ MODULE Disputes ------------------------------
(***************************************************************************)
(* The dispute router (app/routers/disputes.py) over the wallet rows of    *)
(* ChargeBook. Each request is a sequence of Redis round trips; between two*)
(* of them the other requests on the same dispute, on the same charge and  *)
(* the rest of the wallet move on. Only the charge row is protected by     *)
(* WATCH: dispute rows, the by-charge index and the counters are not.      *)
(*                                                                         *)
(* A request that is cut off is one that never takes its next step. A      *)
(* dispute is named by the request that opens it.                          *)
(***************************************************************************)
EXTENDS ChargeBook, FiniteSets, Functions

CONSTANTS Handlers,         \* the requests that reach the router
          AutoRefundUnder,  \* policy.auto_refund_under_cents
          RefundRollsBack,  \* whether a refund saga's later steps may fail
          NoOne

ASSUME DisputesAssumption == /\ IsFiniteSet(Handlers) /\ Handlers # {}
                             /\ NoOne \notin Handlers
                             /\ AutoRefundUnder \in Nat
                             /\ RefundRollsBack \in BOOLEAN

VARIABLES dispute,        \* dispute:{id}
          byCharge,       \* disputes:by_charge:{charge}
          pending,        \* disputes:queue:pending
          totalOpen,      \* disputes:stats total_open
          totalResolved,  \* disputes:stats total_resolved
          handler,        \* where each request is, and its local variables
          overlapped,     \* history: two requests have been in flight at once
          missed          \* history: disputes taken off the queue before they were on it

deskVars == <<dispute, byCharge, pending, totalOpen, totalResolved>>
history  == <<overlapped, missed>>
disputeVars == <<bookVars, deskVars, handler, history>>

OpenStates     == {"pending_review", "under_investigation"}
TerminalStates == {"resolved_refund_full", "resolved_refund_partial",
                   "resolved_reject", "withdrawn"}

DisputeRow == [status : {"none"} \cup OpenStates \cup TerminalStates,
               charge : Charges \cup {NoOne}, amount : Nat, refund : Nat]
NoDispute  == [status |-> "none", charge |-> NoOne, amount |-> 0, refund |-> 0]

Kinds == {"open", "reject", "refund_full", "refund_partial", "withdraw", "comment"}

\* An opener's stages, and those of a request that resolves (its own, or another's).
OpenerStages   == {"checked", "frozen", "recorded", "listed", "queued", "indexed", "counted"}
ResolverStages == {"looked", "refunding", "refunded", "settled", "resolved", "dequeued",
                   "uncounted", "rejected", "closing"}
HandlerStages  == {"idle", "done"} \cup OpenerStages \cup ResolverStages

\* case is the dispute a request is about, cents what it would refund.
HandlerState == [at : HandlerStages, kind : Kinds, case : Handlers \cup {NoOne},
                 charge : Charges \cup {NoOne}, cents : Nat]
IdleHandler  == [at |-> "idle", kind |-> "comment", case |-> NoOne, charge |-> NoOne, cents |-> 0]

DeskTypeOK == /\ BookTypeOK
              /\ dispute \in [Handlers -> DisputeRow]
              /\ byCharge \in [Charges -> Handlers \cup {NoOne}]
              /\ pending \subseteq Handlers
              /\ {totalOpen, totalResolved} \subseteq Int
              /\ handler \in [Handlers -> HandlerState]
              /\ overlapped \in BOOLEAN
              /\ missed \subseteq Handlers

DeskInit == /\ BookInit
            /\ dispute = [r \in Handlers |-> NoDispute]
            /\ byCharge = [c \in Charges |-> NoOne]
            /\ pending = {}
            /\ totalOpen = 0
            /\ totalResolved = 0
            /\ handler = [r \in Handlers |-> IdleHandler]
            /\ overlapped = FALSE
            /\ missed = {}

IsRecorded(d) == dispute[d].status # "none"
IsOpen(d)     == dispute[d].status \in OpenStates

HandlerAt(r, stage) == handler[r].at = stage
HandlerGoto(r, stage) == handler' = [handler EXCEPT ![r].at = stage]
Case(r) == handler[r].case
OnCharge(r) == handler[r].charge

IsListed(d)      == IsRecorded(d) /\ ~HandlerAt(d, "recorded")
NotQueuedYet(d)  == handler[d].at \in {"recorded", "listed"}
NotCountedYet(d) == handler[d].at \in {"recorded", "listed", "queued", "indexed"}

Handling == {r \in Handlers : handler[r].at \notin {"idle", "done"}}
Arrives(r) == /\ HandlerAt(r, "idle")
              /\ overlapped' = (overlapped \/ Handling # {})
              /\ missed' = missed
-----------------------------------------------------------------------------
(***************************************************************************)
(* open_dispute. Arriving, it looks the charge up in the index ...         *)
(***************************************************************************)
Open(r, c) ==
    /\ Arrives(r)
    /\ handler' = [handler EXCEPT ![r] =
                     [at |-> IF byCharge[c] = NoOne THEN "checked" ELSE "done",
                      kind |-> "open", case |-> r, charge |-> c, cents |-> 0]]
    /\ UNCHANGED <<bookVars, deskVars>>

\* ... freezes it (one already frozen will do), or gives up ...
FreezeOrFind(r) ==
    /\ HandlerAt(r, "checked")
    /\ IF charge[OnCharge(r)].status = "completed"
       THEN Freeze(OnCharge(r)) ELSE UNCHANGED bookVars
    /\ handler' = [handler EXCEPT ![r].at = IF charge'[OnCharge(r)].status = "disputed"
                                    THEN "frozen" ELSE "done",
                          ![r].cents = charge[OnCharge(r)].amount]
    /\ UNCHANGED deskVars

\* ... writes the record, lists it under its brand (from here others can name it),
\* queues it ...
Record(r) ==
    /\ HandlerAt(r, "frozen")
    /\ dispute' = [dispute EXCEPT ![r] = [status |-> "pending_review", charge |-> OnCharge(r),
                                          amount |-> handler[r].cents, refund |-> 0]]
    /\ HandlerGoto(r, "recorded")
    /\ UNCHANGED <<bookVars, byCharge, pending, totalOpen, totalResolved>>

List(r) ==
    /\ HandlerAt(r, "recorded")
    /\ HandlerGoto(r, "listed")
    /\ UNCHANGED <<bookVars, deskVars>>

Queue(r) ==
    /\ HandlerAt(r, "listed")
    /\ pending' = pending \cup {r}
    /\ HandlerGoto(r, "queued")
    /\ UNCHANGED <<bookVars, dispute, byCharge, totalOpen, totalResolved>>

\* ... indexes it by its charge, counts it ...
Index(r) ==
    /\ HandlerAt(r, "queued")
    /\ byCharge' = [byCharge EXCEPT ![OnCharge(r)] = r]
    /\ HandlerGoto(r, "indexed")
    /\ UNCHANGED <<bookVars, dispute, pending, totalOpen, totalResolved>>

Count(r) ==
    /\ HandlerAt(r, "indexed")
    /\ totalOpen' = totalOpen + 1
    /\ HandlerGoto(r, "counted")
    /\ UNCHANGED <<bookVars, dispute, byCharge, pending, totalResolved>>

\* ... and refunds a small one of a brand in good standing at once.
AutoRefund(r, d) ==
    /\ HandlerAt(r, "counted")
    /\ handler[r].cents < AutoRefundUnder
    /\ DisputeRefund(OnCharge(r), handler[r].cents, d)
    /\ HandlerGoto(r, "settled")
    /\ UNCHANGED deskVars

\* Mutant: the auto-approval goes on when the wallet refused.
AutoApproveAnyway(r) ==
    /\ HandlerAt(r, "counted")
    /\ HandlerGoto(r, "settled")
    /\ UNCHANGED <<bookVars, deskVars>>

\* Not small, not in good standing, or the refund was refused.
LeaveToAdmin(r) ==
    /\ HandlerAt(r, "counted")
    /\ HandlerGoto(r, "done")
    /\ UNCHANGED <<bookVars, deskVars>>
-----------------------------------------------------------------------------
(***************************************************************************)
(* admin_resolve, merchant_withdraw and admin_comment begin by reading the *)
(* dispute; none looks at it again.                                        *)
(***************************************************************************)
WantsToAct(d, kind, cents) == CASE kind = "comment"        -> dispute[d].status = "pending_review"
                                [] kind = "refund_partial" -> IsOpen(d) /\ cents <= dispute[d].amount
                                [] OTHER                   -> IsOpen(d)

Look(r, d, kind, cents) ==
    /\ Arrives(r)
    /\ IsListed(d)
    /\ handler' = [handler EXCEPT ![r] =
                     [at |-> IF WantsToAct(d, kind, cents) THEN "looked" ELSE "done",
                      kind |-> kind, case |-> d, charge |-> dispute[d].charge,
                      cents |-> IF kind = "refund_partial" THEN cents
                                ELSE IF kind = "refund_full" THEN dispute[d].amount ELSE 0]]
    /\ UNCHANGED <<bookVars, deskVars>>

Acts(r, kind) == HandlerAt(r, "looked") /\ handler[r].kind = kind

Comment(r) ==
    /\ Acts(r, "comment")
    /\ dispute' = [dispute EXCEPT ![Case(r)].status = "under_investigation"]
    /\ HandlerGoto(r, "done")
    /\ UNCHANGED <<bookVars, byCharge, pending, totalOpen, totalResolved>>

\* refund_full runs the refund cascade: the money moves in its first step.
RefundFull(r, d) ==
    /\ Acts(r, "refund_full")
    /\ DisputeRefund(OnCharge(r), handler[r].cents, d)
    /\ HandlerGoto(r, "refunding")
    /\ UNCHANGED deskVars

CascadeSucceeds(r) ==
    /\ HandlerAt(r, "refunding")
    /\ HandlerGoto(r, "settled")
    /\ UNCHANGED <<bookVars, deskVars>>

\* 502: the dispute stays open.
CascadeRollsBack(r) ==
    /\ HandlerAt(r, "refunding")
    /\ RefundRollsBack
    /\ UndoRefund(OnCharge(r), handler[r].cents)
    /\ HandlerGoto(r, "done")
    /\ UNCHANGED deskVars

RefundPartial(r, d) ==
    /\ Acts(r, "refund_partial")
    /\ DisputeRefund(OnCharge(r), handler[r].cents, d)
    /\ HandlerGoto(r, "refunded")
    /\ UNCHANGED deskVars

\* Mutant: the refusal goes unnoticed.
RefusalIgnored(r) ==
    /\ Acts(r, "refund_full") \/ Acts(r, "refund_partial")
    /\ ~Refundable(OnCharge(r)) \/ handler[r].cents > Remaining(OnCharge(r))
    /\ HandlerGoto(r, "settled")
    /\ UNCHANGED <<bookVars, deskVars>>

\* 502: the wallet refused.
RefundRefused(r) ==
    /\ Acts(r, "refund_full") \/ Acts(r, "refund_partial")
    /\ ~Refundable(OnCharge(r)) \/ handler[r].cents > Remaining(OnCharge(r))
    /\ HandlerGoto(r, "done")
    /\ UNCHANGED <<bookVars, deskVars>>

UnfreezeIfFrozen(c) == IF charge[c].status = "disputed" THEN Unfreeze(c) ELSE UNCHANGED bookVars

\* A partial refund and a withdrawal unfreeze first ...
UnfreezeBefore(r) ==
    /\ HandlerAt(r, "refunded") \/ Acts(r, "withdraw")
    /\ UnfreezeIfFrozen(OnCharge(r))
    /\ HandlerGoto(r, "settled")
    /\ UNCHANGED deskVars

(***************************************************************************)
(* _finalize_resolution: the record, with refund_cents only if there was a *)
(* refund, the queue and the two counters. The pipeline is no transaction: *)
(* its commands are served one by one, and one that breaks off has done the*)
(* first of them ...                                                       *)
(***************************************************************************)
Outcome(kind) == CASE kind \in {"open", "refund_full"} -> "resolved_refund_full"
                   [] kind = "refund_partial"          -> "resolved_refund_partial"
                   [] kind = "reject"                  -> "resolved_reject"
                   [] kind = "withdraw"                -> "withdrawn"

Resolved(row, kind, cents) ==
    [status |-> Outcome(kind), charge |-> row.charge, amount |-> row.amount,
     refund |-> IF cents > 0 THEN cents ELSE row.refund]

Resolve(r) ==
    /\ HandlerAt(r, "settled") \/ Acts(r, "reject")
    /\ dispute' = [dispute EXCEPT ![Case(r)] = Resolved(@, handler[r].kind, handler[r].cents)]
    /\ HandlerGoto(r, "resolved")
    /\ UNCHANGED <<bookVars, byCharge, pending, totalOpen, totalResolved>>

\* Mutant: the queue is left alone.
StaysQueued(r) ==
    /\ HandlerAt(r, "resolved")
    /\ HandlerGoto(r, "dequeued")
    /\ UNCHANGED <<bookVars, deskVars, missed>>

Dequeue(r) ==
    /\ HandlerAt(r, "resolved")
    /\ pending' = pending \ {Case(r)}
    /\ missed' = IF NotQueuedYet(Case(r)) THEN missed \cup {Case(r)} ELSE missed
    /\ HandlerGoto(r, "dequeued")
    /\ UNCHANGED <<bookVars, dispute, byCharge, totalOpen, totalResolved>>

\* Mutant: a resolved dispute stays counted open.
StaysCountedOpen(r) ==
    /\ HandlerAt(r, "dequeued")
    /\ HandlerGoto(r, "uncounted")
    /\ UNCHANGED <<bookVars, deskVars>>

CountNoLongerOpen(r) ==
    /\ HandlerAt(r, "dequeued")
    /\ totalOpen' = totalOpen - 1
    /\ HandlerGoto(r, "uncounted")
    /\ UNCHANGED <<bookVars, dispute, byCharge, pending, totalResolved>>

CountResolved(r) ==
    /\ HandlerAt(r, "uncounted")
    /\ totalResolved' = totalResolved + 1
    /\ HandlerGoto(r, IF handler[r].kind = "reject" THEN "rejected" ELSE "closing")
    /\ UNCHANGED <<bookVars, dispute, byCharge, pending, totalOpen>>

\* ... a rejection unfreezes afterwards ...
UnfreezeAfter(r) ==
    /\ HandlerAt(r, "rejected")
    /\ UnfreezeIfFrozen(OnCharge(r))
    /\ HandlerGoto(r, "closing")
    /\ UNCHANGED deskVars

\* Mutant: the index entry stays.
CloseKeepsIndex(r) ==
    /\ HandlerAt(r, "closing")
    /\ HandlerGoto(r, "done")
    /\ UNCHANGED <<bookVars, deskVars>>

\* ... and the index entry goes, whichever dispute it names.
Close(r) ==
    /\ HandlerAt(r, "closing")
    /\ byCharge' = [byCharge EXCEPT ![OnCharge(r)] = NoOne]
    /\ HandlerGoto(r, "done")
    /\ UNCHANGED <<bookVars, dispute, pending, totalOpen, totalResolved>>
-----------------------------------------------------------------------------
\* The rest of the wallet.
WalletGoesOn ==
    /\ \/ \E a \in Amounts : Credit(a)
       \/ \E c \in Charges, d \in HandlerDays :
             \/ Refund(c, d)
             \/ \E a \in Amounts : PostCharge(c, a, d) \/ ReverseCharge(c, a, d)
    /\ UNCHANGED <<deskVars, handler, history>>

Begin(r) ==
    \/ \E c \in Charges : Exists(c) /\ Open(r, c)
    \/ \E d \in Handlers, kind \in Kinds \ {"open"}, cents \in Amounts : Look(r, d, kind, cents)

GoOn(r) ==
    \/ FreezeOrFind(r) \/ Record(r) \/ List(r) \/ Queue(r) \/ Index(r) \/ Count(r)
    \/ LeaveToAdmin(r)
    \/ \E d \in HandlerDays : AutoRefund(r, d) \/ RefundFull(r, d) \/ RefundPartial(r, d)
    \/ CascadeSucceeds(r) \/ CascadeRollsBack(r) \/ RefundRefused(r)
    \/ Comment(r) \/ UnfreezeBefore(r)
    \/ Resolve(r) \/ CountNoLongerOpen(r) \/ CountResolved(r)
    \/ UnfreezeAfter(r) \/ Close(r)

DeskNext ==
    \/ WalletGoesOn
    \/ \E r \in Handlers :
         \/ Begin(r)
         \/ GoOn(r) /\ UNCHANGED history
         \/ Dequeue(r) /\ UNCHANGED overlapped

DeskSpec == DeskInit /\ [][DeskNext]_disputeVars
-----------------------------------------------------------------------------
(***************************************************************************)
(* "refund_full: wallet credit back full amount": whoever else handles the *)
(* dispute, the charge or another dispute on it meanwhile, once a record   *)
(* says so the charge has been repaid in full, and stays so; and all that  *)
(* the records together claim to have refunded on a charge was paid out.   *)
(***************************************************************************)
ClaimedOn(c) == SumFunctionOnSet([d \in Handlers |-> IF dispute[d].charge = c
                                                     THEN dispute[d].refund ELSE 0], Handlers)

RecordedRefundsArePaid ==
    /\ \A d \in Handlers : dispute[d].status = "resolved_refund_full" =>
           charge[dispute[d].charge].repaid = charge[dispute[d].charge].amount
    /\ \A c \in Charges : ClaimedOn(c) <= charge[c].repaid

(***************************************************************************)
(* Whatever races, a resolved dispute is on the queue only while a request *)
(* that resolves it is still to take it off, or when one did so before its *)
(* opener had put it on; and each counted dispute is counted open or       *)
(* resolved, or on its way from one to the other. Requests that never      *)
(* overlap keep more: "one open dispute per charge_id"; at rest the index  *)
(* names exactly that one (a stale entry would answer 409 to every later   *)
(* dispute), the queue holds the open ones and the counters count them, so *)
(* each was resolved at most once.                                         *)
(***************************************************************************)
Dequeuing(d)  == \E r \in Handlers : HandlerAt(r, "resolved") /\ Case(r) = d
CountedOnes   == {d \in Handlers : IsRecorded(d) /\ ~NotCountedYet(d)}
UncountedOnes == {r \in Handlers : HandlerAt(r, "uncounted")}

DeskAddsUp ==
    /\ \A d \in pending : IsOpen(d) \/ Dequeuing(d) \/ d \in missed
    /\ totalOpen + totalResolved + Cardinality(UncountedOnes) = Cardinality(CountedOnes)
    /\ ~overlapped /\ Handling = {} =>
           /\ \A c \in Charges, d \in Handlers :
                 byCharge[c] = d <=> IsOpen(d) /\ dispute[d].charge = c
           /\ pending = {d \in Handlers : IsOpen(d)}
           /\ totalOpen = Cardinality(pending)
           /\ totalResolved = Cardinality({d \in Handlers : dispute[d].status \in TerminalStates})
=============================================================================
