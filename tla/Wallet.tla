------------------------------- MODULE Wallet -------------------------------
(***************************************************************************)
(* The wallet router as its callers meet it: charge requests that run      *)
(* concurrently, each a sequence of Redis round trips with other requests  *)
(* in between, top-up confirmations, refunds, the daily cap and the        *)
(* auto-recharges a charge sets off. The money itself moves only through   *)
(* the operations of ChargeBook.                                           *)
(***************************************************************************)
EXTENDS ChargeBook, Functions

CONSTANTS Refs,       \* reference_id / idempotency_key values callers supply
          NoRef,      \* a caller that supplies none (the code mints a uuid4)
          Topups,     \* topup ids
          Threshold,  \* auto-recharge fires below this balance
          Recharge,   \* auto-recharge topup_cents
          Settings,   \* auto-recharge settings a merchant chooses from
          None

ASSUME WalletAssumption == /\ NoRef \notin Refs
                           /\ None \notin Charges
                           /\ Threshold \in Nat
                           /\ Settings \subseteq BOOLEAN /\ Settings # {}
                           /\ Recharge \in Amounts

\* A charge id is minted by one request, so a request is named by that id.
Requests == Charges
ForMarketplace(r) == r \in MarketplaceCharges

\* wallet:{b}:charge_idem:{ref} and wallet:{b}:marketplace_idem:{tx}.
IdemKeys == {"charge", "marketplace"} \X Refs
IdemKey(r, ref) == <<IF ForMarketplace(r) THEN "marketplace" ELSE "charge", ref>>

VARIABLES req,       \* where each charge request is, and its local variables
          idem,      \* idempotency keys: the charge and its claim day
          topup,     \* wallet:topup:{id}
          seller,    \* wallet:user:{u}:balance of the sellers on the marketplace
          blocked,   \* auction:brand:{b}:budget_blocked
          asked,     \* wallet:{b}:auto_recharge_pending (v1 de-dupe flag)
          events,    \* length of wallet:auto_recharge_needed
          enabled,   \* brand:{b}:autorecharge enabled
          paused,    \* brand:{b}:autorecharge:paused_until is in the future
          bucket,    \* autorecharge_idem:{b}:{this second} is taken
          captured,  \* external: what the gateway took from the card
          unclaimed, \* history: requests that lived through a failed claim
          stranded   \* history: requests that ended between capture and credit

rechargeVars == <<asked, events, enabled, paused, bucket, captured>>
errorVars == <<unclaimed, stranded>>
vars == <<bookVars, req, idem, topup, seller, blocked, rechargeVars, errorVars>>

Stages == {"idle", "looked", "capped", "posted", "claimed", "asked", "due",
           "paying", "paid", "declined", "done", "crashed"}

\* seen is the request's new_balance, or -1 when it is a test trigger.
ReqState == [at : Stages, ref : Refs \cup {NoRef}, amount : Nat, day : Days, seen : Int]
IdleReq  == [at |-> "idle", ref |-> NoRef, amount |-> 0, day |-> 0, seen |-> 0]

IdemRow == [id : Charges \cup {None}, day : Days]
NoIdem  == [id |-> None, day |-> 0]

TopupRow == [status : {"none", "pending", "confirmed"}, amount : Nat]

TypeOK == /\ BookTypeOK
          /\ req \in [Requests -> ReqState]
          /\ idem \in [IdemKeys -> IdemRow]
          /\ topup \in [Topups -> TopupRow]
          /\ seller \in Int
          /\ {blocked, asked, enabled, paused, bucket} \subseteq BOOLEAN
          /\ events \in Nat
          /\ captured \in Nat
          /\ unclaimed \subseteq Requests
          /\ stranded \subseteq Requests

Init == /\ BookInit
        /\ req = [r \in Requests |-> IdleReq]
        /\ idem = [k \in IdemKeys |-> NoIdem]
        /\ topup = [t \in Topups |-> [status |-> "none", amount |-> 0]]
        /\ seller = 0
        /\ blocked = FALSE
        /\ asked = FALSE
        /\ events = 0
        /\ enabled \in Settings
        /\ paused = FALSE
        /\ bucket = FALSE
        /\ captured = 0
        /\ unclaimed = {}
        /\ stranded = {}

At(r, stage) == req[r].at = stage
Goto(r, stage) == req' = [req EXCEPT ![r].at = stage]
-----------------------------------------------------------------------------
(***************************************************************************)
(* charge, step by step. Arrive: compute today, look the reference up and  *)
(* short-circuit a replay.                                                 *)
(***************************************************************************)
Arrive(r, ref, a) ==
    /\ At(r, "idle")
    /\ ForMarketplace(r) => ref \in Refs
    /\ LET replay == ref \in Refs /\ idem[IdemKey(r, ref)].id # None IN
       req' = [req EXCEPT ![r] = [at |-> IF replay THEN "done" ELSE "looked",
                                  ref |-> ref, amount |-> a, day |-> today, seen |-> 0]]
    /\ UNCHANGED <<bookVars, idem, topup, seller, blocked, rechargeVars, errorVars>>

\* What the rest of the request knows: new_balance.
Posted(q, left) == [at |-> "posted", ref |-> q.ref, amount |-> q.amount,
                    day |-> q.day, seen |-> left]

Post(r) ==
    /\ At(r, "looked")
    /\ ~ForMarketplace(r)
    /\ PostCharge(r, req[r].amount, req[r].day)
    /\ req' = [req EXCEPT ![r] = Posted(req[r], balance')]
    /\ UNCHANGED <<idem, topup, seller, blocked, rechargeVars, errorVars>>

\* marketplace_charge debits the seller's fee wallet unconditionally ("going
\* negative is allowed for accounting").
PostMarketplace(r) ==
    /\ At(r, "looked")
    /\ ForMarketplace(r)
    /\ PostMarketplaceCharge(r, req[r].amount)
    /\ seller' = seller - req[r].amount
    /\ Goto(r, "posted")
    /\ UNCHANGED <<idem, topup, blocked, rechargeVars, errorVars>>

\* 402 insufficient_funds, and 503 charge_contention when eight WATCH rounds
\* lost to other writers: neither changes anything.
Refuse(r) ==
    /\ At(r, "looked")
    /\ ~ForMarketplace(r)
    /\ \/ ~Affordable(req[r].amount)
       \/ \E other \in Requests \ {r} : Exists(other)
    /\ Goto(r, "done")
    /\ UNCHANGED <<bookVars, idem, topup, seller, blocked, rechargeVars, errorVars>>

\* 402 daily_budget_exceeded: the block flag is set after UNWATCH.
HitCap(r) ==
    /\ At(r, "looked")
    /\ ~ForMarketplace(r)
    /\ Affordable(req[r].amount)
    /\ ~WithinCap(req[r].amount, req[r].day)
    /\ Goto(r, "capped")
    /\ UNCHANGED <<bookVars, idem, topup, seller, blocked, rechargeVars, errorVars>>

SetBudgetBlocked(r) ==
    /\ At(r, "capped")
    /\ blocked' = TRUE
    /\ Goto(r, "done")
    /\ UNCHANGED <<bookVars, idem, topup, seller, rechargeVars, errorVars>>

\* Mutant: the key is never set.
ClaimNothing(r) ==
    /\ At(r, "posted")
    /\ Goto(r, IF ForMarketplace(r) THEN "done" ELSE "claimed")
    /\ UNCHANGED <<bookVars, idem, topup, seller, blocked, rechargeVars, errorVars>>

\* SET NX EX 86400 after the charge committed; no reference, no key.
ClaimIdem(r) ==
    /\ At(r, "posted")
    /\ LET key == IdemKey(r, req[r].ref) IN
       idem' = IF req[r].ref \in Refs /\ idem[key].id = None
               THEN [idem EXCEPT ![key] = [id |-> r, day |-> today]]
               ELSE idem
    /\ Goto(r, IF ForMarketplace(r) THEN "done" ELSE "claimed")
    /\ UNCHANGED <<bookVars, topup, seller, blocked, rechargeVars, errorVars>>

\* The SET raised: logged, and the request goes on without its key.
ClaimFails(r) ==
    /\ At(r, "posted")
    /\ req[r].ref \in Refs
    /\ unclaimed' = unclaimed \cup {r}
    /\ Goto(r, IF ForMarketplace(r) THEN "done" ELSE "claimed")
    /\ UNCHANGED <<bookVars, idem, topup, seller, blocked, rechargeVars, stranded>>

\* _maybe_auto_recharge (v1): one queued event per 600-second flag.
AskRecharge(r) ==
    /\ At(r, "claimed")
    /\ IF req[r].seen < Threshold /\ ~asked
       THEN asked' = TRUE /\ events' = events + 1
       ELSE UNCHANGED <<asked, events>>
    /\ Goto(r, "asked")
    /\ UNCHANGED <<bookVars, idem, topup, seller, blocked, enabled, paused, bucket, captured, errorVars>>

\* _v2_maybe_trigger: settings, threshold and pause are read ...
ConsiderRecharge(r) ==
    /\ At(r, "asked")
    /\ Goto(r, IF enabled /\ req[r].seen < Threshold /\ ~paused THEN "due" ELSE "done")
    /\ UNCHANGED <<bookVars, idem, topup, seller, blocked, rechargeVars, errorVars>>

\* ... then this second's bucket is claimed with SET NX ...
ClaimBucket(r) ==
    /\ At(r, "due")
    /\ bucket' = TRUE
    /\ Goto(r, IF bucket THEN "done" ELSE "paying")
    /\ UNCHANGED <<bookVars, idem, topup, seller, blocked, asked, events, enabled, paused, captured, errorVars>>

\* Mutant: the request ends with the capture.
GatewayTakesUnrecorded(r) ==
    /\ At(r, "paying")
    /\ captured' = captured + Recharge
    /\ Goto(r, "done")
    /\ UNCHANGED <<bookVars, idem, topup, seller, blocked, asked, events, enabled, paused, bucket, errorVars>>

\* ... then the card is charged (external gateway) ...
GatewayTakes(r) ==
    /\ At(r, "paying")
    /\ captured' = captured + Recharge
    /\ Goto(r, "paid")
    /\ UNCHANGED <<bookVars, idem, topup, seller, blocked, asked, events, enabled, paused, bucket, errorVars>>

\* Mutant: a declined card counts as charged.
GatewayDeclinesUnnoticed(r) ==
    /\ At(r, "paying")
    /\ Goto(r, "paid")
    /\ UNCHANGED <<bookVars, idem, topup, seller, blocked, rechargeVars, errorVars>>

GatewayDeclines(r) ==
    /\ At(r, "paying")
    /\ Goto(r, "declined")
    /\ UNCHANGED <<bookVars, idem, topup, seller, blocked, rechargeVars, errorVars>>

\* Whatever the gateway client raises counts as declined: an answer lost after
\* the card was charged, too.
GatewayAnswerLost(r) ==
    /\ At(r, "paying")
    /\ captured' = captured + Recharge
    /\ stranded' = stranded \cup {r}
    /\ Goto(r, "declined")
    /\ UNCHANGED <<bookVars, idem, topup, seller, blocked, asked, events, enabled, paused, bucket, unclaimed>>

\* ... and only then the wallet is credited, or recharging pauses for 24h.
CreditRecharge(r) ==
    /\ At(r, "paid")
    /\ Credit(Recharge)
    /\ Goto(r, "done")
    /\ UNCHANGED <<idem, topup, seller, blocked, rechargeVars, errorVars>>

PauseRecharge(r) ==
    /\ At(r, "declined")
    /\ paused' = TRUE
    /\ Goto(r, "done")
    /\ UNCHANGED <<bookVars, idem, topup, seller, blocked, asked, events, enabled, bucket, captured, errorVars>>

\* Any of these calls may raise instead, the credit itself included: the charge
\* path swallows it and answers success.
RechargeRaises(r) ==
    /\ req[r].at \in {"asked", "due", "paid", "declined"}
    /\ stranded' = IF At(r, "paid") THEN stranded \cup {r} ELSE stranded
    /\ Goto(r, "done")
    /\ UNCHANGED <<bookVars, idem, topup, seller, blocked, rechargeVars, unclaimed>>

\* POST /autorecharge/test-trigger lifts the pause and runs the same code
\* with new_balance = -1.
TestTrigger(r) ==
    /\ At(r, "idle")
    /\ ~ForMarketplace(r)
    /\ enabled
    /\ paused' = FALSE
    /\ req' = [req EXCEPT ![r] = [at |-> "asked", ref |-> NoRef, amount |-> 0,
                                  day |-> today, seen |-> -1]]
    /\ UNCHANGED <<bookVars, idem, topup, seller, blocked, asked, events, enabled, bucket, captured, errorVars>>

\* The worker process dies, or the client hangs up and the task is cancelled.
Crash(r) ==
    /\ req[r].at \notin {"idle", "done", "crashed"}
    /\ stranded' = IF At(r, "paid") THEN stranded \cup {r} ELSE stranded
    /\ Goto(r, "crashed")
    /\ UNCHANGED <<bookVars, idem, topup, seller, blocked, rechargeVars, unclaimed>>
-----------------------------------------------------------------------------
CreateTopup(t, a) ==
    /\ topup[t].status = "none"
    /\ topup' = [topup EXCEPT ![t] = [status |-> "pending", amount |-> a]]
    /\ UNCHANGED <<bookVars, req, idem, seller, blocked, rechargeVars, errorVars>>

\* A repeated confirmation (provider webhook plus redirect) finds the row
\* confirmed and returns without crediting.
ConfirmTopup(t) ==
    /\ topup[t].status = "pending"
    /\ topup' = [topup EXCEPT ![t].status = "confirmed"]
    /\ Credit(topup[t].amount)
    /\ UNCHANGED <<req, idem, seller, blocked, rechargeVars, errorVars>>

\* refund and the two helpers other routers call, at any moment of a charge.
RefundSome(c, d) ==
    /\ \/ Refund(c, d)
       \/ \E a \in Amounts : DisputeRefund(c, a, d) \/ ReverseCharge(c, a, d)
    /\ UNCHANGED <<req, idem, topup, seller, blocked, rechargeVars, errorVars>>

FreezeSome(c) ==
    /\ Freeze(c) \/ Unfreeze(c)
    /\ UNCHANGED <<req, idem, topup, seller, blocked, rechargeVars, errorVars>>

SetBudget(b) ==
    /\ SetDailyBudget(b)
    /\ UNCHANGED <<req, idem, topup, seller, blocked, rechargeVars, errorVars>>

\* PUT /autorecharge and POST /autorecharge/disable.
SetEnabled(on) ==
    /\ enabled # on
    /\ enabled' = on
    /\ UNCHANGED <<bookVars, req, idem, topup, seller, blocked, asked, events, paused, bucket, captured, errorVars>>
-----------------------------------------------------------------------------
\* Time. The block flag's TTL ends at midnight; a reference is forgotten
\* 24 hours after its claim, a day's counter 25 hours after its last charge;
\* the others outlive no more than their TTL. The day's handlers end before a
\* second midnight passes.
NewDay ==
    /\ Midnight
    /\ \A r \in Requests : req[r].at \in {"idle", "done", "crashed"} \/ req[r].day = today
    /\ blocked' = FALSE
    /\ UNCHANGED <<req, idem, topup, seller, rechargeVars, errorVars>>

ForgetRef(k) ==
    /\ idem[k].id # None
    /\ idem[k].day < today
    /\ idem' = [idem EXCEPT ![k] = NoIdem]
    /\ UNCHANGED <<bookVars, req, topup, seller, blocked, rechargeVars, errorVars>>

CounterExpires(d) ==
    /\ CounterLapses(d)
    /\ UNCHANGED <<req, idem, topup, seller, blocked, rechargeVars, errorVars>>

FlagsExpire ==
    /\ asked' \in {asked, FALSE}
    /\ paused' \in {paused, FALSE}
    /\ bucket' = FALSE
    /\ UNCHANGED <<bookVars, req, idem, topup, seller, blocked, events, enabled, captured, errorVars>>

\* The rest of a request that was let in: what the event loop will run.
Continue(r) == \/ Post(r) \/ PostMarketplace(r) \/ Refuse(r) \/ HitCap(r) \/ SetBudgetBlocked(r)
               \/ ClaimIdem(r) \/ AskRecharge(r) \/ ConsiderRecharge(r)
               \/ ClaimBucket(r) \/ GatewayTakes(r) \/ GatewayDeclines(r)
               \/ CreditRecharge(r) \/ PauseRecharge(r)

\* What may go wrong with it instead: an error it lives through, or its end.
Fail(r) == ClaimFails(r) \/ GatewayAnswerLost(r) \/ RechargeRaises(r) \/ Crash(r)

Next ==
    \/ NewDay
    \/ \E d \in Days : CounterExpires(d)
    \/ FlagsExpire
    \/ \E k \in IdemKeys : ForgetRef(k)
    \/ \E r \in Requests : \/ \E ref \in Refs \cup {NoRef}, a \in Amounts : Arrive(r, ref, a)
                           \/ TestTrigger(r)
                           \/ Continue(r)
                           \/ Fail(r)
    \/ \E t \in Topups : (\E a \in Amounts : CreateTopup(t, a)) \/ ConfirmTopup(t)
    \/ \E c \in Charges : FreezeSome(c) \/ \E d \in HandlerDays : RefundSome(c, d)
    \/ \E b \in Budgets : SetBudget(b)
    \/ \E on \in Settings : SetEnabled(on)

Spec == Init /\ [][Next]_vars

\* A task the event loop is running runs on, unless it fails.
FairSpec == Spec /\ \A r \in Requests : WF_vars(Continue(r))
-----------------------------------------------------------------------------
(***************************************************************************)
(* A retry of a charge whose first attempt has returned does not pass the  *)
(* idempotency lookup: only while that attempt sits between its commit and *)
(* its claim, died there, lived through a claim that failed, or was        *)
(* forgotten after 24 hours, is the retry let through (charge,             *)
(* marketplace_charge).                                                    *)
(***************************************************************************)
ReplayShortCircuits ==
    [][\A r, q \in Requests :
         (/\ At(r, "idle") /\ At(r, "looked")'
          /\ req[r].ref' \in Refs
          /\ Exists(q) /\ IdemKey(q, req[q].ref) = IdemKey(r, req[r].ref'))
         => \/ req[q].at \in {"posted", "crashed"}
            \/ q \in unclaimed
            \/ req[q].day < today]_vars

(***************************************************************************)
(* Every cent on the balance came from somewhere: confirmed top-ups, fees  *)
(* of marketplace sales, and recharges the card really paid for, each once *)
(* (two charges that drop below the threshold together may both recharge). *)
(* And nothing the card paid is missing from it but what a request holds,  *)
(* or lost when its gateway's answer or its own credit failed, or died.    *)
(***************************************************************************)
ToppedUp  == SumFunction([t \in Topups |-> IF topup[t].status = "confirmed"
                                           THEN topup[t].amount ELSE 0])
TakenFees == SumFunction([c \in MarketplaceCharges |-> charge[c].amount])
InFlight  == SumFunction([r \in Requests |-> IF At(r, "paid") THEN Recharge ELSE 0])
Stranded  == SumFunction([r \in Requests |-> IF r \in stranded THEN Recharge ELSE 0])

EveryCreditHasASource == funded + InFlight + Stranded = ToppedUp + TakenFees + captured

(***************************************************************************)
(* The lifetime and daily counters agree with the charge rows they count,  *)
(* the daily ones for as long as they live.                                *)
(***************************************************************************)
CountersMatchRows ==
    /\ totalSpent = SumFunction(dailySpent) + lapsed
    /\ totalSpent = SumFunction([c \in Charges \ MarketplaceCharges |-> charge[c].amount])
                    - SumFunction([c \in Charges |-> charge[c].repaid])

(***************************************************************************)
(* While requests run on, a card that was charged is credited: no capture  *)
(* stays in flight for ever, and one that is not credited is one a failed  *)
(* answer, a failed credit or a request's death stranded.                  *)
(***************************************************************************)
CapturedIsCredited ==
    captured > 0 ~> funded + Stranded >= ToppedUp + TakenFees + captured
=============================================================================
