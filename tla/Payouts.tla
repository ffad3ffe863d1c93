------------------------------ MODULE Payouts ------------------------------
(***************************************************************************)
(* Withdrawals (app/routers/payouts.py): commission that attribution owes  *)
(* a brand, or money of its wallet, is reserved in a payout, which an admin*)
(* marks paid or failed; a cron flushes the commission of scheduled brands.*)
(* Wallets are shared with the transfers of BrandLedger.                   *)
(*                                                                         *)
(* Creating a payout and moving it to another status are single MULTIs; an *)
(* admin's "process" is a read and up to two of them, and a cron run reads *)
(* schedule and commission, creates and stamps in separate round trips.    *)
(* A process that dies simply leaves: Leave.                               *)
(***************************************************************************)
EXTENDS BrandLedger, Functions

CONSTANTS Admins, Crons,
          Sellers,      \* the brands that withdraw
          Floors,       \* values of min_payout_cents
          Period,       \* FREQ_SECONDS of the schedule, in ticks
          MaxPayouts    \* bound on the payouts created

ASSUME PayoutsAssumption == /\ Sellers \subseteq Brands /\ Brands # {}
                            /\ Floors \subseteq Nat \ {0} /\ Floors # {}
                            /\ Period \in Nat \ {0}
                            /\ MaxPayouts \in Nat

VARIABLES owed,       \* brand:{b}:commission_owed
          pending,    \* brand:{b}:pending_payouts
          paidOut,    \* brand:{b}:paid_lifetime
          payouts,    \* payout:{id}; the id is the index
          verified,   \* brands with a verified bank account
          schedule,   \* brand:{b}:payout_schedule
          admin,      \* what each admin's process request has read and done
          cron,       \* where each cron run is
          income,     \* history: what each brand has earned and put in
          disturbed   \* history: cron runs have overlapped, or one has died

fundVars == <<owed, pending, paidOut, payouts>>
deskVars == <<verified, schedule, admin, cron, disturbed>>
vars == <<ledgerVars, fundVars, deskVars, income>>

Statuses == {"pending", "processing", "paid", "failed"}
Sources  == {"commission", "wallet_refund"}

\* cycle is the start of the cron run that created the payout, 0 if none did.
Payout   == [brand : Brands, amount : Nat \ {0}, source : Sources, status : Statuses, cycle : Nat]
Schedule == [auto : BOOLEAN, floor : Floors, lastRun : Nat]

AdminState == [at : {"idle", "begin", "pay"}, payout : Nat]
CronState  == [at : {"idle", "scanning", "due", "read", "created"},
               started : Nat, brand : Brands, amount : Nat]

NoRequest == [at |-> "idle", payout |-> 0]
NoRun     == [at |-> "idle", started |-> 0, brand |-> CHOOSE b \in Brands : TRUE, amount |-> 0]

PayoutsTypeOK == /\ {owed, pending, paidOut, income} \subseteq [Brands -> Int]
                 /\ payouts \in Seq(Payout)
                 /\ verified \subseteq Brands
                 /\ schedule \in [Brands -> Schedule]
                 /\ admin \in [Admins -> AdminState]
                 /\ cron \in [Crons -> CronState]
                 /\ disturbed \in BOOLEAN

TypeOK == LedgerTypeOK /\ PayoutsTypeOK

Zero == [b \in Brands |-> 0]

Init == /\ LedgerInit
        /\ owed = Zero /\ pending = Zero /\ paidOut = Zero /\ income = Zero
        /\ payouts = <<>>
        /\ verified = {}
        /\ schedule = [b \in Brands |-> [auto |-> FALSE, floor |-> CHOOSE f \in Floors : TRUE,
                                         lastRun |-> 0]]
        /\ admin = [a \in Admins |-> NoRequest]
        /\ cron = [k \in Crons |-> NoRun]
        /\ disturbed = FALSE

Plus(f, b, n) == [f EXCEPT ![b] = @ + n]
-----------------------------------------------------------------------------
(***************************************************************************)
(* _create_payout_locked: with the fund under WATCH, debit, reserve and    *)
(* record in one MULTI.                                                    *)
(***************************************************************************)
Fund(b, source) == IF source = "commission" THEN owed[b] ELSE wallet[b]

AddToFund(b, source, n) ==
    IF source = "commission"
    THEN owed' = Plus(owed, b, n) /\ UNCHANGED ledgerVars
    ELSE /\ wallet' = Plus(wallet, b, n)
         /\ UNCHANGED <<owed, known, ledger, idem, call, now>>

\* Mutant: the fund is not looked at again.
CreateUnchecked(b, amount, source, cycle) ==
    /\ Len(payouts) < MaxPayouts
    /\ AddToFund(b, source, -amount)
    /\ pending' = Plus(pending, b, amount)
    /\ payouts' = Append(payouts, [brand |-> b, amount |-> amount, source |-> source,
                                   status |-> "pending", cycle |-> cycle])
    /\ UNCHANGED <<paidOut, income>>

CreatePayout(b, amount, source, cycle) ==
    /\ Len(payouts) < MaxPayouts
    /\ amount <= Fund(b, source)
    /\ AddToFund(b, source, -amount)
    /\ pending' = Plus(pending, b, amount)
    /\ payouts' = Append(payouts, [brand |-> b, amount |-> amount, source |-> source,
                                   status |-> "pending", cycle |-> cycle])
    /\ UNCHANGED <<paidOut, income>>

\* An account, once verified, stays so: checking it first is harmless.
RequestPayout(b, amount, source) == /\ b \in verified
                                    /\ CreatePayout(b, amount, source, 0)
                                    /\ UNCHANGED deskVars

VerifyBankAccount(b) == /\ verified' = verified \cup {b}
                        /\ UNCHANGED <<ledgerVars, fundVars, schedule, admin, cron, disturbed, income>>
-----------------------------------------------------------------------------
(***************************************************************************)
(* _transition: the status, and with it the counters, under WATCH of the   *)
(* payout.                                                                 *)
(***************************************************************************)
ValidTransitions == {<<"pending", "processing">>, <<"pending", "failed">>,
                     <<"processing", "paid">>, <<"processing", "failed">>}

CanMove(p, status) == p \in DOMAIN payouts /\ <<payouts[p].status, status>> \in ValidTransitions

\* Mutant: failing a payout forgets its reservation.
TransitionKeepsReserve(p, status) ==
    /\ CanMove(p, status)
    /\ payouts' = [payouts EXCEPT ![p].status = status]
    /\ CASE status = "processing" -> UNCHANGED <<ledgerVars, owed, pending, paidOut>>
         [] status = "paid" -> /\ pending' = Plus(pending, payouts[p].brand, -payouts[p].amount)
                               /\ paidOut' = Plus(paidOut, payouts[p].brand, payouts[p].amount)
                               /\ UNCHANGED <<ledgerVars, owed>>
         [] status = "failed" -> /\ AddToFund(payouts[p].brand, payouts[p].source, payouts[p].amount)
                                 /\ UNCHANGED <<pending, paidOut>>
    /\ UNCHANGED income

Transition(p, status) ==
    /\ CanMove(p, status)
    /\ payouts' = [payouts EXCEPT ![p].status = status]
    /\ CASE status = "processing" -> UNCHANGED <<ledgerVars, owed, pending, paidOut>>
         [] status = "paid" -> /\ pending' = Plus(pending, payouts[p].brand, -payouts[p].amount)
                               /\ paidOut' = Plus(paidOut, payouts[p].brand, payouts[p].amount)
                               /\ UNCHANGED <<ledgerVars, owed>>
         [] status = "failed" -> /\ AddToFund(payouts[p].brand, payouts[p].source, payouts[p].amount)
                                 /\ pending' = Plus(pending, payouts[p].brand, -payouts[p].amount)
                                 /\ UNCHANGED paidOut
    /\ UNCHANGED income

FailPayout(p) == Transition(p, "failed") /\ UNCHANGED deskVars

OnlyAdminMoves(a, next) ==
    /\ admin' = [admin EXCEPT ![a] = next]
    /\ UNCHANGED <<verified, schedule, cron, disturbed>>

(***************************************************************************)
(* process_payout: read, then drive pending -> processing -> paid.         *)
(***************************************************************************)
ReadPayout(a, p) ==
    /\ admin[a].at = "idle"
    /\ p \in DOMAIN payouts
    /\ OnlyAdminMoves(a, [at |-> IF payouts[p].status = "pending" THEN "begin" ELSE "pay",
                          payout |-> p])
    /\ UNCHANGED <<ledgerVars, fundVars, income>>

BeginPayment(a) == /\ admin[a].at = "begin"
                   /\ Transition(admin[a].payout, "processing")
                   /\ OnlyAdminMoves(a, [at |-> "pay", payout |-> admin[a].payout])

Pay(a) == /\ admin[a].at = "pay"
          /\ Transition(admin[a].payout, "paid")
          /\ OnlyAdminMoves(a, NoRequest)

\* 409 at either transition, or the process dies.
Leave(a) == /\ admin[a].at # "idle"
            /\ OnlyAdminMoves(a, NoRequest)
            /\ UNCHANGED <<ledgerVars, fundVars, income>>
-----------------------------------------------------------------------------
\* configure_schedule leaves last_run_at alone.
ConfigureSchedule(b, auto, floor) ==
    /\ schedule' = [schedule EXCEPT ![b] = [auto |-> auto, floor |-> floor, lastRun |-> @.lastRun]]
    /\ UNCHANGED <<ledgerVars, fundVars, verified, admin, cron, disturbed, income>>

CronMoves(k, next) ==
    /\ cron' = [cron EXCEPT ![k] = next]
    /\ UNCHANGED <<verified, admin>>

Scanning(time) == [at |-> "scanning", started |-> time, brand |-> NoRun.brand, amount |-> 0]

Visiting(k, stage, b, amount) ==
    [at |-> stage, started |-> cron[k].started, brand |-> b, amount |-> amount]

\* cron_run takes the time once, for all the brands it scans.
CronStart(k) ==
    /\ cron[k].at = "idle"
    /\ CronMoves(k, Scanning(now))
    /\ disturbed' = (disturbed \/ \E l \in Crons : cron[l].at # "idle")
    /\ UNCHANGED <<ledgerVars, fundVars, schedule, income>>

Due(b, time) == schedule[b].lastRun = 0 \/ time >= schedule[b].lastRun + Period

\* The brand is scheduled, and its cycle is over ...
CronFinds(k, b) ==
    /\ cron[k].at = "scanning"
    /\ schedule[b].auto
    /\ Due(b, cron[k].started)
    /\ CronMoves(k, Visiting(k, "due", b, schedule[b].floor))
    /\ UNCHANGED <<ledgerVars, fundVars, schedule, disturbed, income>>

\* ... enough is owed and a bank account verified ...
CronReads(k) ==
    /\ cron[k].at = "due"
    /\ owed[cron[k].brand] >= cron[k].amount
    /\ cron[k].brand \in verified
    /\ CronMoves(k, Visiting(k, "read", cron[k].brand, owed[cron[k].brand]))
    /\ UNCHANGED <<ledgerVars, fundVars, schedule, disturbed, income>>

\* ... a payout of what was owed ...
CronCreates(k) ==
    /\ cron[k].at = "read"
    /\ CreatePayout(cron[k].brand, cron[k].amount, "commission", cron[k].started)
    /\ CronMoves(k, Visiting(k, "created", cron[k].brand, cron[k].amount))
    /\ UNCHANGED <<schedule, disturbed>>

\* Mutant: the stamp keeps the time of the run before.
CronForgetsStamp(k) ==
    /\ cron[k].at = "created"
    /\ CronMoves(k, Scanning(cron[k].started))
    /\ UNCHANGED <<ledgerVars, fundVars, schedule, disturbed, income>>

\* ... and the stamp that ends the cycle.
CronStamps(k) ==
    /\ cron[k].at = "created"
    /\ schedule' = [schedule EXCEPT ![cron[k].brand].lastRun = cron[k].started]
    /\ CronMoves(k, Scanning(cron[k].started))
    /\ UNCHANGED <<ledgerVars, fundVars, disturbed, income>>

\* Too little owed, no account, or no longer enough: the next brand.
CronSkips(k) ==
    /\ cron[k].at \in {"due", "read"}
    /\ CronMoves(k, Scanning(cron[k].started))
    /\ UNCHANGED <<ledgerVars, fundVars, schedule, disturbed, income>>

\* The run is over, or dies.
CronEnds(k) ==
    /\ cron[k].at # "idle"
    /\ CronMoves(k, NoRun)
    /\ disturbed' = (disturbed \/ cron[k].at = "created")
    /\ UNCHANGED <<ledgerVars, fundVars, schedule, income>>
-----------------------------------------------------------------------------
\* The source brand's share of a conversion (attribution.py).
Accrue(b, a) == /\ owed' = Plus(owed, b, a)
                /\ income' = Plus(income, b, a)
                /\ UNCHANGED <<ledgerVars, pending, paidOut, payouts, deskVars>>

\* The rest of the wallet and the clock.
WalletStep == /\ LedgerNext
              /\ income' = [b \in Brands |-> income[b] + (wallet'[b] - wallet[b])]
              /\ UNCHANGED <<fundVars, deskVars>>

BrandStep(b) ==
    \/ VerifyBankAccount(b)
    \/ \E auto \in BOOLEAN, f \in Floors : ConfigureSchedule(b, auto, f)
    \/ \E n \in Amounts : Accrue(b, n) \/ \E s \in Sources : RequestPayout(b, n, s)

AdminStep(a) == \/ \E p \in 1 .. MaxPayouts : ReadPayout(a, p)
                \/ BeginPayment(a) \/ Pay(a) \/ Leave(a)

CronStep(k) == \/ CronStart(k) \/ CronReads(k) \/ CronCreates(k) \/ CronStamps(k)
               \/ CronSkips(k) \/ CronEnds(k)
               \/ \E b \in Sellers : CronFinds(k, b)

Next == \/ WalletStep
        \/ \E b \in Sellers : BrandStep(b)
        \/ \E p \in 1 .. MaxPayouts : FailPayout(p)
        \/ \E a \in Admins : AdminStep(a)
        \/ \E k \in Crons : CronStep(k)

Spec == Init /\ [][Next]_vars
-----------------------------------------------------------------------------
(***************************************************************************)
(* Whatever races, every cent a brand earned or put in is owed to it, in   *)
(* its wallet, reserved or paid out, and in one of these only.             *)
(***************************************************************************)
MoneyConserved ==
    \A b \in Brands : owed[b] + wallet[b] + pending[b] + paidOut[b] = income[b]

(***************************************************************************)
(* The counters shown to the brand are the sums of its payouts: a payout   *)
(* that two admins process, or that one fails while another pays, is       *)
(* released once and counted once.                                         *)
(***************************************************************************)
AmountIn(b, statuses) ==
    SumFunction([p \in DOMAIN payouts |->
                    IF payouts[p].brand = b /\ payouts[p].status \in statuses
                    THEN payouts[p].amount ELSE 0])

CountersMatchPayouts ==
    \A b \in Brands : /\ pending[b] = AmountIn(b, {"pending", "processing"})
                      /\ paidOut[b] = AmountIn(b, {"paid"})

(***************************************************************************)
(* Neither commission nor wallet is ever overdrawn, though transfers, cron *)
(* runs and requests draw on what they read earlier.                       *)
(***************************************************************************)
NothingOverdrawn == NoOverdraft /\ \A b \in Brands : owed[b] >= 0

(***************************************************************************)
(* "a brand whose last_run_at is in this cycle is skipped": as long as runs*)
(* neither overlap nor die between payout and stamp, a brand gets at most  *)
(* one automatic payout in a cycle.                                        *)
(***************************************************************************)
OnePayoutPerCycle ==
    ~disturbed =>
        \A p, q \in DOMAIN payouts :
            /\ p < q
            /\ payouts[p].cycle > 0 /\ payouts[q].cycle > 0
            /\ payouts[p].brand = payouts[q].brand
            => payouts[p].cycle + Period <= payouts[q].cycle
=============================================================================
