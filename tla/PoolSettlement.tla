--------------------------- MODULE PoolSettlement ---------------------------
(***************************************************************************)
(* A voucher pool (app/services/voucher_pool.py): a voucher one brand      *)
(* issued is burnt at another, which the flow from the first to the second *)
(* records; and the settlement worker                                      *)
(* (app/workers/voucher_pool_settlement_worker.py), which reads the flows  *)
(* edge by edge, plans transfers that level the net positions and pays     *)
(* them leg by leg through the ledger of BrandLedger.                      *)
(*                                                                         *)
(* Workers may overlap, die between any two steps and be run again; the    *)
(* settle endpoint is a sweep that stops after the plan. Brands are        *)
(* numbers, as plans sort them.                                            *)
(***************************************************************************)
EXTENDS BrandLedger, FiniteSets, Functions

CONSTANTS Faces,        \* face values of vouchers
          Percent,      \* reciprocity: the credit at a brand, per cent of the face value
          Cap,          \* restriction max_amount_cents, 0 if there is none
          VoucherTtl,   \* life of a voucher (90 days), in ticks
          WeekLength,   \* SETTLEMENT_WEEK_SECONDS, in ticks
          Txns,         \* keys of redemptions
          Storefronts,  \* redemption requests that may be under way at once
          Leavers,      \* members that may leave and come back
          Funds,        \* what each wallet holds at first
          MaxVouchers   \* bound on the vouchers issued

ASSUME PoolAssumption == /\ Brands \subseteq Nat /\ IsFiniteSet(Brands) /\ Leavers \subseteq Brands
                         /\ Faces \subseteq Nat \ {0}
                         /\ Percent \in [Brands -> [Brands -> Nat]]
                         /\ {Cap, VoucherTtl, MaxVouchers} \subseteq Nat
                         /\ {WeekLength, Funds, LastTick} \subseteq Nat \ {0}
                         /\ Idle \notin Txns

VARIABLES members,   \* pool:{p}:brands
          vouchers,  \* pool_voucher:{v}; the id is the index
          flow,      \* pool:{p}:flow:{src}:{dst}
          claims,    \* the idempotency keys of redemptions: the voucher and when
          till,      \* the redemptions between validation and burn
          sweep,     \* where each worker is
          snapshot,  \* pool:{p}:settlement:{week}: the legs reported executed
          first,     \* history: the first plan ...
          same       \* ... and whether every plan since saw the same in the same week

poolVars   == <<members, vouchers, flow, claims, till>>
settleVars == <<sweep, snapshot, first, same>>
settlementVars == <<ledgerVars, poolVars, settleVars>>

Edges == Brands \X Brands
Week(time) == time \div WeekLength
Weeks == 0 .. Week(LastTick)
LegKeys == Weeks \X Brands \X Brands

ASSUME LegKeysAssumption == LegKeys \subseteq Keys

Leg == [from : Brands, to : Brands, amount : Nat \ {0}]

Unclaimed == [voucher |-> 0, at |-> 0]
NoFlows   == [e \in Edges |-> 0]
NoPlan    == [seen |-> NoFlows, legs |-> <<>>, week |-> 0, at |-> 0]
Resting   == [at |-> "idle", week |-> 0, todo |-> {}, seen |-> NoFlows, plan |-> <<>>,
              leg |-> 1, executed |-> {}, failed |-> FALSE]

Voucher == [source : Brands, face : Faces, expires : Nat, status : {"issued", "redeemed"},
            target : Brands, credit : Nat, txn : Txns \cup {Idle}, at : Nat]

Sale == [voucher : 1 .. MaxVouchers, brand : Brands, txn : Txns]

PoolTypeOK ==
    /\ LedgerTypeOK
    /\ members \subseteq Brands
    /\ vouchers \in Seq(Voucher)
    /\ flow \in [Edges -> Nat]
    /\ claims \in [Txns -> [voucher : 0 .. Len(vouchers), at : Nat]]
    /\ till \in [Storefronts -> Sale \cup {Idle}]
    /\ \A w \in Callers : /\ sweep[w].at \in {"idle", "reading", "paying"}
                          /\ sweep[w].week \in Weeks
                          /\ sweep[w].todo \subseteq Edges
                          /\ sweep[w].seen \in [Edges -> Nat]
                          /\ sweep[w].plan \in Seq(Leg)
                          /\ sweep[w].leg \in 1 .. Len(sweep[w].plan) + 1
                          /\ sweep[w].executed \subseteq DOMAIN sweep[w].plan
    /\ snapshot \in [Weeks -> SUBSET Leg]

\* The wallets have been topped up.
PoolInit == /\ wallet = [b \in Brands |-> Funds] /\ known = Brands
            /\ ledger = <<>> /\ idem = [k \in Keys |-> 0]
            /\ call = [w \in Callers |-> Idle] /\ now = 1
            /\ members = Brands
            /\ vouchers = <<>>
            /\ flow = [e \in Edges |-> 0]
            /\ claims = [t \in Txns |-> Unclaimed]
            /\ till = [h \in Storefronts |-> Idle]
            /\ sweep = [w \in Callers |-> Resting]
            /\ snapshot = [k \in Weeks |-> {}]
            /\ first = NoPlan
            /\ same = TRUE
-----------------------------------------------------------------------------
JoinPool(b)  == members' = members \cup {b}
LeavePool(b) == members' = members \ {b}

IssueVoucher(b, face) ==
    /\ Len(vouchers) < MaxVouchers
    /\ b \in members
    /\ vouchers' = Append(vouchers, [source |-> b, face |-> face, expires |-> now + VoucherTtl,
                                     status |-> "issued", target |-> b, credit |-> 0,
                                     txn |-> Idle, at |-> 0])

\* Python's round: halves go to the even neighbour.
RoundPercent(n) ==
    LET q == n \div 100  r == n % 100
    IN  IF r > 50 \/ (r = 50 /\ q % 2 = 1) THEN q + 1 ELSE q

Credit(src, dst, face) ==
    LET c == RoundPercent(face * Percent[src][dst]) IN IF Cap > 0 /\ c > Cap THEN Cap ELSE c

Claimed(t) == claims[t] # Unclaimed /\ now < claims[t].at + KeyTtl

(***************************************************************************)
(* record_redemption: the key is free, and the voucher, the pool and its   *)
(* members allow the sale ...                                              *)
(***************************************************************************)
Redeemable(v, b) == /\ v \in DOMAIN vouchers
                    /\ vouchers[v].status = "issued"
                    /\ now <= vouchers[v].expires
                    /\ b \in members

Validate(h, v, b, t) ==
    /\ till[h] = Idle
    /\ ~Claimed(t)
    /\ Redeemable(v, b)
    /\ till' = [till EXCEPT ![h] = [voucher |-> v, brand |-> b, txn |-> t]]
    /\ UNCHANGED <<members, vouchers, flow, claims>>

\* ... and the MULTI, if voucher and key (but not the members) are as they were.
Record(h) ==
    LET s == till[h]
        v == vouchers[s.voucher]
        c == Credit(v.source, s.brand, v.face)
    IN  /\ vouchers' = [vouchers EXCEPT ![s.voucher] =
                            [v EXCEPT !.status = "redeemed", !.target = s.brand, !.credit = c,
                                      !.txn = s.txn, !.at = now]]
        /\ flow' = [flow EXCEPT ![<<v.source, s.brand>>] = @ + c]
        /\ claims' = [claims EXCEPT ![s.txn] = [voucher |-> s.voucher, at |-> now]]
        /\ till' = [till EXCEPT ![h] = Idle]
        /\ UNCHANGED members

\* Mutants: the voucher, or the key, is not watched.
BurnUnwatched(h) == till[h] # Idle /\ ~Claimed(till[h].txn) /\ Record(h)
BurnUnclaimed(h) == till[h] # Idle /\ vouchers[till[h].voucher].status = "issued" /\ Record(h)

Burn(h) == /\ till[h] # Idle
           /\ vouchers[till[h].voucher].status = "issued"
           /\ ~Claimed(till[h].txn)
           /\ Record(h)

\* A WatchError (the caller may try again) or the request is cut off.
GiveUp(h) == /\ till[h] # Idle
             /\ till' = [till EXCEPT ![h] = Idle]
             /\ UNCHANGED <<members, vouchers, flow, claims>>
-----------------------------------------------------------------------------
(***************************************************************************)
(* compute_net_positions scans the flow keys: it returns every key that    *)
(* was there when it began, and perhaps some that were not, and reads each *)
(* flow by itself.                                                         *)
(***************************************************************************)
SweepStart(w) ==
    /\ sweep[w] = Resting
    /\ sweep' = [sweep EXCEPT ![w].at = "reading", ![w].week = Week(now),
                              ![w].todo = {e \in Edges : flow[e] > 0}]
    /\ UNCHANGED <<ledgerVars, snapshot, first, same>>

ReadFlow(w, e) ==
    /\ sweep[w].at = "reading"
    /\ flow[e] > 0
    /\ sweep[w].seen[e] = 0
    /\ sweep' = [sweep EXCEPT ![w].seen[e] = flow[e]]
    /\ UNCHANGED <<ledgerVars, snapshot, first, same>>

NetPosition(seen, b) == SumFunctionOnSet(seen, {e \in Edges : e[2] = b})
                        - SumFunctionOnSet(seen, {e \in Edges : e[1] = b})

Positions(seen) == [b \in Brands |-> NetPosition(seen, b)]

(***************************************************************************)
(* plan_settlement_transfers: the largest debtor that still owes pays the  *)
(* largest creditor that is still owed, as far as both go. The order is    *)
(* that of the positions at first, and of the brands among equals.         *)
(***************************************************************************)
Abs(n) == IF n < 0 THEN -n ELSE n

Before(net, b, c) == Abs(net[b]) > Abs(net[c]) \/ (Abs(net[b]) = Abs(net[c]) /\ b <= c)

Largest(net, bs) == CHOOSE b \in bs : \A c \in bs : Before(net, b, c)

Debtors(left)   == {b \in Brands : left[b] < 0}
Creditors(left) == {b \in Brands : left[b] > 0}

\* Mutant: both move on after each transfer.
MatchOnce(net, m) ==
    LET d == Largest(net, Debtors(m.left))
        c == Largest(net, Creditors(m.left))
        pay == IF -m.left[d] < m.left[c] THEN -m.left[d] ELSE m.left[c]
    IN  IF Debtors(m.left) = {} \/ Creditors(m.left) = {} THEN m
        ELSE [left |-> [m.left EXCEPT ![d] = 0, ![c] = 0],
              legs |-> Append(m.legs, [from |-> d, to |-> c, amount |-> pay])]

Match(net, m) ==
    LET d == Largest(net, Debtors(m.left))
        c == Largest(net, Creditors(m.left))
        pay == IF -m.left[d] < m.left[c] THEN -m.left[d] ELSE m.left[c]
    IN  IF Debtors(m.left) = {} \/ Creditors(m.left) = {} THEN m
        ELSE [left |-> [m.left EXCEPT ![d] = @ + pay, ![c] = @ - pay],
              legs |-> Append(m.legs, [from |-> d, to |-> c, amount |-> pay])]

\* Each transfer is the last one for its debtor or its creditor.
Rounds == Cardinality(Brands)

Matching(net) ==
    LET run[n \in 0 .. Rounds] == IF n = 0 THEN [left |-> net, legs |-> <<>>]
                                  ELSE Match(net, run[n - 1])
    IN  run

Plan(net) == Matching(net)[Rounds].legs

\* snapshot_settlement: the plan replaces whatever the week's snapshot said.
MakePlan(w) ==
    LET seen == sweep[w].seen
        legs == Plan(Positions(seen))
    IN  /\ sweep[w].at = "reading"
        /\ \A e \in sweep[w].todo : seen[e] > 0
        /\ sweep' = [sweep EXCEPT ![w].at = "paying", ![w].todo = {},
                                  ![w].plan = legs]
        /\ snapshot' = [snapshot EXCEPT ![sweep[w].week] = {}]
        /\ LET plan == [seen |-> seen, legs |-> legs, week |-> sweep[w].week, at |-> now]
               like == same /\ (first = NoPlan \/ [first EXCEPT !.at = now] = plan)
           IN  /\ same' = like
               /\ first' = IF ~like THEN NoPlan ELSE IF first = NoPlan THEN plan ELSE first
        /\ UNCHANGED ledgerVars

\* Mutant: _idem_for_leg leaves the creditor out.
DebtorKey(week, leg) == <<week, leg.from, leg.from>>

LegKey(week, leg) == <<week, leg.from, leg.to>>

Paying(w) == sweep[w].at = "paying" /\ sweep[w].leg \in DOMAIN sweep[w].plan

TransferFor(w) ==
    LET leg == sweep[w].plan[sweep[w].leg]
    IN  [from |-> leg.from, to |-> leg.to, amount |-> leg.amount,
         key |-> LegKey(sweep[w].week, leg), fx |-> FALSE]

\* Mutant: a replayed leg is reported executed.
NextLegAnyhow(w, executed, failed) ==
    /\ sweep' = [sweep EXCEPT ![w].leg = @ + 1, ![w].failed = @ \/ failed,
                              ![w].executed = IF failed THEN @ ELSE @ \cup {sweep[w].leg}]
    /\ UNCHANGED <<snapshot, first, same>>

NextLeg(w, executed, failed) ==
    /\ sweep' = [sweep EXCEPT ![w].leg = @ + 1, ![w].failed = @ \/ failed,
                              ![w].executed = IF executed THEN @ \cup {sweep[w].leg} ELSE @]
    /\ UNCHANGED <<snapshot, first, same>>

LookLeg(w) == Paying(w) /\ Look(w, TransferFor(w)) /\ UNCHANGED settleVars

\* A transfer that committed but whose reply was lost counts as failed.
CommitLeg(w) == Paying(w) /\ Commit(w) /\ \E lost \in BOOLEAN : NextLeg(w, ~lost, lost)

\* Paid already, seen at the first look-up or at the second.
SkipLeg(w) == Paying(w) /\ Live(TransferFor(w).key) /\ Drop(w) /\ NextLeg(w, FALSE, FALSE)

\* Refused, or any error of the store: logged, and on to the next leg.
FailLeg(w) == Paying(w) /\ Drop(w) /\ NextLeg(w, FALSE, TRUE)

\* The legs executed go into the snapshot; with nothing to pay there is no report.
Report(w) ==
    /\ sweep[w].at = "paying"
    /\ ~Paying(w)
    /\ sweep[w].plan # <<>>
    /\ snapshot' = [snapshot EXCEPT ![sweep[w].week] =
                        {sweep[w].plan[i] : i \in sweep[w].executed}]
    /\ sweep' = [sweep EXCEPT ![w] = Resting]
    /\ UNCHANGED <<ledgerVars, first, same>>

\* The worker dies (with a transfer under way or not), or only wanted the plan,
\* or the plan is empty.
SweepDies(w) == /\ sweep[w] # Resting
                /\ Drop(w)
                /\ sweep' = [sweep EXCEPT ![w] = Resting]
                /\ UNCHANGED <<snapshot, first, same>>
-----------------------------------------------------------------------------
Membership(b) == /\ JoinPool(b) \/ LeavePool(b)
                 /\ UNCHANGED <<vouchers, flow, claims, till>>

Issue == /\ \E b \in Brands, f \in Faces : IssueVoucher(b, f)
         /\ UNCHANGED <<members, flow, claims, till>>

Redeem(h) == \/ \E v \in DOMAIN vouchers, b \in Brands, t \in Txns : Validate(h, v, b, t)
             \/ Burn(h)
             \/ GiveUp(h)

PoolStep == /\ Issue \/ (\E b \in Leavers : Membership(b)) \/ (\E h \in Storefronts : Redeem(h))
            /\ UNCHANGED <<ledgerVars, settleVars>>

SweepStep(w) == \/ SweepStart(w)
                \/ \E e \in Edges : ReadFlow(w, e)
                \/ MakePlan(w)
                \/ LookLeg(w) \/ CommitLeg(w) \/ SkipLeg(w) \/ FailLeg(w)
                \/ Report(w)
                \/ SweepDies(w)

PoolNext == \/ PoolStep
            \/ /\ \/ \E w \in Callers : SweepStep(w)
                  \/ Tick /\ UNCHANGED settleVars
               /\ UNCHANGED poolVars

PoolSpec == PoolInit /\ [][PoolNext]_settlementVars
-----------------------------------------------------------------------------
(***************************************************************************)
(* A flow is the sum of the credits of the vouchers burnt along it: two    *)
(* storefronts never burn one voucher twice; and one key burns one voucher,*)
(* however a sale is retried or raced, as long as the key lives.           *)
(***************************************************************************)
FlowsAreRedemptions ==
    /\ \A e \in Edges :
          flow[e] = SumFunctionOnSet([v \in DOMAIN vouchers |-> vouchers[v].credit],
                                     {v \in DOMAIN vouchers :
                                         /\ vouchers[v].status = "redeemed"
                                         /\ <<vouchers[v].source, vouchers[v].target>> = e})
    /\ \A u, v \in DOMAIN vouchers :
          u # v /\ vouchers[u].status = "redeemed" /\ vouchers[v].status = "redeemed"
                /\ vouchers[u].txn = vouchers[v].txn
          => vouchers[u].at + KeyTtl <= vouchers[v].at \/ vouchers[v].at + KeyTtl <= vouchers[u].at

(***************************************************************************)
(* "for N parties produces at most N-1 transfers and zeroes every          *)
(* position", whatever mixture of old and new flows the scan has read.     *)
(***************************************************************************)
AmountsOf(legs) == [i \in DOMAIN legs |-> legs[i].amount]

Balance(legs, b) == SumFunctionOnSet(AmountsOf(legs), {i \in DOMAIN legs : legs[i].to = b})
                    - SumFunctionOnSet(AmountsOf(legs), {i \in DOMAIN legs : legs[i].from = b})

PlanZeroesPositions ==
    \A w \in Callers :
        sweep[w].at = "paying" =>
            LET net == Positions(sweep[w].seen)
            IN  /\ \A b \in Brands : Balance(sweep[w].plan, b) = net[b]
                /\ sweep[w].plan # <<>> =>
                       Len(sweep[w].plan) < Cardinality({b \in Brands : net[b] # 0})

(***************************************************************************)
(* What the leg keys do achieve: while no key has expired, and every plan  *)
(* saw the same flows in the same week, any number of overlapping, killed  *)
(* and repeated sweeps pay each leg at most once, and a sweep that reaches *)
(* its end without a failed leg leaves every leg paid. Always, a leg that a*)
(* snapshot reports executed is in the ledger with the amount reported,    *)
(* though later sweeps plan other amounts for the same key.                *)
(***************************************************************************)
EntryLeg(e) == [from |-> e.from, to |-> e.to, amount |-> e.debit]

ReportedIsPaid ==
    \A k \in Weeks : \A leg \in snapshot[k] :
        \E i \in DOMAIN ledger :
            ledger[i].key = <<k, leg.from, leg.to>> /\ EntryLeg(ledger[i]) = leg

RerunsPayOnce ==
    /\ same /\ first # NoPlan /\ now < first.at + KeyTtl =>
          LET paid == [i \in DOMAIN ledger |-> EntryLeg(ledger[i])]
          IN  /\ Range(paid) \subseteq Range(first.legs)
              /\ IsInjective(paid)
              /\ \A w \in Callers : sweep[w].at = "paying" /\ ~Paying(w) /\ ~sweep[w].failed =>
                                        Range(paid) = Range(first.legs)
    /\ ReportedIsPaid
=============================================================================
