# A formal model of the KiX platform's money, bookings, deliveries and sessions

KiX is a FastAPI service over Redis (and Postgres for rewards and users): brands keep a prepaid
wallet, pay for campaigns, share commission and vouchers with other brands, take bookings, are told of
events by webhook, and offer games whose players spend energy. This directory holds TLA+ modules that
model the parts in which money, exclusive access or a promised delivery can go wrong, TLC configurations that check them on small instances, and proofs
for TLAPS of what holds for every size.

Checking: `tlc -config <run>.cfg <MC module>`; proving: `tlapm <Module>Proofs.tla` (and `SumFacts.tla`).

## 1. Inventory

How the program runs matters more than any single part. A handler is a coroutine; between two
awaits nothing else runs, at each await anything may. Every Redis command is atomic, so are a
Lua script and a MULTI, and a WATCH/MULTI block is repeated when a watched key changed: such a
block is one step of a model, and a handler is the sequence of its blocks and single commands, with
every other request between two of them. A worker may die, and a client hang up, at any await
(which cancels the coroutine). Keys with a TTL disappear on their own.

| component | state | operations | talks to | what is hard | what makes it correct |
|---|---|---|---|---|---|
| Wallet ledger (`routers/wallet.py`) | balance, daily and total spend, cap, charge / refund / top-up rows, idempotency keys, auto-recharge settings and flags | charge, marketplace_charge, refund, top-up, cap, auto-recharge v1 and v2 | auction (blocked flag), disputes and sagas (rows), gateway | check, commit and idempotency claim are three steps; gateway and credit are two; refunds come by three paths that read different fields; errors after the commit or the capture are swallowed | no charge repaid beyond its amount; balance accounts for all money; credits have a source; a replay does not charge |
| Saga coordinator (`saga.py`) | journal, meta status | run a list of steps, compensate on failure | any saga | deadlines that pass after the write, failing compensations, a journal whose writes may be lost, death with nothing to resume it | status tells which effects stand; effects are undone latest first |
| Refund cascade (`saga_definitions.py`) | wallet rows, commission rows, attribution event and the two forms of its journey, refund stream | four steps and their compensations | wallet rows, attribution, commission | compensation after the rest of the wallet moved on; swallowed errors; pipelines that are no transactions | money and commission agree at the end; a clean rollback leaves the event findable; it is a saga |
| Disputes (`routers/disputes.py`) | dispute rows, index by charge, queue, counters | open, auto-refund, resolve, withdraw, comment | wallet rows, cascade | every handler reads, awaits and writes without WATCH, its bookkeeping one command at a time | a full refund was paid; nothing leaves the count; serial use is consistent |
| Inter-brand ledger (`_inter_brand_transfer_impl` in `routers/payouts.py`) | entries, idempotency keys, wallets | transfer | payouts, pool settlement, reversals | two look-ups of the key, key expiry, lost replies | one entry per key and window; no overdraft |
| Payouts (`routers/payouts.py`) | owed, reserved and paid commission, payout rows, schedule | request, process, fail, schedule, cron | ledger, attribution | admins racing, cron overlapping or dying before its stamp | every cent in one place only; counters match rows; one payout per cycle |
| Voucher pool (`services/voucher_pool.py`, its router and settlement worker) | members, vouchers, flows, redemption keys, weekly snapshot | join, leave, issue, redeem, net, plan, settle | ledger | burn races, non-atomic scan, reruns and overlaps of the worker | a voucher burns once; a plan levels what it saw; legs are paid once |
| Energy and sessions (`lua/*.lua`, `services/energy.py`, `routers/game.py`, `energy.py`, `auth.py`) | balance and regeneration clock, reservation, lock, session hash, cooldown, nonces, last login | start, end, QR grant, login bonus | reward engine | lazy regeneration in every script; two scripts per end; TTLs of different length | no energy from nowhere; one game at a time; a code pays once |
| Voucher lifecycle (`routers/vouchers.py`, `workers/voucher_lifecycle_worker.py`) | voucher hash, reservation key, the holders' lists, grace and win-back flags, redemption history | issue, redeem, transfer, reserve, claim, release, extend, void, cancel; hourly grace, win-back and expiry | reservations (recovery vouchers), reward engine | three operations WATCH, the others write over what they read; a hold's key vanishes on its own; the worker flags first and extends later | never more than its face or uses; one holder; extended once; an end is an end |
| Reservations (`routers/reservations.py`) | booking hashes, calendars, counters, series and their lists | book, check in, geofence check-in, cancel, move, scan for no-shows, book / move / cancel a series | vouchers, deposits, event stream | read, decide, write without WATCH; reads that fail count as a free slot; loops over a series that stop halfway; vouchers issued on two ways | calendars show what stands; no overlap the check promises to exclude; counters are outcomes; an outcome is paid for once by each way |
| Event stream consumers (`workers/reservation_consumer.py` and two like it) | Redis stream, group position, pending entries, dead letters, attribution and XP counters | append, reclaim, read, handle, acknowledge, dead-letter, shed under load | reservations, listings, attribution, streaks | death between effect and acknowledgement; two replicas; names that change at each start; errors that are logged and acknowledged | nothing critical is lost; once without faults; everything is settled |
| Outbound webhooks (`routers/webhooks_outbound.py`, `workers/webhook_worker.py`) | webhook hash, subscriptions, delivery hashes, the queue by due time | register, enable, disable, rotate, delete, fan out, claim, send, retry | everything that publishes events | a claim is a ZREM with the job in memory only; answers lost after the POST; partial writes to a deleted hash | ended once; at most MAX_RETRIES POSTs; nothing queued is forgotten |
| Reward engine, deposits | vouchers in Postgres, holds in the gateway | allocate under row locks, daily caps; hold, capture, release | sessions, reservations, payment intents | row locks, daily caps | stock is never exceeded |
| Payment intents, inbound webhooks, subscriptions | intents, provider events, periods | create, confirm, bill | wallet, gateways | duplicated and reordered events | an event counts once, a period is billed once |
| Auction, campaigns, pacing, frequency caps | bids, spend, flags | decide, record | wallet | stale flags and counters | budgets are respected |
| Everything else (content, reporting, fraud scores, push, portals, recipes, rule engine, game generation) | counters and documents | | | arithmetic, text, I/O | not a matter of interleavings |

`PROJECT.json` lists every component with its sources and why it is, or is not, modelled, and under
"hazards" the places in the code that are hard to test, with the properties that watch them.

## 2. Modules

| module | models | abstracts |
|---|---|---|
| `FundsAbstract` | what a wallet promises: money arrives, charges take what is there and give back at most what they hold | everything else |
| `ChargeBook` | the money rows of one brand and each block that moves them (charge, marketplace_charge, the three refunds, freeze, unfreeze, top-up, cap), each one step, as they are one WATCH/MULTI block; `CounterLapses` is the end of a day's counter; `UndoRefund` is the block a compensation runs | ids, reasons, transaction lists |
| `Wallet` (extends ChargeBook) | charge requests as sequences of Redis round trips: look-up, block, cap flag, idempotency claim, recharge v1, then v2 (settings, second bucket, gateway, credit or pause); the errors a request lives through (`ClaimFails`, `GatewayAnswerLost`, `RechargeRaises`); top-ups; expiry of every key, the day's counter included (`CounterExpires`) | amounts are small sums; one gateway sum |
| `Saga` | the coordinator over N steps; a step is whether its effect stands, which may show before the step returns (`StepActs`, `CompensationActs`); `status` is what the coroutine knows and answers, `meta` what its hash says, a write of which may be lost (`WriteMeta`) | payloads, journal |
| `RefundCascade` (extends ChargeBook) | the refund cascade's real steps over the wallet's rows, commission and journey, with the rest of the wallet running beside it; scrub and restoration command by command (`TakeSnapshot`, `FindEvent`, `UnlistEvent`, `DeleteEvent`; `RestoreEvent`, `RelistEvent`) | one conversion, one event, the user's journey: how often the list names the event, and whether the sorted set does; that of the device, handled alike, is left out |
| `Disputes` (extends ChargeBook) | the disputes desk, each handler cut at its awaits and `_finalize_resolution`'s pipeline at its commands, as it is no transaction; the cascade of a full refund is one step that succeeds or rolls back (its interior is `RefundCascade`) | evidence, reasons, deadlines |
| `BrandLedger` | inter-brand transfers with two look-ups, currency conversion, commit, replay, key expiry | audit rows, indexes |
| `Payouts` (extends BrandLedger) | payout creation from both funds, the status machine as admins drive it, the scheduled cron with its read, create and stamp | bank data |
| `PoolSettlement` (extends BrandLedger) | vouchers, redemption, the scan of flows, the plan, the payment of legs, report, snapshot; overlapping and dying workers | restrictions other than the amount cap |
| `EnergySession` | one player's energy and sessions; a Lua script is a step, end is two of them, login six | scores, ranks, rewards |
| `Vouchers` | one voucher's hash, its reservation key and its holders' lists; requests and worker passes as read and write, the three WATCH loops with their retries | codes, customer names, filters of a campaign |
| `Reservations` | bookings of one resource, calendars, counters and one series; every handler from its read to its pipeline, loops one member at a time; a look at the calendar that may fail; the scan's recovery voucher and the vouchers of the triggers an event sets off (`Emit`) | guests, prices, deposits' amounts, triggers that issue nothing; time in half hours and less |
| `StreamWorker` | the consumer group: read, reclaim, handle in its two effects, acknowledge, dead-letter, shed; workers that die, start under new names, stall, or whose Redis calls fail | what the effects write |
| `WebhookDelivery` | one webhook, the fan-out of its events, the queue and the sending tasks, call by call; portal requests on the webhook | payload, signature, which wait applies |
| `*Proofs` | theorems about the module they extend; `WalletProofs` has those of ChargeBook and Disputes too, `LedgerProofs` those of BrandLedger, Payouts and PoolSettlement, `DeliveryProofs` those of WebhookDelivery and StreamWorker, `SagaProofs` those of Saga and RefundCascade | |
| `SumFacts` | lemmas on `SumFunctionOnSet`, for every proof about a sum over rows | |
| `MC*` | constants, symmetry and bounds of the runs | |

Composition: Wallet, RefundCascade and Disputes share the operators of ChargeBook, so a refund means
the same in each; Payouts and PoolSettlement drive the transfers of BrandLedger through its own
actions. RefundCascade is shown to implement Saga, Wallet and ChargeBook to implement FundsAbstract,
by INSTANCE with a mapping: what a charge holds is what it took minus what its refund rows repaid;
the effect of a cascade's step is the row it leaves. Vouchers, Reservations, StreamWorker and
WebhookDelivery stand alone: what joins them in the code is an event or a fire-and-forget call whose
answer nobody reads.

How to read an action against the code: its guards are the early returns and status checks that
come before the block; a request's `at` field says at which await it waits, and its other fields are
its local variables. A crashed worker is `Crash`, `CascadeDies`, `Leave`, `Die`,
`Abandon`, `EndDies`, `SweepDies`, `SenderDies`, or simply a request that never moves again where nothing
else notices. Where a handler reads a hash and writes it later without WATCH, its record in `request`
says whether somebody has written the hash since (`stale`); `raced` remembers which hashes were written
on such a reading, so that a property can speak of the others. `PROJECT.json` "map" names the
source lines of every definition. Operators after a comment "Mutant:" are wrong variants that no
action uses; each is a bug one of the properties notices when it takes the place of the real one.

## 3. Runs

| run | module | question | bounds |
|---|---|---|---|
| `wallet_requests` | MCWallet | do rows, counters, balance, cap and replays stay right under two charge requests (or one and a marketplace charge) with a shared or no reference, a top-up, the three refunds, freezes, cap changes, failed claims, midnight and the end of a day's counter? | 2 charges and a marketplace charge, two of the three started, amounts 1 and 2, 2 days, at most 3 units funded, the top-up not of 1 and opened first, no cap or one of 2, no recharges, no crashed request (one that never moves is the same to safety) |
| `wallet_recharge` | MCWallet | does every credit have a source, is every capture credited unless a failure stranded it, and is it all an implementation of FundsAbstract? | 2 charges, 1 top-up, settings toggled, lost answers, failed credits, crashes, 1 day, no references |
| `saga_steps` | Saga | status, as told and as kept, order of the compensations and end of a saga | 4 steps, two of them best effort |
| `cascade_alone` | MCRefundCascade | is the cascade a saga, do commission, journey and money agree at its end? | 1 saga, 2 charges, the whole of ChargeBook beside it, 2 units funded, a user with the sorted set or without |
| `disputes_races` | MCDisputes | refunds, records and counters under overlapping requests of every kind | 4 requests, three of them at once and the fourth with one of them, 1 charge, amounts 1 and 2, cascades that may roll back, 2 units |
| `payouts_races` | MCPayouts | conservation, counters, overdraft and cycles | 2 brands (one withdraws), 1 admin, 2 cron runs, 1 transfer, 2 payouts, 2 ticks, 2 units of income |
| `pool_settlement` | MCPoolSettlement | burns, plans, reruns, reports, keys | 3 brands, 2 vouchers, 2 storefronts, 2 workers; on the first day two requests at once (sales, sweeps or one of each), then one; at most 3 ledger entries; vouchers numbered by source; members stay while a worker runs |
| `energy_sessions` | MCEnergySession | no energy from nowhere, one game at a time, a code pays once | 3 games, one end and one login at a time, 1 code, 5 ticks |
| `reservations_races` | MCReservations | do calendars, overlaps, counters, vouchers and a cancelled series stay right when any three requests overlap, die or cannot read the calendar? | 3 requests ever (any kind, all at once if they like), 2 bookings, a trigger on two of the events (missed, honored), a series of two, lengths of one half-hour window, 3 ticks |
| `stream_workers` | MCStreamWorker | is anything critical lost, done twice without a fault, or never settled? | 2 events, one critical and one ordinary or unprocessable, 2 replicas, 3 workers ever (so one death and one successor), 1 failed call or stall, 2 deliveries before the dead-letter stream |
| `webhook_retries` | WebhookDelivery | is a finished delivery left alone, and does every queued one finish? | 1 delivery, 2 sending tasks, 3 portal requests, 3 attempts, 1 death |
| `vouchers_races` | MCVouchers | does a voucher pay more than its face, and do holder, hold, extension and end agree where nothing raced? | 1 voucher of face 2 and two uses, 2 users, 2 requests or sweeps at once, orders of 1 and 2, life, hold and grace of one tick, 2 tries of a WATCH loop, 2 ticks |

Why these bounds: each hazard needs two actors, or one and a repetition, plus the event that
separates them (a midnight, a key's end, a death); every run has at least that. Disputes have four
requests so that two disputes can be opened on one charge and each be handled by a further request. Amounts 1 and
2 tell part from whole. In the pool, three brands make a plan of two legs and a rounded credit
(brand 1's vouchers are worth half at brand 3). In `EnergySession` the periods are few ticks but keep
the order of the code's: play 1, lock and nonce 2, regeneration 2, a code 3, absence 3, cooldown 4,
session hash 4, a day 4. The lock and the nonce expire with the tick that ends them; a code lives a
tick longer than its nonce, as it does for 30 seconds in the code. The wallet's symmetry exchanges the two
charges, that of the other runs requests, workers, storefronts, transactions or cron runs, none of
which is named by a property; runs with liveness have none.

The four youngest runs have as many requests as their hazards have parts: a stale write needs a reader
and a writer, and in `reservations_races` a third request shows that the damage can be mended or
worsened afterwards. `webhook_retries` has three portal requests because the half-empty webhook takes a
load before a delete and a write after it, with a rotation as the third. A stream worker never claims
what it owns, so a successor, or a second replica, is what makes a stalled entry move.

What the runs show. Rows, balances, calendars and queues are consistent under every interleaving
checked, as far as the properties' premises go. Some carry a premise because the code keeps no more
than that, and say so: without overlap (the last part of `DeskAddsUp`), unless a cron run died or
overlapped (`OnePayoutPerCycle`), if failures are honest (the first part of `PartnersAgree`), unless
the lock was taken away by a stale end (`AloneUnlessUnlocked`), while an attempt is between commit and
claim, or its claim failed (`ReplayShortCircuits`), unless an answer, a credit or a process was lost between
capture and credit (`EveryCreditHasASource`, `CapturedIsCredited`), unless a dispute was taken off the queue before it
was put on it (`DeskAddsUp`), for a booking that could read the calendar (`ShortBookingsDontOverlap`), within a key's life (`OneEntryPerWindow`, `RerunsPayOnce`), unless written
on an out-of-date reading (`UnracedIsConsistent`, `HoldersAgree`, `GraceOnce`, `EndIsFinal`), unless a
call failed inside the handler (`CriticalIsHandled`), unless the sender died or raised with the claim in
hand (`EveryDeliveryEnds`). The premise is as weak as we found it can be.

Where the code does less than its text promises. These came up while modelling; each is why a property
above has its premise, or is not stated more strongly:

- `wallet.charge` looks an idempotency key up before its block and claims it after the commit
  (`wallet.py:1076-1083`): two requests with one reference at once both debit. So does a retry after a claim that
  failed: its error is swallowed (`1216-1219`, in `marketplace_charge` `2248-2251`) and the charge answers success.
- A card may be charged and the wallet not credited although nothing died: whatever the gateway's client raises counts as
  declined (`wallet.py:713-714`, `payment_methods.py:332-334`), an answer lost after the capture included, and an error of
  the credit itself (`734`) is swallowed with the rest of the recharge (`1230`).
- `_write_meta` logs and drops the errors of Redis (`saga.py:137-143`): a saga that has ended, and told its caller so, may
  keep the status running in its hash. What the hash says of an end is true.
- `_cascade_remove_attribution` promises to scrub the event from the user's journey (`disputes.py:518`). It does so with
  the list that old readers use (`530-536`); the sorted set that `_read_journey_recent` prefers
  (`attribution.py:588`) is written by no step of the cascade and keeps naming the deleted event. `PartnersAgree` therefore
  speaks of the list, and of the sorted set only where the event exists.
- A dispute is listed under its brand before it is queued (`disputes.py:623`, `624`). One that is resolved between the two
  stays on the queue of the pending for good, and the queue's listing does not look at the status (`1163-1208`).
- Undoing a refund sets the charge to completed with nothing refunded (`saga_definitions.py:91`), even
  where an earlier partial refund stands; a later full refund then repays more than was taken, which
  `test_disputes.py:263` rules out for a single refund. So `RepaidWithinCharge` is checked where no refund is undone.
- A marketplace charge takes from the seller and credits the brand (`wallet.py:2215`); a refund of its row
  credits the brand once more instead of the seller. The refinement to FundsAbstract is stated without
  marketplace charges.
- The pool worker sweeps every 24 hours over flows that only grow, while the keys that stop it from
  paying a leg again live 24 hours (`voucher_pool_settlement_worker.py:18-19` and `46`, `payouts.py:1659`):
  a later sweep of a settled week pays again.
- The script that refuses a start for want of energy has already moved the regeneration clock
  (`lua/energy_reserve.lua:49`) but not written the balance (`55`): the energy earned since is lost to the
  player.
- The last wait of the webhook's backoff, 24 hours (`webhook_worker.py:5-8`), is never used: the fifth
  failure is final (`webhooks_outbound.py:710`, `724`), so five attempts have four waits between them.
- `vouchers.py:47-48` says that redemption is guarded by WATCH; voiding, cancelling and the sweeps are
  not, and a void that read the hash before a redemption writes its status over it.
- `/create` looks for conflicts half an hour back: a longer booking, a booking made between check and
  write, a series or a moved booking may overlap another. And when the calendar, or a row, cannot be read, the slot
  counts as free (`reservations.py:688-689`, `698-699`).
- A missed booking is paid for by the scan's recovery voucher and again by each trigger registered for the event
  (`reservations.py:443-514`): two ways, neither of which knows of the other.
- Under backpressure a stream worker acknowledges what it skips (`reservation_consumer.py:243-247`), so
  the comment's "picked up later by reclaim" does not happen; `CriticalIsHandled` is therefore about the
  events that are never skipped.

Fairness. Four runs ask for progress. In `wallet_recharge` a request that was let in is taken
further by the event loop unless it fails or crashes: weak fairness of `Continue(r)`, of nothing a client or
a merchant does, so `CapturedIsCredited` is about the handler alone and excepts what its failures stranded. In
`saga_steps` the coordinator is one coroutine and is resumed while its process lives: weak fairness of
`Advance`. In `stream_workers` each running worker's loop goes on and the supervisor keeps the replicas
up (weak fairness of `Step(c)` and `Start(c)`), and an entry left alone becomes old enough to be claimed
(`GoStale(e)`); nothing is assumed of appends, deaths or failures. In `webhook_retries` a sending task goes on (weak
fairness of `Send(s)`), a waiting delivery comes due (`ComeDue(d)`), and each due delivery is polled
again and again, because a batch takes the oldest first: strong fairness of `Poll` for one delivery,
since another task may be busy with it in between. Deadlock is not checked where a behaviour may stop: bounded ids run out,
sagas end, the clock reaches its bound.

## 4. Proofs

Constants are arbitrary except for the assumptions in the modules (`ChargeBookAssumption`,
`WalletAssumption`, `SagaAssumption`, `CascadeAssumption`, `LedgerAssumption`, `PayoutsAssumption`,
`EnergyAssumption`, `UnitsAssumption`, `VouchersAssumption`, `ReservationsAssumption`,
`WebhookAssumption`, `DisputesAssumption`, `PoolAssumption`, `LegKeysAssumption`, `StreamAssumption`),
which say that sums and periods are naturals, that the null value is no id, which order the caps have,
that the pool's brands and the desk's requests are finitely many, and that the ledger's keys have
those of the pool's legs among them. Some theorems have a hypothesis besides; each is named below with
its reason.

**Sums.** `SumFacts`: a sum over a finite set is a number, does not depend on what the
function is elsewhere, and changes by what one of its terms changes (`SumChange`). The library's
induction theorems cannot be used for this; the lemmas take a minimal
counterexample among the subsets instead (`MinimalSubset`). A sum needs a finite set, so the theorems about sums over a
constant set of ids assume `IsFiniteSet` of it.

**Wallet** (`WalletProofs`).
- `BookSafe`, `NeverRepaidTwice`, `BookImplementsFunds`. The inductive invariant is `BookInv` = types,
  `StatusTellsTruth`, `BalanceAccountsForAll`. `RepaidWithinCharge` alone is not inductive: wallet.refund
  trusts the status and ignores refunded_amount, so one needs that a completed or disputed row has
  repaid nothing and that a partly refunded row's field agrees with its refund rows. `UndoRefund` is no
  step of the book: with it the theorem would be false (see above).
- `WalletImplementsBook`, from which `WalletBalances`, `RowsTellTruth` and `WalletImplementsFunds`
  follow. `LocalInv` types the requests and says that a running one computed its day today or
  yesterday, which is what makes its block a step of the book. The refinements to FundsAbstract assume
  `MarketplaceCharges = {}`: a refund of such a charge credits the brand twice.
- `WalletCounters` (finite `Charges`), over `WalletInv` (= `BookInv` and `LocalInv`): the counters are kept by the same
  blocks as the rows. A day's counter ends while its rows stay, so what has lapsed is remembered and counts; each
  counter alone is no sum of rows anyway, for a refund counts on the day it is made.
- `WalletCreditsHaveSources` (finite `Charges` and `Topups`): `SourceInv`; each request that was charged by the gateway
  and has not credited yet holds one recharge in flight, which a lost answer, a failed credit or a death strands. A
  request strands one at most, which is what makes the sum over `stranded` change by one term (`Sourced`).
- `WalletReplays`: `ReplayInv` ties each key to the request that may claim it: one beyond its claim has
  its key claimed, lived through a failed claim or is a day old, and a key is never younger than the charge it answers.

**Disputes** (`WalletProofs`, in its second half), for any number of requests.
- `DeskTypeCorrect`, `DeskRepaysWithinCharge`, `DeskRecordsWhatWasPaid`, from `DeskInv`. A cascade that
  rolls back leaves `total_spent` behind, so `BookInv` does not hold beside it: of the rows `TrueRows`
  keeps only types and truth. `CaseInv` says what stays true of a request's reading although nothing
  is watched: its dispute is on record, on the same charge, and a full refund is of all the charge took.
  `PaidInv` is why no two requests claim one refund: what the records of a charge claim, with what
  requests have paid and not recorded yet, is at most what its rows have repaid.
- `DeskKeepsItsBooks`: `DeskAddsUp` from two more parts. `QueueInv` holds in any race: what is queued, or
  is still to be queued by its opener, is open, about to be taken off, or was taken off too early (`missed`); the two counters, with
  those between one and the other, are the disputes that were counted. `SerialInv` holds while
  no two requests have been in flight at once: `Tidy` says for every stage of the one that runs which of index, queue and
  counters it has brought up to date and which it has not reached yet.

**Sagas** (`SagaProofs`).
- `SagaStatusHolds`, `SagaUndoesInReverse`, for any number of steps, from
  `CoordinatorInv`, which says of a running and of a compensating saga which effects stand, and that a hash that
  speaks of an end speaks of the one there was (`HashTells`).
- `CascadeBalances` (finite `Charges`, no marketplace charges): any number of cascades on one charge
  among all the wallet does. Undoing a refund may leave a row untruthful, so this invariant
  cannot rest on `BookInv`; `RowsTyped` only types the rows, with refund sums that may have any sign.
- `CascadeTyped` (finite `Sagas`) proves that sign after all: `Covered` says that what the live refund
  rows of the cascades could still take back has been repaid.
- `CascadePartnersAgree` and `CascadeIsSaga` (`Sagas = {s}`: two cascades on one charge undo each other's
  effects, so neither is a saga of its own). The refinement maps an effect to the row it leaves
  and shows every step of the cascade a step of the coordinator or a stutter. `CascadeInv` and `LoneInv`
  say which rows a saga at each place has left and what it has in its snapshot. The attribution
  effect is that readers, who prefer the sorted set and fall back on the list, do not find the event (`Findable`); scrub and
  restoration are several commands, so it may show before the step returns, or stay although the step failed, and the coordinator
  has room for both (`StepActs`, `CompensationActs`).

**Ledger and payouts** (`LedgerProofs`).
- `KeyMovesMoneyOnce`, `TransfersNeverOverdraw`. `LedgerInv` adds that entries are in time order and
  each key points to its latest entry (`KeysPointToLatest`).
- `PayoutsTyped`, `PayoutsConserveMoney`, `PayoutsOverdrawNothing`, from `PayoutsInv`: the ledger's invariant,
  the totals, and that a cron run carries a positive sum it has read.
- `PayoutsCounted`: the counters are the sums over the payouts there are.
- `OnePayoutACycle`, from `CycleInv`: while nothing overlapped or died, there is one run (`OneRun`), each
  automatic payout is stamped or its run is about to (`PayoutsStamped`), and a run visits a brand whose
  last stamp is a period old (`RunsAreDue`).

**Voucher pool** (`LedgerProofs`, in its second half), for any finite set of brands.
- `FlowsAreWhatWasBurnt`, from `ShopInv`: each flow is the sum of the credits of the vouchers burnt on it
  (`FlowsAdd`), the key of a burnt voucher remembers a redemption no older than it (`KeysRemember`), and
  two vouchers burnt under one key are a key's life apart (`KeysApart`).
- `PlansZeroPositions`. A plan is computed round by round; the model has the rounds as a function on
  `0 .. Rounds` and not as recursion in an operator, with which no theorem could be stated. `MatchInv` says of
  every round that the legs so far leave each brand what is left of its position, that each leg has an end with
  nothing left, that no two legs join the same brands, and that legs and unlevelled brands are
  together no more than there were unlevelled brands at first. Each round levels a brand, so that
  as many rounds as brands suffice. The positions add up to zero whatever mixture of old and new flows the scan
  has read (`PositionsCancel`), so every plan levels what it saw (`PlanLevels`), in fewer legs than
  there are brands to level.
- `SweepsPayOnce` and `LegKeysMoveMoneyOnce`, from `PoolInv`. `BooksFit`: a transfer under way is the leg its worker is
  at, a key's entry has that key, and what a worker has executed or reported is in the ledger.
  `FirstFits`: while every plan was the first one, each entry is one of its legs, made since, and a worker
  without a failure has left every leg behind it paid. Together with the ledger's one entry
  per key and window this is `RerunsPayOnce`. The hypothesis `Amounts = Nat \ {0}` is that the ledger
  takes any positive sum, as it does in the code, since a leg may be of any.

**Energy** (`EnergySessionProofs`).
- `SessionsAlone`. `LockInv` says that each live session either is the lock's owner, with a lock that lives
  as long, or has had its lock taken.
- `EnergyTypes`, and `EnergyIsEarned` (`NoFreeEnergy`). The first half of it is inductive once it
  is measured against the regeneration clock instead of time: what was had and paid beyond the start and the gifts, times
  the interval, is at most `regenAt` (`Grown`), which is never ahead of `now`. The second half says when a code that was
  honoured is harmless (`Spent`): it has ended, or the cooldown or its nonce outlives it. Hence the hypothesis `CodeLife < Cooldown
  \/ CodeLife < NonceTtl`. The defaults satisfy it through the cooldown only, four hours against a code's
  half hour and its grace (`energy.py:157`), because the nonce of a code scanned at once is forgotten up to
  30 seconds before the code's grace ends; a brand may configure a cooldown so short that it fails, and then one code pays twice.

**Vouchers** (`VouchersProofs`).
- `VouchersTyped`, `VoucherPaysOnce`. `PayInv` adds to the types and to `PaidOutOnce` what a
  request knows (`RequestOK`: a redeemer's reading is the row, or it knows that it is stale) and that an
  unissued row is blank (`Unissued`). The sums are not inductive alone: redemption writes back what it
  read, and it is `RequestOK` that says this reading still counts.
- `VoucherHoldersAgree`, `VoucherGraceOnce`, `VoucherEndIsFinal` (an action property), from `RaceInv`: a request that is
  not stale is about to do to a voucher what its state still allows (`FreshOK`).

**Reservations** (`ReservationsProofs`).
- `ReservationsTyped`, from `ShapeInv`: stage, loop and aim of every request fit together.
- `CalendarHolds`: `CalendarShowsLive` is inductive over `ShapeInv`, as each write sets row and calendars
  in one pipeline.
- `ShortBookingsHold`: `LookInv` says that a /create that was not overtaken, and has read all it asked for, still has before it every booking in its
  way. The scan of the calendar takes bookings in order; that there is a next one is `MinExists`.
- `CancelledSeriesHolds`: `SeriesInv`, what the cancelling loop has yet to visit.
- `UnracedHolds`: `CurrentInv` (a writer that is not stale has a confirmed booking before it, and a no-show's grace was
  over when it was read), with the cardinalities (`Counted`) and the vouchers (`Recovery`): a request about to issue one, by recovery or by a trigger, is
  the only one that owes it, and it has not been issued (`Owed`).

**Webhooks** (`DeliveryProofs`).
- `DeliveriesTyped`, `DeliveriesStayFinal`. `SendInv` adds to the types where a delivery may
  be (`PlaceInv`: a final one is in no queue and in nobody's hand, and no two tasks hold one, be it to send it, to drop it or to note its outcome) and what a
  task in hand knows of it (`HandInv`: attempts loaded are the attempts made, and the POSTs that reached
  the merchant are no more than those). A worker that saw the delivery in the queue before it ended is
  harmless because its ZREM then returns 0.

**Event streams** (`DeliveryProofs`, in its second half), for any number of events, workers, deaths and faults.
- `StreamTyped`, `CriticalEventsAreHandled`, `ReplicasShareNoEntry`, from `StreamInv`. `BooksInv`: what a
  worker has in hand, and what is pending, the group has read, and nothing is read before there is a group.
  `HandledInv`: a settled critical event has both effects, or is a dead letter, or had a call that failed;
  it speaks also of the event in a worker's hand, between the effects and before the acknowledgement,
  where a death leaves it pending. `OnceInv`: while nobody has died and nothing has failed, a pending entry
  is in the hands of its owner alone, and its effects are as far as that worker is; an entry written to the dead letters is still pending
  until it is acknowledged, which is a step of its own and may fail. The entry a worker is
  at is the oldest of its batch; that there is one is `LeastOf` of `SumFacts`.

The types of Saga, Payouts and EnergySession, and `RepaidWithinCharge` under concurrent requests of the wallet, are
proved and therefore in no run of those modules.

Every safety property that a run checks, invariant or action property, has its theorem (`IsSaga` and `FundsSpec` too). Only
model-checked is liveness (`CapturedIsCredited`, `EndsUnlessKilled`, `EverythingSettles`,
`EveryDeliveryEnds`), since the prover knows no ENABLED. What the theorems assume and TLC cannot
enumerate (any number of brands, requests or events) the runs have in small.

## 5. Not modelled, and why

Multi-currency sub-wallets and their FX conversion, take-rate settings and checkout sessions of
the wallet; the subscription upgrade saga; the restrictions, voiding and transfer of pooled vouchers;
leaderboards and rewards after a game; the listing and campaign side of cross-store vouchers; what the
listing and attribution consumers do with an event (their loop is the one modelled). The rest of the service,
component by component with the reason, is in `PROJECT.json`; its largest files (master accounts,
primitives, campaigns, listings, recipes, reports) are mostly documents, forms and arithmetic, so the
modelled lines are a small share of the whole; the auction, pacing, payment intents, deposits and the
reward engine do have races worth a model, and are next in the plan.

Seen and not covered, beyond the hazards listed: vouchers won today are counted and one more allocated without a lock on
the user (`reward.py:114`); currency conversion and the upgrade saga read a balance and debit it later without WATCH
(`wallet.py:2934`, `saga_definitions.py:304`); the budget-blocked flag lives until midnight although
the cap is lifted (`wallet.py:1125`); a reversal's refund stands when its claw-back fails (`wallet.py:2827`);
`gmv_lifetime` is written as a hash and as a counter (`attribution.py:1740`); the pool's members and rules are
read outside WATCH (`voucher_pool.py:685`), and a later snapshot overwrites the week's earlier one (`1078`); a
comment may write an old status over a dispute's end (`disputes.py:956`, the model has the step, the
properties allow for it).

Redis, Postgres and the gateways are taken as what the code uses
them for: atomic commands, scripts and transactions, keys that expire, a capture that succeeds or is
declined. Redis cluster failover, clock skew between workers and the loss of acknowledged writes are
left out. SCAN may return a key twice; the model's does not. Wall-clock time is a counter
of days or ticks; a handler does not survive two midnights.

## 6. Plan

Written, in this order: FundsAbstract, ChargeBook, Wallet; Saga, RefundCascade, Disputes;
BrandLedger, Payouts, PoolSettlement; EnergySession; the proofs of ChargeBook, Wallet, Saga,
BrandLedger, Payouts and EnergySession; then Vouchers, Reservations, StreamWorker and WebhookDelivery, with
the proofs of Vouchers and WebhookDelivery; then SumFacts, the proofs of Reservations and of RefundCascade (that it
implements Saga), and of the counters, cycles, replays, sources and energy that had only been checked; last
the proofs of Disputes, StreamWorker and PoolSettlement, for which the plan of the pool was
given as a function.

Next, extending the model:
1. the reward engine (allocation under row locks, the daily cap) and the reward a repeated end asks for;
2. deposits: hold, capture and release against the end of a booking, composed with Reservations;
3. payment intents with duplicated and reordered provider events, composed with top-ups;
4. the subscription upgrade saga as a second implementation of Saga, with the billing cron;
5. the auction's budget check against the wallet's blocked flag, pacing, and partner claw-backs over
   BrandLedger.

Each comes with its inductive invariant, checked by TLC and then proved, as above; the upgrade saga and
the claw-backs can use the lemmas on Saga and BrandLedger as they are.
