--------------------------- MODULE LedgerProofs ---------------------------
(***************************************************************************)
(* The ledger and what is paid through it. An idempotency key moves money  *)
(* once in its life, and no transfer overdraws a wallet, for any number of *)
(* callers, brands, keys and ticks. Payouts, cron runs, admins and         *)
(* transfers together neither create nor lose money, and overdraw nothing; *)
(* the counters are the sums of the payouts, and undisturbed runs pay a    *)
(* brand once a cycle. A voucher pool's flows are what was burnt along     *)
(* them, a settlement plan levels every position, and sweeps that overlap, *)
(* die and are run again pay each leg once.                                *)
(***************************************************************************)
EXTENDS Payouts, PoolSettlement, SumFacts

USE LedgerAssumption, PayoutsAssumption

-----------------------------------------------------------------------------
(***************************************************************************)
(* The ledger.                                                             *)
(***************************************************************************)
LedgerInv == LedgerTypeOK /\ KeysPointToLatest /\ OneEntryPerWindow /\ NoOverdraft

\* A conversion of a legal amount is a natural number.
LEMMA ConvertIsNat ==
  ASSUME NEW a \in Amounts, NEW f \in Brands, NEW t \in Brands
  PROVE  Convert(a, f, t) \in Nat
<1> DEFINE u == Units[f]
           v == Units[t]
<1>1. a \in Nat /\ u \in Nat \ {0} /\ v \in Nat \ {0}
  OBVIOUS
<1>2. CASE u > v
  <2>1. u \div v \in Nat /\ u \div v > 0
    BY <1>1, <1>2
  <2> DEFINE w == u \div v
  <2>2. a \div w \in Nat
    <3> HIDE DEF w
    <3> QED BY <1>1, <2>1 DEF w
  <2> QED BY <1>2, <2>2 DEF Convert
<1>3. CASE ~(u > v)
  <2>1. v \div u \in Nat
    BY <1>1
  <2> DEFINE w == v \div u
  <2>2. a * w \in Nat
    <3> HIDE DEF w
    <3> QED BY <1>1, <2>1 DEF w
  <2> QED BY <1>3, <2>2 DEF Convert
<1> QED BY <1>2, <1>3

LEMMA CreditedIsNat ==
  ASSUME NEW q \in Request
  PROVE  Credited(q) \in Nat
<1>1. q.amount \in Amounts /\ q.from \in Brands /\ q.to \in Brands
  BY DEF Request
<1> QED BY <1>1, ConvertIsNat DEF Credited

LEMMA LedgerInitHolds == LedgerInit => LedgerInv
  BY DEF LedgerInit, LedgerInv, LedgerTypeOK, KeysPointToLatest, OneEntryPerWindow, NoOverdraft

\* Steps of a call that leave wallets, ledger and keys alone.
LEMMA QuietStep ==
  ASSUME LedgerInv, UNCHANGED <<wallet, known, ledger, idem, now>>,
         call' \in [Callers -> Request \cup {Idle}]
  PROVE  LedgerInv'
  BY DEF LedgerInv, LedgerTypeOK, KeysPointToLatest, OneEntryPerWindow, NoOverdraft

(***************************************************************************)
(* The one step that posts an entry. The key is not alive, so its latest   *)
(* entry, and with it every earlier one, is a key's life old.              *)
(***************************************************************************)
LEMMA CommitStep ==
  ASSUME LedgerInv, NEW h \in Callers, Commit(h)
  PROVE  LedgerInv'
<1> DEFINE q == call[h]
           e == EntryOf(q)
           n == Len(ledger) + 1
<1>1. /\ q \in Request
      /\ Credited(q) \in Nat
      /\ ledger \in Seq(Entry) /\ now \in Nat /\ idem \in [Keys -> Nat]
  <2>1. q \in Request
    BY DEF Commit, LedgerInv, LedgerTypeOK
  <2> QED BY <2>1, CreditedIsNat DEF LedgerInv, LedgerTypeOK
<1>2. /\ q.from \in Brands /\ q.to \in Brands /\ q.amount \in Amounts /\ q.key \in Keys
      /\ q.amount \in Nat
  BY <1>1 DEF Request
<1>3. /\ e \in Entry
      /\ e.at = now /\ e.key = q.key
  BY <1>1, <1>2 DEF EntryOf, Entry
<1>4. /\ ledger' = Append(ledger, e)
      /\ idem' = [idem EXCEPT ![q.key] = n]
      /\ now' = now /\ known' = known
      /\ ~Live(q.key) /\ q.amount <= wallet[q.from]
  BY DEF Commit, Affordable
<1>5. /\ ledger' \in Seq(Entry)
      /\ Len(ledger') = n /\ n \in Nat \ {0}
      /\ DOMAIN ledger = 1 .. (n - 1) /\ DOMAIN ledger' = 1 .. n
      /\ ledger'[n] = e
      /\ \A i \in DOMAIN ledger : ledger'[i] = ledger[i] /\ ledger[i] \in Entry
  <2> HIDE DEF e
  <2> QED BY <1>1, <1>3, <1>4
<1>6. idem' \in [Keys -> Nat] /\ idem'[q.key] = n /\ \A k \in Keys : k # q.key => idem'[k] = idem[k]
  BY <1>1, <1>2, <1>4, <1>5
<1>7. wallet' \in [Brands -> Int] /\ NoOverdraft'
  <2>1. wallet' = [wallet EXCEPT ![q.from] = @ - q.amount, ![q.to] = @ + Credited(q)]
    BY DEF Commit
  <2>2. wallet \in [Brands -> Int] /\ NoOverdraft
    BY DEF LedgerInv, LedgerTypeOK
  <2> DEFINE c == Credited(q)
             x == q.amount
             f == q.from
             t == q.to
  <2>3. c \in Nat /\ x \in Nat /\ f \in Brands /\ t \in Brands /\ x <= wallet[f]
    BY <1>1, <1>2, <1>4
  <2>4. wallet' = [wallet EXCEPT ![f] = @ - x, ![t] = @ + c]
    BY <2>1
  <2> HIDE DEF c, x, f, t
  <2> QED BY <2>2, <2>3, <2>4 DEF NoOverdraft
<1>8. LedgerTypeOK'
  <2>1. call' \in [Callers -> Request \cup {Idle}]
    BY DEF Commit, LedgerInv, LedgerTypeOK
  <2> QED BY <1>1, <1>4, <1>5, <1>6, <1>7, <2>1 DEF LedgerTypeOK, LedgerInv
<1>9. \A i \in DOMAIN ledger : ledger[i].key = q.key => ledger[i].at + KeyTtl <= now
  <2>1. SUFFICES ASSUME NEW i \in DOMAIN ledger, ledger[i].key = q.key
                 PROVE  ledger[i].at + KeyTtl <= now
    OBVIOUS
  <2> DEFINE j == idem[q.key]
  <2>2. i <= j /\ j \in DOMAIN ledger /\ ledger[i].at <= ledger[j].at
    <3>1. i <= j /\ ledger[i].at <= ledger[j].at /\ j \in 0 .. Len(ledger)
      BY <1>2, <2>1 DEF LedgerInv, KeysPointToLatest
    <3> QED BY <1>1, <3>1
  <2>3. j # 0 /\ ~(now < ledger[j].at + KeyTtl)
    BY <1>4, <1>5, <2>2 DEF Live
  <2>4. ledger[i].at \in Nat /\ ledger[j].at \in Nat
    BY <1>5, <2>2 DEF Entry
  <2> QED BY <1>1, <2>2, <2>3, <2>4
<1>10. OneEntryPerWindow'
  <2>1. SUFFICES ASSUME NEW i \in DOMAIN ledger', NEW j \in DOMAIN ledger',
                        i < j, ledger'[i].key = ledger'[j].key
                 PROVE  ledger'[i].at + KeyTtl <= ledger'[j].at
    BY DEF OneEntryPerWindow
  <2>2. i \in DOMAIN ledger /\ ledger'[i] = ledger[i]
    BY <1>5, <2>1
  <2>3. CASE j = n
    BY <1>3, <1>5, <1>9, <2>1, <2>2, <2>3
  <2>4. CASE j # n
    <3>1. j \in DOMAIN ledger /\ ledger'[j] = ledger[j]
      BY <1>5, <2>4
    <3> QED BY <2>1, <2>2, <3>1 DEF LedgerInv, OneEntryPerWindow
  <2> QED BY <2>3, <2>4
<1>11. KeysPointToLatest'
  <2>1. \A i \in DOMAIN ledger' : ledger'[i].at <= now'
    <3>1. \A i \in DOMAIN ledger : ledger[i].at <= now
      BY DEF LedgerInv, KeysPointToLatest
    <3> QED BY <1>1, <1>3, <1>4, <1>5, <3>1
  <2>2. \A k \in Keys : idem'[k] \in 0 .. Len(ledger')
    <3>1. \A k \in Keys : idem[k] \in 0 .. Len(ledger)
      BY DEF LedgerInv, KeysPointToLatest
    <3>2. SUFFICES ASSUME NEW k \in Keys PROVE idem'[k] \in 0 .. n
      BY <1>5
    <3>3. CASE k = q.key
      BY <1>5, <1>6, <3>3
    <3>4. CASE k # q.key
      <4>1. idem'[k] = idem[k]
        BY <1>6, <3>4
      <4>2. idem[k] \in 0 .. Len(ledger) /\ Len(ledger) \in Nat
        BY <1>1, <3>1
      <4> QED BY <4>1, <4>2
    <3> QED BY <3>3, <3>4
  <2>3. ASSUME NEW i \in DOMAIN ledger'
        PROVE  /\ i <= idem'[ledger'[i].key]
               /\ ledger'[i].at <= ledger'[idem'[ledger'[i].key]].at
    <3>1. CASE i = n
      <4>1. now <= now
        BY <1>1
      <4> QED BY <1>3, <1>5, <1>6, <3>1, <4>1
    <3>2. CASE i # n
      <4>1. i \in DOMAIN ledger /\ ledger'[i] = ledger[i] /\ ledger[i] \in Entry
        BY <1>5, <3>2
      <4>2. i <= idem[ledger[i].key] /\ ledger[i].at <= ledger[idem[ledger[i].key]].at
            /\ idem[ledger[i].key] \in 0 .. Len(ledger) /\ ledger[i].at <= now
        BY <4>1 DEF LedgerInv, KeysPointToLatest, Entry
      <4>3. CASE ledger[i].key = q.key
        BY <1>3, <1>5, <1>6, <4>1, <4>2, <4>3
      <4>4. CASE ledger[i].key # q.key
        <5>1. idem'[ledger[i].key] = idem[ledger[i].key]
          BY <1>6, <4>1, <4>4 DEF Entry
        <5>2. idem[ledger[i].key] \in DOMAIN ledger
          BY <1>1, <1>5, <4>1, <4>2
        <5> QED BY <1>5, <4>1, <4>2, <5>1, <5>2
      <4> QED BY <4>3, <4>4
    <3> QED BY <3>1, <3>2
  <2> QED BY <2>1, <2>2, <2>3 DEF KeysPointToLatest
<1> QED BY <1>7, <1>8, <1>10, <1>11 DEF LedgerInv

LEMMA TopUpStep ==
  ASSUME LedgerInv, NEW b \in Brands, NEW a \in Amounts, TopUp(b, a)
  PROVE  LedgerInv'
<1>1. a \in Nat
  OBVIOUS
<1>2. wallet' \in [Brands -> Int] /\ NoOverdraft'
  BY <1>1 DEF TopUp, LedgerInv, LedgerTypeOK, NoOverdraft
<1> QED BY <1>2 DEF TopUp, LedgerInv, LedgerTypeOK, KeysPointToLatest, OneEntryPerWindow

LEMMA TickStep ==
  ASSUME LedgerInv, Tick
  PROVE  LedgerInv'
<1>1. now' \in Nat /\ now <= now' /\ now \in Nat
  BY DEF Tick, LedgerInv, LedgerTypeOK
<1>2. ASSUME NEW i \in DOMAIN ledger PROVE ledger[i].at <= now'
  <2>1. ledger[i].at <= now /\ ledger[i] \in Entry
    BY DEF LedgerInv, LedgerTypeOK, KeysPointToLatest
  <2>2. ledger[i].at \in Nat
    BY <2>1 DEF Entry
  <2> QED BY <1>1, <2>1, <2>2
<1>3. UNCHANGED <<wallet, known, ledger, idem, call>>
  BY DEF Tick
<1>4. LedgerTypeOK' /\ OneEntryPerWindow' /\ NoOverdraft'
  BY <1>1, <1>3 DEF LedgerInv, LedgerTypeOK, OneEntryPerWindow, NoOverdraft
<1>5. KeysPointToLatest'
  <2>1. /\ \A k \in Keys : idem[k] \in 0 .. Len(ledger)
        /\ \A i \in DOMAIN ledger : /\ i <= idem[ledger[i].key]
                                    /\ ledger[i].at <= ledger[idem[ledger[i].key]].at
    BY DEF LedgerInv, KeysPointToLatest
  <2>2. ledger' = ledger /\ idem' = idem
    BY <1>3
  <2>3. \A i \in DOMAIN ledger' : ledger'[i].at <= now'
    BY <1>2, <2>2
  <2> QED BY ONLY <2>1, <2>2, <2>3, Zenon DEF KeysPointToLatest
<1> QED BY <1>4, <1>5 DEF LedgerInv

LEMMA LedgerStep == LedgerInv /\ [LedgerNext]_ledgerVars => LedgerInv'
<1>1. SUFFICES ASSUME LedgerInv, [LedgerNext]_ledgerVars PROVE LedgerInv'
  OBVIOUS
<1>2. ASSUME NEW h \in Callers, Transfer(h) PROVE LedgerInv'
  <2>1. CASE \E q \in Request : Look(h, q)
    BY <1>1, <2>1, QuietStep DEF Look, LedgerInv, LedgerTypeOK
  <2>2. CASE Commit(h)
    BY <1>1, <2>2, CommitStep
  <2>3. CASE Replay(h) \/ Abort(h)
    BY <1>1, <2>3, QuietStep DEF Replay, Abort, Drop, LedgerInv, LedgerTypeOK
  <2> QED BY <1>2, <2>1, <2>2, <2>3 DEF Transfer
<1>3. CASE UNCHANGED ledgerVars
  BY <1>1, <1>3, QuietStep DEF ledgerVars, LedgerInv, LedgerTypeOK
<1> QED BY <1>1, <1>2, <1>3, TopUpStep, TickStep DEF LedgerNext

(***************************************************************************)
(* "a second request with the same key returns the original response       *)
(* without touching balances": for a key's life, from any callers.         *)
(***************************************************************************)
THEOREM KeyMovesMoneyOnce == LedgerSpec => []OneEntryPerWindow
<1>1. LedgerInv => OneEntryPerWindow
  BY DEF LedgerInv
<1> QED BY LedgerInitHolds, LedgerStep, <1>1, PTL DEF LedgerSpec

(***************************************************************************)
(* Transfers never take a wallet below zero.                               *)
(***************************************************************************)
THEOREM TransfersNeverOverdraw == LedgerSpec => []NoOverdraft
<1>1. LedgerInv => NoOverdraft
  BY DEF LedgerInv
<1> QED BY LedgerInitHolds, LedgerStep, <1>1, PTL DEF LedgerSpec
-----------------------------------------------------------------------------
(***************************************************************************)
(* Payouts.                                                                *)
(***************************************************************************)
Totals == /\ owed \in [Brands -> Int] /\ pending \in [Brands -> Int]
          /\ paidOut \in [Brands -> Int] /\ income \in [Brands -> Int]

\* Only the wallet balances moved, and none below zero.
LEMMA WalletMoves ==
  ASSUME LedgerInv, wallet' \in [Brands -> Int], \A b \in Brands : wallet'[b] >= 0,
         UNCHANGED <<known, ledger, idem, call, now>>
  PROVE  LedgerInv'
  BY DEF LedgerInv, LedgerTypeOK, KeysPointToLatest, OneEntryPerWindow, NoOverdraft

(***************************************************************************)
(* Money moves between a fund and a counter of one brand.                  *)
(***************************************************************************)
FundsInv == /\ LedgerInv
            /\ Totals
            /\ \A b \in Brands : owed[b] >= 0
            /\ MoneyConserved

LEMMA FundToReserve ==
  ASSUME FundsInv, NEW b \in Brands, NEW source \in Sources, NEW n \in Int,
         Fund(b, source) + n >= 0, AddToFund(b, source, n),
         pending' = Plus(pending, b, -n), UNCHANGED <<paidOut, income>>
  PROVE  FundsInv'
<1>1. /\ owed \in [Brands -> Int] /\ pending \in [Brands -> Int]
      /\ paidOut \in [Brands -> Int] /\ income \in [Brands -> Int] /\ wallet \in [Brands -> Int]
      /\ \A c \in Brands : wallet[c] >= 0 /\ owed[c] >= 0
  BY DEF FundsInv, Totals, LedgerInv, LedgerTypeOK, NoOverdraft
<1>2. /\ -n \in Int
      /\ pending' \in [Brands -> Int] /\ pending'[b] = pending[b] - n
      /\ \A c \in Brands \ {b} : pending'[c] = pending[c]
  BY <1>1 DEF Plus
<1>3. CASE source = "commission"
  <2>1. owed' = Plus(owed, b, n) /\ UNCHANGED ledgerVars /\ owed[b] + n >= 0
    BY <1>3 DEF AddToFund, Fund
  <2>2. /\ owed' \in [Brands -> Int] /\ owed'[b] = owed[b] + n
        /\ \A c \in Brands \ {b} : owed'[c] = owed[c]
    BY <1>1, <2>1 DEF Plus
  <2>3. LedgerInv' /\ wallet' = wallet
    BY <2>1, QuietStep DEF FundsInv, LedgerInv, LedgerTypeOK, ledgerVars
  <2>4. Totals'
    BY <1>1, <1>2, <2>2 DEF Totals
  <2>5. \A c \in Brands : owed'[c] >= 0
    BY <1>1, <2>1, <2>2
  <2>6. MoneyConserved'
    BY <1>1, <1>2, <2>2, <2>3 DEF FundsInv, MoneyConserved
  <2> QED BY <2>3, <2>4, <2>5, <2>6 DEF FundsInv
<1>4. CASE source # "commission"
  <2>1. /\ wallet' = Plus(wallet, b, n) /\ UNCHANGED <<owed, known, ledger, idem, call, now>>
        /\ wallet[b] + n >= 0
    BY <1>4 DEF AddToFund, Fund
  <2>2. /\ wallet' \in [Brands -> Int] /\ wallet'[b] = wallet[b] + n
        /\ \A c \in Brands \ {b} : wallet'[c] = wallet[c]
    BY <1>1, <2>1 DEF Plus
  <2>3. LedgerInv'
    BY <1>1, <2>1, <2>2, WalletMoves DEF FundsInv
  <2>4. Totals'
    BY <1>1, <1>2, <2>1 DEF Totals
  <2>5. MoneyConserved'
    BY <1>1, <1>2, <2>1, <2>2 DEF FundsInv, MoneyConserved
  <2> QED BY <1>1, <2>1, <2>3, <2>4, <2>5 DEF FundsInv
<1> QED BY <1>3, <1>4

LEMMA ReserveToPaid ==
  ASSUME FundsInv, NEW b \in Brands, NEW n \in Int,
         pending' = Plus(pending, b, -n), paidOut' = Plus(paidOut, b, n),
         UNCHANGED <<ledgerVars, owed, income>>
  PROVE  FundsInv'
<1>1. /\ owed \in [Brands -> Int] /\ pending \in [Brands -> Int]
      /\ paidOut \in [Brands -> Int] /\ income \in [Brands -> Int] /\ wallet \in [Brands -> Int]
  BY DEF FundsInv, Totals, LedgerInv, LedgerTypeOK
<1>2. /\ -n \in Int
      /\ pending' \in [Brands -> Int] /\ pending'[b] = pending[b] - n
      /\ \A c \in Brands \ {b} : pending'[c] = pending[c]
  BY <1>1 DEF Plus
<1>3. /\ paidOut' \in [Brands -> Int] /\ paidOut'[b] = paidOut[b] + n
      /\ \A c \in Brands \ {b} : paidOut'[c] = paidOut[c]
  BY <1>1 DEF Plus
<1>4. LedgerInv' /\ wallet' = wallet
  BY QuietStep DEF FundsInv, LedgerInv, LedgerTypeOK, ledgerVars
<1>5. Totals'
  BY <1>1, <1>2, <1>3 DEF Totals
<1>6. MoneyConserved'
  BY <1>1, <1>2, <1>3, <1>4 DEF FundsInv, MoneyConserved
<1> QED BY <1>4, <1>5, <1>6 DEF FundsInv

-----------------------------------------------------------------------------
(***************************************************************************)
(* A cron run that has read the commission owed to a brand, or its floor,  *)
(* carries a positive amount: the payout it creates is a real one.         *)
(***************************************************************************)
RunsCarryMoney == \A k \in Crons : cron[k].at \in {"due", "read"} => cron[k].amount # 0

PayoutsInv == FundsInv /\ PayoutsTypeOK /\ RunsCarryMoney

DeskTypeOK == /\ verified \subseteq Brands
              /\ schedule \in [Brands -> Schedule]
              /\ admin \in [Admins -> AdminState]
              /\ cron \in [Crons -> CronState]
              /\ disturbed \in BOOLEAN
              /\ RunsCarryMoney

LEMMA InvInParts ==
  /\ PayoutsInv <=> FundsInv /\ payouts \in Seq(Payout) /\ DeskTypeOK
  /\ FundsInv' /\ payouts' \in Seq(Payout) /\ DeskTypeOK' => PayoutsInv'
  BY DEF PayoutsInv, FundsInv, Totals, PayoutsTypeOK, DeskTypeOK

LEMMA NoRunTyped == NoRun \in CronState /\ \A t \in Nat : Scanning(t) \in CronState
<1>1. (CHOOSE b \in Brands : TRUE) \in Brands
  OBVIOUS
<1> DEFINE x == CHOOSE b \in Brands : TRUE
<1>2. x \in Brands /\ NoRun = [at |-> "idle", started |-> 0, brand |-> x, amount |-> 0]
  BY <1>1 DEF NoRun
<1> HIDE DEF x
<1> QED BY <1>2 DEF Scanning, CronState

LEMMA InitInv == Init => PayoutsInv
<1> SUFFICES ASSUME Init PROVE PayoutsInv
  OBVIOUS
<1>1. LedgerInv
  BY LedgerInitHolds DEF Init
<1>2. Totals /\ MoneyConserved /\ \A b \in Brands : owed[b] >= 0
  BY DEF Init, Totals, MoneyConserved, Zero, LedgerInit
<1>3. payouts \in Seq(Payout)
  BY DEF Init
<1>4. schedule \in [Brands -> Schedule]
  <2>1. (CHOOSE f \in Floors : TRUE) \in Floors
    OBVIOUS
  <2> DEFINE x == CHOOSE f \in Floors : TRUE
  <2>2. schedule = [b \in Brands |-> [auto |-> FALSE, floor |-> x, lastRun |-> 0]]
    BY DEF Init
  <2> HIDE DEF x
  <2> QED BY <2>1, <2>2 DEF Schedule, x
<1>5. cron \in [Crons -> CronState] /\ RunsCarryMoney
  BY NoRunTyped DEF Init, RunsCarryMoney, NoRun
<1>6. verified \subseteq Brands /\ admin \in [Admins -> AdminState] /\ disturbed \in BOOLEAN
  BY DEF Init, AdminState, NoRequest
<1> QED BY <1>1, <1>2, <1>3, <1>4, <1>5, <1>6, InvInParts DEF FundsInv, DeskTypeOK

LEMMA CreateKeeps ==
  ASSUME PayoutsInv, NEW b \in Brands, NEW amount \in Nat \ {0}, NEW source \in Sources,
         NEW cycle \in Nat, CreatePayout(b, amount, source, cycle)
  PROVE  FundsInv' /\ payouts' \in Seq(Payout)
<1> DEFINE n == -amount
<1>1. FundsInv /\ payouts \in Seq(Payout)
  BY InvInParts
<1>2. n \in Int /\ -n = amount
  OBVIOUS
<1>3. Fund(b, source) \in Int /\ Fund(b, source) + n >= 0
  <2>1. Fund(b, source) \in Int /\ amount <= Fund(b, source)
    BY <1>1 DEF CreatePayout, Fund, FundsInv, Totals, LedgerInv, LedgerTypeOK
  <2> QED BY <2>1
<1>4. AddToFund(b, source, n) /\ pending' = Plus(pending, b, -n) /\ UNCHANGED <<paidOut, income>>
  BY <1>2 DEF CreatePayout
<1>5. FundsInv'
  <2> HIDE DEF n
  <2> QED BY <1>1, <1>2, <1>3, <1>4, FundToReserve
<1> DEFINE row == [brand |-> b, amount |-> amount, source |-> source,
                   status |-> "pending", cycle |-> cycle]
<1>6. row \in Payout
  BY DEF Payout, Statuses
<1>7. payouts' = Append(payouts, row)
  BY DEF CreatePayout
<1>8. payouts' \in Seq(Payout)
  <2> HIDE DEF row
  <2> QED BY <1>1, <1>6, <1>7
<1> QED BY <1>5, <1>8

LEMMA TransitionKeeps ==
  ASSUME PayoutsInv, NEW p, NEW status \in Statuses, Transition(p, status)
  PROVE  FundsInv' /\ payouts' \in Seq(Payout)
<1>1. FundsInv /\ payouts \in Seq(Payout)
  BY InvInParts
<1> DEFINE row == payouts[p]
<1>2. p \in DOMAIN payouts /\ row \in Payout /\ row.status # "failed"
  BY <1>1 DEF Transition, CanMove, ValidTransitions
<1>3. row.brand \in Brands /\ row.amount \in Int /\ row.amount \in Nat /\ row.source \in Sources
  BY <1>2 DEF Payout
<1>4. payouts' \in Seq(Payout)
  <2>1. [row EXCEPT !.status = status] \in Payout
    BY <1>2 DEF Payout
  <2>2. payouts' = [payouts EXCEPT ![p] = [row EXCEPT !.status = status]]
    BY DEF Transition
  <2> DEFINE new == [row EXCEPT !.status = status]
  <2> HIDE DEF new, row
  <2> QED BY <1>1, <1>2, <2>1, <2>2 DEF new
<1>5. CASE status = "processing"
  <2>1. UNCHANGED <<ledgerVars, owed, pending, paidOut, income>>
    BY <1>5 DEF Transition
  <2>2. LedgerInv'
    BY <1>1, <2>1, QuietStep DEF FundsInv, LedgerInv, LedgerTypeOK, ledgerVars
  <2>3. FundsInv'
    BY <1>1, <2>1, <2>2 DEF FundsInv, Totals, MoneyConserved, ledgerVars
  <2> QED BY <1>4, <2>3
<1>6. CASE status = "paid"
  <2>1. /\ pending' = Plus(pending, row.brand, -row.amount)
        /\ paidOut' = Plus(paidOut, row.brand, row.amount)
        /\ UNCHANGED <<ledgerVars, owed, income>>
    BY <1>6 DEF Transition
  <2> HIDE DEF row
  <2> QED BY <1>1, <1>3, <1>4, <2>1, ReserveToPaid
<1>7. CASE status = "failed"
  <2>1. /\ AddToFund(row.brand, row.source, row.amount)
        /\ pending' = Plus(pending, row.brand, -row.amount)
        /\ UNCHANGED <<paidOut, income>>
    BY <1>7 DEF Transition
  <2>2. Fund(row.brand, row.source) \in Int /\ Fund(row.brand, row.source) >= 0
    BY <1>1, <1>3 DEF Fund, FundsInv, Totals, LedgerInv, LedgerTypeOK, NoOverdraft
  <2>3. Fund(row.brand, row.source) + row.amount >= 0
    BY <1>3, <2>2
  <2> HIDE DEF row
  <2> QED BY <1>1, <1>3, <1>4, <2>1, <2>3, FundToReserve
<1>8. status \in {"processing", "paid", "failed"}
  BY DEF Transition, CanMove, ValidTransitions
<1> QED BY <1>5, <1>6, <1>7, <1>8

LEMMA QuietFunds ==
  ASSUME PayoutsInv, UNCHANGED <<ledgerVars, fundVars, income>>
  PROVE  FundsInv' /\ payouts' \in Seq(Payout)
<1>1. FundsInv /\ payouts \in Seq(Payout)
  BY InvInParts
<1>2. LedgerInv'
  BY <1>1, QuietStep DEF FundsInv, LedgerInv, LedgerTypeOK, ledgerVars
<1> QED BY <1>1, <1>2 DEF FundsInv, Totals, MoneyConserved, ledgerVars, fundVars

LEMMA QuietDesk ==
  ASSUME PayoutsInv, UNCHANGED deskVars
  PROVE  DeskTypeOK'
  BY InvInParts DEF DeskTypeOK, deskVars, RunsCarryMoney

\* A cron run moves to a legal place.
LEMMA CronMovesKeeps ==
  ASSUME PayoutsInv, NEW k \in Crons, NEW next \in CronState, CronMoves(k, next),
         next.at \in {"due", "read"} => next.amount # 0,
         schedule' \in [Brands -> Schedule], disturbed' \in BOOLEAN
  PROVE  DeskTypeOK'
<1>1. DeskTypeOK
  BY InvInParts
<1>2. cron' \in [Crons -> CronState] /\ RunsCarryMoney'
  BY <1>1 DEF DeskTypeOK, CronMoves, RunsCarryMoney
<1> QED BY <1>1, <1>2 DEF DeskTypeOK, CronMoves

LEMMA BrandStepKeeps ==
  ASSUME PayoutsInv, NEW b \in Sellers, BrandStep(b)
  PROVE  PayoutsInv'
<1>1. b \in Brands
  OBVIOUS
<1>2. DeskTypeOK /\ FundsInv /\ payouts \in Seq(Payout)
  BY InvInParts
<1>3. CASE VerifyBankAccount(b)
  <2>1. DeskTypeOK'
    BY <1>1, <1>2, <1>3 DEF VerifyBankAccount, DeskTypeOK, RunsCarryMoney
  <2> QED BY <1>3, <2>1, QuietFunds, InvInParts DEF VerifyBankAccount
<1>4. ASSUME NEW auto \in BOOLEAN, NEW f \in Floors, ConfigureSchedule(b, auto, f)
      PROVE  PayoutsInv'
  <2>1. schedule[b].lastRun \in Nat
    BY <1>1, <1>2 DEF DeskTypeOK, Schedule
  <2> DEFINE x == schedule[b].lastRun
             s == [auto |-> auto, floor |-> f, lastRun |-> x]
  <2>2. s \in Schedule
    BY <2>1 DEF Schedule
  <2>3. schedule' = [schedule EXCEPT ![b] = s]
    BY <1>4 DEF ConfigureSchedule
  <2>4. schedule' \in [Brands -> Schedule]
    <3> HIDE DEF s
    <3> QED BY <1>1, <1>2, <2>2, <2>3 DEF DeskTypeOK
  <2>5. DeskTypeOK'
    BY <1>2, <1>4, <2>4 DEF ConfigureSchedule, DeskTypeOK, RunsCarryMoney
  <2> QED BY <1>4, <2>5, QuietFunds, InvInParts DEF ConfigureSchedule
<1>5. ASSUME NEW n \in Amounts, Accrue(b, n)
      PROVE  PayoutsInv'
  <2>1. n \in Nat
    OBVIOUS
  <2>2. LedgerInv' /\ wallet' = wallet
    BY <1>2, <1>5, QuietStep DEF Accrue, FundsInv, LedgerInv, LedgerTypeOK, ledgerVars
  <2>3. Totals' /\ MoneyConserved' /\ \A c \in Brands : owed'[c] >= 0
    <3>1. Totals /\ wallet \in [Brands -> Int] /\ \A c \in Brands : owed[c] >= 0
      BY <1>2 DEF FundsInv, LedgerInv, LedgerTypeOK
    <3>2. \A c \in Brands : owed[c] + wallet[c] + pending[c] + paidOut[c] = income[c]
      BY <1>2 DEF FundsInv, MoneyConserved
    <3>3. /\ owed' = [owed EXCEPT ![b] = @ + n] /\ income' = [income EXCEPT ![b] = @ + n]
          /\ pending' = pending /\ paidOut' = paidOut
      BY <1>5 DEF Accrue, Plus
    <3>4. Totals' /\ \A c \in Brands : owed'[c] >= 0
      BY <1>1, <2>1, <3>1, <3>3 DEF Totals
    <3>5. \A c \in Brands : owed'[c] + wallet'[c] + pending'[c] + paidOut'[c] = income'[c]
      BY <1>1, <2>1, <2>2, <3>1, <3>2, <3>3 DEF Totals
    <3> QED BY <3>4, <3>5 DEF MoneyConserved
  <2>4. DeskTypeOK' /\ payouts' \in Seq(Payout)
    BY <1>2, <1>5, QuietDesk DEF Accrue
  <2> QED BY <2>2, <2>3, <2>4, InvInParts DEF FundsInv
<1>6. ASSUME NEW n \in Amounts, NEW s \in Sources, RequestPayout(b, n, s)
      PROVE  PayoutsInv'
  <2>1. n \in Nat \ {0}
    OBVIOUS
  <2>2. CreatePayout(b, n, s, 0) /\ UNCHANGED deskVars
    BY <1>6 DEF RequestPayout
  <2> QED BY <1>1, <2>1, <2>2, CreateKeeps, QuietDesk, InvInParts
<1> QED BY <1>3, <1>4, <1>5, <1>6 DEF BrandStep

LEMMA AdminStepKeeps ==
  ASSUME PayoutsInv, NEW a \in Admins, AdminStep(a)
  PROVE  PayoutsInv'
<1>1. DeskTypeOK /\ payouts \in Seq(Payout)
  BY InvInParts
<1>2. ASSUME NEW next \in AdminState, OnlyAdminMoves(a, next)
      PROVE  DeskTypeOK'
  BY <1>1, <1>2 DEF OnlyAdminMoves, DeskTypeOK, RunsCarryMoney
<1>3. ASSUME NEW p \in 1 .. MaxPayouts, ReadPayout(a, p)
      PROVE  PayoutsInv'
  <2> DEFINE next == [at |-> IF payouts[p].status = "pending" THEN "begin" ELSE "pay", payout |-> p]
  <2>1. next \in AdminState
    BY DEF AdminState
  <2>2. OnlyAdminMoves(a, next) /\ UNCHANGED <<ledgerVars, fundVars, income>>
    BY <1>3 DEF ReadPayout
  <2> HIDE DEF next
  <2> QED BY <1>2, <2>1, <2>2, QuietFunds, InvInParts
<1>4. CASE BeginPayment(a)
  <2> DEFINE next == [at |-> "pay", payout |-> admin[a].payout]
  <2>1. next \in AdminState
    BY <1>1 DEF AdminState, DeskTypeOK
  <2>2. OnlyAdminMoves(a, next) /\ Transition(admin[a].payout, "processing")
    BY <1>4 DEF BeginPayment
  <2> HIDE DEF next
  <2>3. DeskTypeOK'
    BY <1>2, <2>1, <2>2
  <2> QED BY <2>2, <2>3, TransitionKeeps, InvInParts DEF Statuses
<1>5. NoRequest \in AdminState
  BY DEF NoRequest, AdminState
<1>6. CASE Pay(a)
  <2>1. OnlyAdminMoves(a, NoRequest) /\ Transition(admin[a].payout, "paid")
    BY <1>6 DEF Pay
  <2>2. DeskTypeOK'
    BY <1>2, <1>5, <2>1
  <2> QED BY <2>1, <2>2, TransitionKeeps, InvInParts DEF Statuses
<1>7. CASE Leave(a)
  <2>1. DeskTypeOK'
    BY <1>2, <1>5, <1>7 DEF Leave
  <2> QED BY <1>7, <2>1, QuietFunds, InvInParts DEF Leave
<1> QED BY <1>3, <1>4, <1>6, <1>7 DEF AdminStep

LEMMA CronStepKeeps ==
  ASSUME PayoutsInv, NEW k \in Crons, CronStep(k)
  PROVE  PayoutsInv'
<1>1. DeskTypeOK /\ FundsInv /\ payouts \in Seq(Payout)
  BY InvInParts
<1>2. /\ cron[k] \in CronState /\ disturbed \in BOOLEAN /\ schedule \in [Brands -> Schedule]
      /\ cron[k].started \in Nat /\ cron[k].brand \in Brands /\ cron[k].amount \in Nat
      /\ now \in Nat
  BY <1>1 DEF DeskTypeOK, CronState, FundsInv, LedgerInv, LedgerTypeOK
<1>3. /\ NoRun \in CronState /\ NoRun.at = "idle"
      /\ \A t \in Nat : Scanning(t) \in CronState /\ Scanning(t).at = "scanning"
  BY NoRunTyped DEF NoRun, Scanning
<1>4. \A stage \in {"due", "read", "created"}, b \in Brands, n \in Nat :
         /\ Visiting(k, stage, b, n) \in CronState
         /\ Visiting(k, stage, b, n).at = stage /\ Visiting(k, stage, b, n).amount = n
  BY <1>2 DEF Visiting, CronState
<1>5. CASE CronStart(k)
  <2>1. CronMoves(k, Scanning(now)) /\ disturbed' \in BOOLEAN /\ schedule' = schedule
    BY <1>2, <1>5 DEF CronStart
  <2>2. DeskTypeOK'
    BY <1>2, <1>3, <2>1, CronMovesKeeps
  <2> QED BY <1>5, <2>2, QuietFunds, InvInParts DEF CronStart
<1>6. ASSUME NEW b \in Sellers, CronFinds(k, b)
      PROVE  PayoutsInv'
  <2> DEFINE n == schedule[b].floor
  <2>1. n \in Nat /\ n # 0 /\ b \in Brands
    BY <1>2 DEF Schedule
  <2>2. CronMoves(k, Visiting(k, "due", b, n)) /\ disturbed' = disturbed
        /\ schedule' = schedule
    BY <1>6 DEF CronFinds
  <2>3. DeskTypeOK'
    <3> DEFINE next == Visiting(k, "due", b, n)
    <3> HIDE DEF n
    <3>1. next \in CronState /\ next.amount # 0
      BY <1>4, <2>1
    <3>2. CronMoves(k, next)
      BY <2>2
    <3> HIDE DEF next
    <3> QED BY <1>2, <2>2, <3>1, <3>2, CronMovesKeeps
  <2> QED BY <1>6, <2>3, QuietFunds, InvInParts DEF CronFinds
<1>7. CASE CronReads(k)
  <2> DEFINE n == owed[cron[k].brand]
  <2>1. cron[k].amount # 0 /\ n >= cron[k].amount /\ n \in Int
    BY <1>1, <1>2, <1>7 DEF CronReads, DeskTypeOK, RunsCarryMoney, FundsInv, Totals
  <2>2. n \in Nat /\ n # 0
    BY <1>2, <2>1
  <2>3. CronMoves(k, Visiting(k, "read", cron[k].brand, n)) /\ disturbed' = disturbed
        /\ schedule' = schedule
    BY <1>7 DEF CronReads
  <2>4. DeskTypeOK'
    <3> DEFINE next == Visiting(k, "read", cron[k].brand, n)
    <3> HIDE DEF n
    <3>1. next \in CronState /\ next.amount # 0
      BY <1>2, <1>4, <2>2
    <3> HIDE DEF next
    <3> QED BY <1>2, <2>3, <3>1, CronMovesKeeps DEF next
  <2> QED BY <1>7, <2>4, QuietFunds, InvInParts DEF CronReads
<1>8. CASE CronCreates(k)
  <2>1. /\ CronMoves(k, Visiting(k, "created", cron[k].brand, cron[k].amount))
        /\ disturbed' = disturbed /\ schedule' = schedule
        /\ CreatePayout(cron[k].brand, cron[k].amount, "commission", cron[k].started)
    BY <1>8 DEF CronCreates
  <2>2. cron[k].amount \in Nat \ {0}
    BY <1>1, <1>2, <1>8 DEF CronCreates, DeskTypeOK, RunsCarryMoney
  <2>3. DeskTypeOK'
    BY <1>2, <1>4, <2>1, CronMovesKeeps
  <2>4. FundsInv' /\ payouts' \in Seq(Payout)
    BY <1>2, <2>1, <2>2, CreateKeeps DEF Sources
  <2> QED BY <2>3, <2>4, InvInParts
<1>9. CASE CronStamps(k)
  <2>1. /\ CronMoves(k, Scanning(cron[k].started)) /\ disturbed' = disturbed
        /\ schedule' = [schedule EXCEPT ![cron[k].brand].lastRun = cron[k].started]
    BY <1>9 DEF CronStamps
  <2>2. schedule' \in [Brands -> Schedule]
    BY <1>2, <2>1 DEF Schedule
  <2>3. DeskTypeOK'
    BY <1>2, <1>3, <2>1, <2>2, CronMovesKeeps
  <2> QED BY <1>9, <2>3, QuietFunds, InvInParts DEF CronStamps
<1>10. CASE CronSkips(k)
  <2>1. CronMoves(k, Scanning(cron[k].started)) /\ disturbed' = disturbed /\ schedule' = schedule
    BY <1>10 DEF CronSkips
  <2>2. DeskTypeOK'
    BY <1>2, <1>3, <2>1, CronMovesKeeps
  <2> QED BY <1>10, <2>2, QuietFunds, InvInParts DEF CronSkips
<1>11. CASE CronEnds(k)
  <2>1. CronMoves(k, NoRun) /\ disturbed' \in BOOLEAN /\ schedule' = schedule
    BY <1>2, <1>11 DEF CronEnds
  <2>2. DeskTypeOK'
    BY <1>2, <1>3, <2>1, CronMovesKeeps
  <2> QED BY <1>11, <2>2, QuietFunds, InvInParts DEF CronEnds
<1> QED BY <1>5, <1>6, <1>7, <1>8, <1>9, <1>10, <1>11 DEF CronStep

LEMMA WalletStepKeeps ==
  ASSUME PayoutsInv, WalletStep
  PROVE  PayoutsInv'
<1>1. DeskTypeOK /\ FundsInv /\ payouts \in Seq(Payout)
  BY InvInParts
<1>2. LedgerInv'
  BY <1>1, LedgerStep DEF WalletStep, FundsInv
<1>3. wallet \in [Brands -> Int] /\ wallet' \in [Brands -> Int]
  BY <1>1, <1>2 DEF FundsInv, LedgerInv, LedgerTypeOK
<1>4. UNCHANGED <<owed, pending, paidOut, payouts>>
      /\ income' = [b \in Brands |-> income[b] + (wallet'[b] - wallet[b])]
  BY DEF WalletStep, fundVars
<1>5. Totals' /\ MoneyConserved'
  <2>1. Totals /\ \A b \in Brands : owed[b] + wallet[b] + pending[b] + paidOut[b] = income[b]
    BY <1>1 DEF FundsInv, MoneyConserved
  <2>2. Totals'
    BY <1>3, <1>4, <2>1 DEF Totals
  <2>3. \A b \in Brands : owed'[b] + wallet'[b] + pending'[b] + paidOut'[b] = income'[b]
    BY <1>3, <1>4, <2>1 DEF Totals
  <2> QED BY <2>2, <2>3 DEF MoneyConserved
<1>6. DeskTypeOK'
  BY QuietDesk DEF WalletStep
<1> QED BY <1>1, <1>2, <1>4, <1>5, <1>6, InvInParts DEF FundsInv

LEMMA NextKeeps == PayoutsInv /\ [Next]_vars => PayoutsInv'
<1> SUFFICES ASSUME PayoutsInv, [Next]_vars PROVE PayoutsInv'
  OBVIOUS
<1>1. ASSUME NEW p \in 1 .. MaxPayouts, FailPayout(p)
      PROVE  PayoutsInv'
  <2>1. Transition(p, "failed") /\ UNCHANGED deskVars
    BY <1>1 DEF FailPayout
  <2> QED BY <2>1, TransitionKeeps, QuietDesk, InvInParts DEF Statuses
<1>2. CASE UNCHANGED vars
  BY <1>2, QuietFunds, QuietDesk, InvInParts DEF vars
<1> QED BY <1>1, <1>2, WalletStepKeeps, BrandStepKeeps, AdminStepKeeps, CronStepKeeps DEF Next

(***************************************************************************)
(* Every reachable state is well typed.                                    *)
(***************************************************************************)
THEOREM PayoutsTyped == Spec => []TypeOK
<1>1. PayoutsInv => TypeOK
  BY DEF PayoutsInv, FundsInv, LedgerInv, TypeOK
<1> QED BY InitInv, NextKeeps, <1>1, PTL DEF Spec

(***************************************************************************)
(* No interleaving of requests, admins, cron runs and transfers creates or *)
(* loses a cent of a brand.                                                *)
(***************************************************************************)
THEOREM PayoutsConserveMoney == Spec => []MoneyConserved
<1>1. PayoutsInv => MoneyConserved
  BY DEF PayoutsInv, FundsInv
<1> QED BY InitInv, NextKeeps, <1>1, PTL DEF Spec

(***************************************************************************)
(* Nor does any overdraw a brand's commission or wallet.                   *)
(***************************************************************************)
THEOREM PayoutsOverdrawNothing == Spec => []NothingOverdrawn
<1>1. PayoutsInv => NothingOverdrawn
  BY DEF PayoutsInv, FundsInv, LedgerInv, NothingOverdrawn
<1> QED BY InitInv, NextKeeps, <1>1, PTL DEF Spec
-----------------------------------------------------------------------------
(***************************************************************************)
(* The counters. One payout is added or moves at a time, and the counters  *)
(* of its brand with it.                                                   *)
(***************************************************************************)
Share(row, b, statuses) == IF row.brand = b /\ row.status \in statuses THEN row.amount ELSE 0

LEMMA IndicesFinite == ASSUME NEW n \in Nat PROVE IsFiniteSet(1 .. n)
  BY FS_Interval

LEMMA ShareIsInt ==
  ASSUME NEW row \in Payout, NEW b, NEW sts
  PROVE  Share(row, b, sts) \in Int
  BY DEF Share, Payout

LEMMA AmountAppended ==
  ASSUME payouts \in Seq(Payout), NEW row \in Payout, payouts' = Append(payouts, row),
         NEW b, NEW sts
  PROVE  /\ AmountIn(b, sts) \in Int
         /\ AmountIn(b, sts)' = AmountIn(b, sts) + Share(row, b, sts)
<1>. DEFINE n == Len(payouts)
            S == 1 .. n
            T == 1 .. (n + 1)
            e == n + 1
            f == [p \in S |-> Share(payouts[p], b, sts)]
            g == [p \in T |-> Share(payouts'[p], b, sts)]
<1>1. /\ n \in Nat /\ DOMAIN payouts = S /\ DOMAIN payouts' = T
      /\ \A p \in S : payouts'[p] = payouts[p] /\ payouts[p] \in Payout
      /\ payouts'[e] = row
  OBVIOUS
<1>2. /\ IsFiniteSet(S) /\ IsFiniteSet(T) /\ e \in T /\ T \ {e} = S
  <2>1. n \in Nat
    BY <1>1
  <2>. HIDE DEF n
  <2>2. IsFiniteSet(S) /\ IsFiniteSet(T)
    BY <2>1, IndicesFinite
  <2>. QED  BY <2>1, <2>2
<1>3. AmountIn(b, sts) = SumFunctionOnSet(f, S) /\ AmountIn(b, sts)' = SumFunctionOnSet(g, T)
  BY <1>1 DEF AmountIn, SumFunction, Share
<1>4. /\ \A p \in S : f[p] \in Int /\ g[p] = f[p]
      /\ \A p \in T : g[p] \in Int
      /\ g[e] = Share(row, b, sts)
  <2>1. \A p \in S : p \in T /\ f[p] = Share(payouts[p], b, sts) /\ g[p] = f[p]
    BY <1>1
  <2>2. \A p \in S : f[p] \in Int
    BY <1>1, <2>1, ShareIsInt
  <2>3. g[e] = Share(row, b, sts) /\ g[e] \in Int
    BY <1>1, <1>2, ShareIsInt
  <2>. HIDE DEF f, g, S, T, e
  <2>. QED  BY <1>2, <2>1, <2>2, <2>3
<1>. HIDE DEF f, g, S, T, e
<1>5. SumFunctionOnSet(f, S) \in Int /\ SumFunctionOnSet(g, S) = SumFunctionOnSet(f, S)
  BY <1>2, <1>4, SumInt, SumSame
<1>6. SumFunctionOnSet(g, T) = g[e] + SumFunctionOnSet(g, T \ {e})
  BY <1>2, <1>4, SumStep
<1>7. g[e] \in Int /\ g[e] = Share(row, b, sts) /\ T \ {e} = S
  BY <1>2, <1>4
<1>8. SumFunctionOnSet(g, T) = SumFunctionOnSet(f, S) + Share(row, b, sts)
  <2>1. SumFunctionOnSet(g, T) = g[e] + SumFunctionOnSet(f, S)
    BY <1>5, <1>6, <1>7
  <2>. QED  BY <1>5, <1>7, <2>1
<1>. QED  BY <1>3, <1>5, <1>8

LEMMA AmountMoved ==
  ASSUME payouts \in Seq(Payout), NEW p \in DOMAIN payouts, NEW row \in Payout,
         payouts' = [payouts EXCEPT ![p] = row], NEW b, NEW sts
  PROVE  /\ AmountIn(b, sts) \in Int
         /\ AmountIn(b, sts)' = AmountIn(b, sts) - Share(payouts[p], b, sts) + Share(row, b, sts)
<1>. DEFINE S == DOMAIN payouts
            f == [q \in S |-> Share(payouts[q], b, sts)]
            g == [q \in S |-> Share(payouts'[q], b, sts)]
<1>1. /\ S = 1 .. Len(payouts) /\ DOMAIN payouts' = S
      /\ \A q \in S : payouts[q] \in Payout /\ payouts'[q] \in Payout
      /\ \A q \in S \ {p} : payouts'[q] = payouts[q]
      /\ payouts'[p] = row
  OBVIOUS
<1>2. IsFiniteSet(S)
  <2>1. Len(payouts) \in Nat
    OBVIOUS
  <2>. HIDE DEF S
  <2>. QED  BY <1>1, <2>1, IndicesFinite
<1>3. AmountIn(b, sts) = SumFunctionOnSet(f, S) /\ AmountIn(b, sts)' = SumFunctionOnSet(g, S)
  BY <1>1 DEF AmountIn, SumFunction, Share
<1>4. /\ \A q \in S : f[q] \in Int /\ g[q] \in Int
      /\ \A q \in S \ {p} : g[q] = f[q]
      /\ f[p] = Share(payouts[p], b, sts) /\ g[p] = Share(row, b, sts)
  BY <1>1, ShareIsInt
<1>. HIDE DEF f, g, S
<1>. QED  BY <1>2, <1>3, <1>4, SumChange DEF S

Reserved == {"pending", "processing"}

LEMMA CountersAre ==
  /\ CountersMatchPayouts <=> \A b \in Brands : /\ pending[b] = AmountIn(b, Reserved)
                                                /\ paidOut[b] = AmountIn(b, {"paid"})
  /\ CountersMatchPayouts' <=> \A b \in Brands : /\ pending'[b] = AmountIn(b, Reserved)'
                                                 /\ paidOut'[b] = AmountIn(b, {"paid"})'
  BY DEF CountersMatchPayouts, Reserved

LEMMA CreateCounts ==
  ASSUME PayoutsInv, CountersMatchPayouts, NEW b \in Brands, NEW amount \in Nat \ {0},
         NEW source \in Sources, NEW cycle \in Nat, CreatePayout(b, amount, source, cycle)
  PROVE  CountersMatchPayouts'
<1>. DEFINE row == [brand |-> b, amount |-> amount, source |-> source,
                    status |-> "pending", cycle |-> cycle]
<1>1. payouts \in Seq(Payout) /\ pending \in [Brands -> Int] /\ paidOut \in [Brands -> Int]
  BY InvInParts DEF FundsInv, Totals
<1>2. row \in Payout /\ row.brand = b /\ row.amount = amount /\ row.status = "pending"
  BY DEF Payout, Statuses
<1>3. payouts' = Append(payouts, row) /\ pending' = Plus(pending, b, amount) /\ paidOut' = paidOut
  BY DEF CreatePayout
<1>. HIDE DEF row
<1>4. ASSUME NEW c \in Brands
      PROVE  /\ pending'[c] = AmountIn(c, Reserved)'
             /\ paidOut'[c] = AmountIn(c, {"paid"})'
  <2>1. /\ AmountIn(c, Reserved) \in Int /\ AmountIn(c, {"paid"}) \in Int
        /\ AmountIn(c, Reserved)' = AmountIn(c, Reserved) + Share(row, c, Reserved)
        /\ AmountIn(c, {"paid"})' = AmountIn(c, {"paid"}) + Share(row, c, {"paid"})
    BY <1>1, <1>2, <1>3, AmountAppended
  <2>2. Share(row, c, Reserved) = (IF c = b THEN amount ELSE 0) /\ Share(row, c, {"paid"}) = 0
    BY <1>2 DEF Share, Reserved
  <2>3. pending'[c] = pending[c] + (IF c = b THEN amount ELSE 0)
    BY <1>1, <1>3 DEF Plus
  <2>4. pending[c] = AmountIn(c, Reserved) /\ paidOut[c] = AmountIn(c, {"paid"})
    BY CountersAre
  <2>. QED  BY <1>3, <2>1, <2>2, <2>3, <2>4
<1>. QED  BY <1>4, CountersAre

LEMMA TransitionCounts ==
  ASSUME PayoutsInv, CountersMatchPayouts, NEW p, NEW status \in Statuses, Transition(p, status)
  PROVE  CountersMatchPayouts'
<1>. DEFINE old == payouts[p]
            row == [old EXCEPT !.status = status]
<1>1. payouts \in Seq(Payout) /\ pending \in [Brands -> Int] /\ paidOut \in [Brands -> Int]
  BY InvInParts DEF FundsInv, Totals
<1>2. /\ p \in DOMAIN payouts /\ <<old.status, status>> \in ValidTransitions
      /\ payouts' = [payouts EXCEPT ![p] = row]
  BY DEF Transition, CanMove
<1>3. /\ old \in Payout /\ row \in Payout /\ old.brand \in Brands /\ old.amount \in Int
      /\ row.brand = old.brand /\ row.amount = old.amount /\ row.status = status
  <2>1. old \in Payout
    BY <1>1, <1>2
  <2>. HIDE DEF old
  <2>. QED  BY <2>1 DEF Payout
<1>4. payouts[p] = old
  OBVIOUS
<1>. DEFINE gone == IF status = "processing" THEN 0 ELSE old.amount
            paid == IF status = "paid" THEN old.amount ELSE 0
<1>5. /\ pending' = Plus(pending, old.brand, -gone)
      /\ paidOut' = Plus(paidOut, old.brand, paid)
  <2>1. \A f \in [Brands -> Int] : Plus(f, old.brand, 0) = f /\ Plus(f, old.brand, -0) = f
    BY DEF Plus
  <2>2. status \in {"processing", "paid", "failed"}
    BY <1>2 DEF ValidTransitions
  <2>3. CASE status = "processing"
    BY <1>1, <2>1, <2>3 DEF Transition
  <2>4. CASE status = "paid"
    BY <1>1, <2>4 DEF Transition
  <2>5. CASE status = "failed"
    BY <1>1, <2>1, <2>5 DEF Transition
  <2>. QED  BY <2>2, <2>3, <2>4, <2>5
<1>6. gone \in Int /\ paid \in Int /\ -gone \in Int
  BY <1>3
<1>7. ASSUME NEW c \in Brands
      PROVE  /\ Share(row, c, Reserved) = Share(old, c, Reserved) - (IF c = old.brand THEN gone ELSE 0)
             /\ Share(row, c, {"paid"}) = Share(old, c, {"paid"}) + (IF c = old.brand THEN paid ELSE 0)
             /\ Share(row, c, Reserved) \in Int /\ Share(old, c, Reserved) \in Int
             /\ Share(row, c, {"paid"}) \in Int /\ Share(old, c, {"paid"}) \in Int
  <2>. HIDE DEF row, old
  <2>. QED  BY <1>2, <1>3 DEF Share, Reserved, ValidTransitions
<1>. HIDE DEF old, row, gone, paid
<1>8. ASSUME NEW c \in Brands
      PROVE  /\ pending'[c] = AmountIn(c, Reserved)'
             /\ paidOut'[c] = AmountIn(c, {"paid"})'
  <2>1. /\ AmountIn(c, Reserved) \in Int /\ AmountIn(c, {"paid"}) \in Int
        /\ AmountIn(c, Reserved)' = AmountIn(c, Reserved) - Share(old, c, Reserved)
                                                         + Share(row, c, Reserved)
        /\ AmountIn(c, {"paid"})' = AmountIn(c, {"paid"}) - Share(old, c, {"paid"})
                                                         + Share(row, c, {"paid"})
    <3>1. ASSUME NEW sts
          PROVE  /\ AmountIn(c, sts) \in Int
                 /\ AmountIn(c, sts)' = AmountIn(c, sts) - Share(payouts[p], c, sts)
                                                        + Share(row, c, sts)
      <4>1. payouts \in Seq(Payout) /\ p \in DOMAIN payouts /\ row \in Payout
        BY <1>1, <1>2, <1>3
      <4>2. payouts' = [payouts EXCEPT ![p] = row]
        BY <1>2
      <4>. QED  BY ONLY <4>1, <4>2, AmountMoved
    <3>. QED  BY <1>4, <3>1
  <2>2. /\ pending'[c] = pending[c] - (IF c = old.brand THEN gone ELSE 0)
        /\ paidOut'[c] = paidOut[c] + (IF c = old.brand THEN paid ELSE 0)
    BY <1>1, <1>3, <1>5, <1>6 DEF Plus
  <2>3. pending[c] = AmountIn(c, Reserved) /\ paidOut[c] = AmountIn(c, {"paid"})
    BY CountersAre
  <2>. QED  BY <1>6, <1>7, <2>1, <2>2, <2>3
<1>. QED  BY <1>8, CountersAre

LEMMA QuietCounts ==
  ASSUME CountersMatchPayouts, UNCHANGED <<payouts, pending, paidOut>>
  PROVE  CountersMatchPayouts'
  BY DEF CountersMatchPayouts, AmountIn

LEMMA CountersStep ==
  ASSUME PayoutsInv, CountersMatchPayouts, [Next]_vars
  PROVE  CountersMatchPayouts'
<1>1. CASE UNCHANGED vars \/ WalletStep
  BY <1>1, QuietCounts DEF vars, fundVars, WalletStep
<1>2. ASSUME NEW b \in Sellers, BrandStep(b) PROVE CountersMatchPayouts'
  <2>1. CASE VerifyBankAccount(b) \/ (\E auto \in BOOLEAN, f \in Floors : ConfigureSchedule(b, auto, f))
             \/ (\E n \in Amounts : Accrue(b, n))
    BY <2>1, QuietCounts DEF VerifyBankAccount, ConfigureSchedule, Accrue, fundVars
  <2>2. ASSUME NEW n \in Amounts, NEW src \in Sources, RequestPayout(b, n, src)
        PROVE  CountersMatchPayouts'
    BY <2>2, CreateCounts DEF RequestPayout
  <2>. QED  BY <1>2, <2>1, <2>2 DEF BrandStep
<1>3. ASSUME NEW p, FailPayout(p) PROVE CountersMatchPayouts'
  BY <1>3, TransitionCounts DEF FailPayout, Statuses
<1>4. ASSUME NEW a \in Admins, AdminStep(a) PROVE CountersMatchPayouts'
  <2>1. CASE (\E p \in 1 .. MaxPayouts : ReadPayout(a, p)) \/ Leave(a)
    BY <2>1, QuietCounts DEF ReadPayout, Leave, fundVars
  <2>2. CASE BeginPayment(a) \/ Pay(a)
    BY <2>2, TransitionCounts DEF BeginPayment, Pay, Statuses
  <2>. QED  BY <1>4, <2>1, <2>2 DEF AdminStep
<1>5. ASSUME NEW k \in Crons, CronStep(k) PROVE CountersMatchPayouts'
  <2>1. CASE \/ CronStart(k) \/ CronReads(k) \/ CronStamps(k) \/ CronSkips(k) \/ CronEnds(k)
             \/ \E b \in Sellers : CronFinds(k, b)
    BY <2>1, QuietCounts DEF CronStart, CronReads, CronStamps, CronSkips, CronEnds, CronFinds, fundVars
  <2>2. CASE CronCreates(k)
    <3>1. cron[k].amount \in Nat \ {0} /\ cron[k].brand \in Brands /\ cron[k].started \in Nat
      BY <2>2 DEF PayoutsInv, PayoutsTypeOK, CronState, CronCreates, RunsCarryMoney
    <3>. QED  BY <2>2, <3>1, CreateCounts DEF CronCreates, Sources
  <2>. QED  BY <1>5, <2>1, <2>2 DEF CronStep
<1>. QED  BY <1>1, <1>2, <1>3, <1>4, <1>5 DEF Next

LEMMA CountersInit == Init => CountersMatchPayouts
<1>. SUFFICES ASSUME Init, NEW b \in Brands, NEW sts PROVE AmountIn(b, sts) = 0
  BY DEF CountersMatchPayouts, Init, Zero
<1>1. DOMAIN payouts = {}
  BY DEF Init
<1>. QED  BY <1>1, SumEmpty DEF AmountIn, SumFunction

(***************************************************************************)
(* What the brand is shown as reserved and as paid out is what its payouts *)
(* add up to: for any number of payouts, admins and runs, each payout is   *)
(* reserved once, released once and counted once.                          *)
(***************************************************************************)
THEOREM PayoutsCounted == Spec => []CountersMatchPayouts
<1>1. PayoutsInv /\ CountersMatchPayouts /\ [Next]_vars => (PayoutsInv /\ CountersMatchPayouts)'
  BY NextKeeps, CountersStep
<1>. QED  BY InitInv, CountersInit, <1>1, PTL DEF Spec
-----------------------------------------------------------------------------
(***************************************************************************)
(* Cycles. As long as no runs overlapped and none died between payout and  *)
(* stamp, there is one run at a time; each automatic payout is stamped, or *)
(* the run that created it is about to stamp it; and a run that visits a   *)
(* brand found its last stamp a period old, and nobody stamps but itself.  *)
(***************************************************************************)
OneRun == \A k, l \in Crons : cron[k].at # "idle" /\ cron[l].at # "idle" => k = l

Stamped(p) ==
    \/ payouts[p].cycle <= schedule[payouts[p].brand].lastRun
    \/ \E k \in Crons : /\ cron[k].at = "created" /\ cron[k].brand = payouts[p].brand
                        /\ cron[k].started = payouts[p].cycle

PayoutsStamped == \A p \in DOMAIN payouts : payouts[p].cycle > 0 => Stamped(p)

RunsAreDue == \A k \in Crons : cron[k].at \in {"due", "read", "created"}
                                 => Due(cron[k].brand, cron[k].started)

CycleApart(p, q) ==
    /\ p < q
    /\ payouts[p].cycle > 0 /\ payouts[q].cycle > 0
    /\ payouts[p].brand = payouts[q].brand
    => payouts[p].cycle + Period <= payouts[q].cycle

CyclesApart == \A p, q \in DOMAIN payouts : CycleApart(p, q)

CycleInv == ~disturbed => OneRun /\ PayoutsStamped /\ RunsAreDue /\ CyclesApart

LEMMA CycleTypes ==
  ASSUME PayoutsInv
  PROVE  /\ \A k \in Crons : /\ cron[k] \in CronState /\ cron[k].started \in Nat
                             /\ cron[k].brand \in Brands
         /\ \A b \in Brands : schedule[b].lastRun \in Nat
         /\ \A p \in DOMAIN payouts : payouts[p].cycle \in Nat /\ payouts[p].brand \in Brands
         /\ cron \in [Crons -> CronState] /\ schedule \in [Brands -> Schedule]
         /\ payouts \in Seq(Payout)
<1>1. /\ cron \in [Crons -> CronState] /\ schedule \in [Brands -> Schedule]
      /\ payouts \in Seq(Payout)
  BY DEF PayoutsInv, PayoutsTypeOK
<1>2. \A p \in DOMAIN payouts : payouts[p] \in Payout
  BY <1>1
<1>. QED  BY <1>1, <1>2 DEF CronState, Schedule, Payout

\* Nothing moves that a cycle is about: a payout may change its status.
LEMMA CycleFrame ==
  ASSUME CycleInv, UNCHANGED <<cron, disturbed>>,
         DOMAIN payouts' = DOMAIN payouts,
         \A p \in DOMAIN payouts : /\ payouts'[p].cycle = payouts[p].cycle
                                  /\ payouts'[p].brand = payouts[p].brand
                                  /\ payouts[p].brand \in Brands,
         \A k \in Crons : cron[k].brand \in Brands,
         \A b \in Brands : schedule'[b].lastRun = schedule[b].lastRun
  PROVE  CycleInv'
<1>. SUFFICES ASSUME ~disturbed PROVE OneRun' /\ PayoutsStamped' /\ RunsAreDue' /\ CyclesApart'
  BY DEF CycleInv
<1>1. OneRun /\ PayoutsStamped /\ RunsAreDue /\ CyclesApart
  BY DEF CycleInv
<1>2. OneRun'
  BY <1>1 DEF OneRun
<1>3. PayoutsStamped'
  BY <1>1 DEF PayoutsStamped, Stamped
<1>4. RunsAreDue'
  BY <1>1 DEF RunsAreDue, Due
<1>5. CyclesApart'
  BY <1>1 DEF CyclesApart, CycleApart
<1>. QED  BY <1>2, <1>3, <1>4, <1>5

\* One payout more, made by a request or by a run that is due.
LEMMA CycleCreates ==
  ASSUME PayoutsInv, NEW b \in Brands, NEW amount \in Nat \ {0}, NEW source \in Sources,
         NEW cycle \in Nat, CreatePayout(b, amount, source, cycle)
  PROVE  /\ DOMAIN payouts' = DOMAIN payouts \cup {Len(payouts) + 1}
         /\ \A p \in DOMAIN payouts : payouts'[p] = payouts[p] /\ p < Len(payouts) + 1 /\ p \in Nat
         /\ payouts'[Len(payouts) + 1].brand = b /\ payouts'[Len(payouts) + 1].cycle = cycle
<1>. DEFINE row == [brand |-> b, amount |-> amount, source |-> source,
                    status |-> "pending", cycle |-> cycle]
<1>1. payouts \in Seq(Payout) /\ payouts' = Append(payouts, row)
  BY CycleTypes DEF CreatePayout
<1>2. row.brand = b /\ row.cycle = cycle
  OBVIOUS
<1>. HIDE DEF row
<1>. QED  BY <1>1, <1>2

LEMMA CycleRequests ==
  ASSUME PayoutsInv, CycleInv, NEW b \in Brands, NEW amount \in Nat \ {0}, NEW source \in Sources,
         CreatePayout(b, amount, source, 0), UNCHANGED deskVars
  PROVE  CycleInv'
<1>. SUFFICES ASSUME ~disturbed' PROVE OneRun' /\ PayoutsStamped' /\ RunsAreDue' /\ CyclesApart'
  BY DEF CycleInv
<1>. DEFINE n == Len(payouts) + 1
<1>1. OneRun /\ PayoutsStamped /\ RunsAreDue /\ CyclesApart /\ UNCHANGED <<cron, schedule>>
  BY DEF CycleInv, deskVars
<1>2. /\ DOMAIN payouts' = DOMAIN payouts \cup {n}
      /\ \A p \in DOMAIN payouts : payouts'[p] = payouts[p]
      /\ payouts'[n].cycle = 0
  BY CycleCreates
<1>. HIDE DEF n
<1>3. OneRun' /\ RunsAreDue'
  BY <1>1 DEF OneRun, RunsAreDue, Due
<1>4. PayoutsStamped'
  BY <1>1, <1>2 DEF PayoutsStamped, Stamped
<1>5. CyclesApart'
  BY <1>1, <1>2 DEF CyclesApart, CycleApart
<1>. QED  BY <1>3, <1>4, <1>5

\* The run that creates a payout is alone and due, so the earlier ones are stamped
\* and a period old.
LEMMA CycleCronCreates ==
  ASSUME PayoutsInv, CycleInv, NEW k \in Crons, CronCreates(k)
  PROVE  CycleInv'
<1>. DEFINE n == Len(payouts) + 1
            b == cron[k].brand
            t == cron[k].started
            next == Visiting(k, "created", b, cron[k].amount)
<1>. SUFFICES ASSUME ~disturbed' PROVE OneRun' /\ PayoutsStamped' /\ RunsAreDue' /\ CyclesApart'
  BY DEF CycleInv
<1>1. OneRun /\ PayoutsStamped /\ RunsAreDue /\ CyclesApart /\ schedule' = schedule
  BY DEF CycleInv, CronCreates
<1>2. cron[k].at = "read" /\ b \in Brands /\ t \in Nat /\ cron[k].amount \in Nat \ {0}
  BY CycleTypes DEF CronCreates, PayoutsInv, RunsCarryMoney, CronState
<1>3. /\ DOMAIN payouts' = DOMAIN payouts \cup {n}
      /\ \A p \in DOMAIN payouts : payouts'[p] = payouts[p] /\ p < n /\ p \in Nat
      /\ payouts'[n].brand = b /\ payouts'[n].cycle = t
      /\ n \in Nat
  <2>1. CreatePayout(b, cron[k].amount, "commission", t) /\ "commission" \in Sources
    BY DEF CronCreates, Sources
  <2>2. n \in Nat
    BY CycleTypes
  <2>. DEFINE amount == cron[k].amount
  <2>3. b \in Brands /\ t \in Nat /\ amount \in Nat \ {0}
    BY <1>2
  <2>4. CreatePayout(b, amount, "commission", t)
    BY <2>1
  <2>. HIDE DEF b, t, amount
  <2>. QED  BY ONLY <2>1, <2>2, <2>3, <2>4, PayoutsInv, CycleCreates DEF n
<1>4. /\ cron' = [cron EXCEPT ![k] = next]
      /\ next.at = "created" /\ next.brand = b /\ next.started = t
  BY DEF CronCreates, CronMoves, Visiting
<1>. HIDE DEF n, b, t, next
<1>5. /\ cron'[k].at = "created" /\ cron'[k].brand = b /\ cron'[k].started = t
      /\ \A l \in Crons \ {k} : cron'[l] = cron[l] /\ cron[l].at = "idle"
  BY <1>1, <1>2, <1>4, CycleTypes DEF OneRun
<1>6. OneRun'
  BY <1>5 DEF OneRun
<1>7. Due(b, t)
  BY <1>1, <1>2 DEF RunsAreDue, b, t
<1>8. RunsAreDue'
  BY <1>1, <1>5, <1>7 DEF RunsAreDue, Due
<1>9. \A p \in DOMAIN payouts : payouts[p].cycle > 0
                              => payouts[p].cycle <= schedule[payouts[p].brand].lastRun
  BY <1>1, <1>2, <1>5 DEF PayoutsStamped, Stamped
<1>10. PayoutsStamped'
  BY <1>1, <1>3, <1>5, <1>9 DEF PayoutsStamped, Stamped
<1>11. ASSUME NEW p \in DOMAIN payouts, payouts[p].cycle > 0, payouts[p].brand = b
       PROVE  payouts[p].cycle + Period <= t
  <2>1. payouts[p].cycle \in Nat /\ schedule[b].lastRun \in Nat
        /\ payouts[p].cycle <= schedule[b].lastRun
    BY <1>2, <1>9, <1>11, CycleTypes
  <2>2. t >= schedule[b].lastRun + Period
    BY <1>7, <1>11, <2>1 DEF Due
  <2>. QED  BY <1>2, <2>1, <2>2
<1>12. CyclesApart'
  <2>. SUFFICES ASSUME NEW p \in DOMAIN payouts', NEW q \in DOMAIN payouts' PROVE CycleApart(p, q)'
    BY DEF CyclesApart
  <2>1. CASE p \in DOMAIN payouts /\ q \in DOMAIN payouts
    BY <1>1, <1>3, <2>1 DEF CyclesApart, CycleApart
  <2>2. CASE p \in DOMAIN payouts /\ q = n
    BY <1>3, <1>11, <2>2 DEF CycleApart
  <2>3. CASE p = n
    BY <1>3, <2>3 DEF CycleApart
  <2>. QED  BY <1>3, <2>1, <2>2, <2>3
<1>. QED  BY <1>6, <1>8, <1>10, <1>12

LEMMA CycleCron ==
  ASSUME PayoutsInv, CycleInv, NEW k \in Crons, CronStep(k)
  PROVE  CycleInv'
<1>1. /\ cron[k] \in CronState /\ cron[k].started \in Nat /\ cron[k].brand \in Brands
      /\ cron \in [Crons -> CronState] /\ schedule \in [Brands -> Schedule]
  BY CycleTypes
<1>2. ASSUME NEW next, CronMoves(k, next), UNCHANGED <<payouts, schedule>>, disturbed' => disturbed,
             ~disturbed' => ~disturbed,
             cron[k].at \notin {"idle", "created"}, next.at # "created",
             next.at \in {"due", "read"} => Due(next.brand, next.started)
      PROVE  CycleInv'
  <2>. SUFFICES ASSUME ~disturbed' PROVE OneRun' /\ PayoutsStamped' /\ RunsAreDue' /\ CyclesApart'
    BY DEF CycleInv
  <2>1. OneRun /\ PayoutsStamped /\ RunsAreDue /\ CyclesApart
    BY <1>2 DEF CycleInv
  <2>2. cron'[k] = next /\ \A l \in Crons \ {k} : cron'[l] = cron[l] /\ cron[l].at = "idle"
    BY <1>1, <1>2, <2>1 DEF CronMoves, OneRun
  <2>3. OneRun'
    BY <2>2 DEF OneRun
  <2>4. PayoutsStamped'
    <3>1. \A l \in Crons : cron[l].at # "created"
      BY <1>2, <2>2
    <3>. QED  BY <1>2, <2>1, <3>1 DEF PayoutsStamped, Stamped
  <2>5. RunsAreDue'
    BY <1>2, <2>2 DEF RunsAreDue, Due
  <2>6. CyclesApart'
    BY <1>2, <2>1 DEF CyclesApart, CycleApart
  <2>. QED  BY <2>3, <2>4, <2>5, <2>6
<1>3. CASE CronStart(k)
  <2>. SUFFICES ASSUME ~disturbed' PROVE OneRun' /\ PayoutsStamped' /\ RunsAreDue' /\ CyclesApart'
    BY DEF CycleInv
  <2>1. /\ ~disturbed /\ \A l \in Crons : cron[l].at = "idle"
        /\ cron' = [cron EXCEPT ![k] = Scanning(now)] /\ UNCHANGED <<schedule, payouts>>
    BY <1>3 DEF CronStart, CronMoves, fundVars
  <2>2. OneRun /\ PayoutsStamped /\ RunsAreDue /\ CyclesApart
    BY <2>1 DEF CycleInv
  <2>3. cron'[k].at = "scanning" /\ \A l \in Crons \ {k} : cron'[l].at = "idle"
    BY <1>1, <2>1 DEF Scanning
  <2>4. OneRun' /\ RunsAreDue'
    BY <2>3 DEF OneRun, RunsAreDue
  <2>5. PayoutsStamped' /\ CyclesApart'
    BY <2>1, <2>2 DEF PayoutsStamped, Stamped, CyclesApart, CycleApart
  <2>. QED  BY <2>4, <2>5
<1>4. ASSUME NEW b \in Sellers, CronFinds(k, b) PROVE CycleInv'
  <2>. DEFINE next == Visiting(k, "due", b, schedule[b].floor)
  <2>1. /\ CronMoves(k, next) /\ UNCHANGED <<payouts, schedule, disturbed>>
        /\ cron[k].at = "scanning" /\ Due(b, cron[k].started)
        /\ next.at = "due" /\ next.brand = b /\ next.started = cron[k].started
    BY <1>4 DEF CronFinds, fundVars, Visiting
  <2>. HIDE DEF next
  <2>. QED  BY <1>2, <2>1
<1>5. CASE CronReads(k)
  <2>. DEFINE next == Visiting(k, "read", cron[k].brand, owed[cron[k].brand])
  <2>1. /\ CronMoves(k, next) /\ UNCHANGED <<payouts, schedule, disturbed>> /\ cron[k].at = "due"
        /\ next.at = "read" /\ next.brand = cron[k].brand /\ next.started = cron[k].started
    BY <1>5 DEF CronReads, fundVars, Visiting
  <2>. HIDE DEF next
  <2>2. CASE disturbed
    BY <2>1, <2>2 DEF CycleInv
  <2>3. CASE ~disturbed
    <3>1. Due(cron[k].brand, cron[k].started)
      BY <2>1, <2>3 DEF CycleInv, RunsAreDue
    <3>. QED  BY <1>2, <2>1, <3>1
  <2>. QED  BY <2>2, <2>3
<1>6. CASE CronCreates(k)
  BY <1>6, CycleCronCreates
<1>7. CASE CronStamps(k)
  <2>. DEFINE b == cron[k].brand
              t == cron[k].started
  <2>. SUFFICES ASSUME ~disturbed' PROVE OneRun' /\ PayoutsStamped' /\ RunsAreDue' /\ CyclesApart'
    BY DEF CycleInv
  <2>1. /\ cron[k].at = "created" /\ ~disturbed /\ payouts' = payouts
        /\ schedule' = [schedule EXCEPT ![b].lastRun = t]
        /\ cron' = [cron EXCEPT ![k] = Scanning(t)]
    BY <1>7 DEF CronStamps, CronMoves, fundVars
  <2>2. OneRun /\ PayoutsStamped /\ RunsAreDue /\ CyclesApart
    BY <2>1 DEF CycleInv
  <2>3. /\ cron'[k].at = "scanning"
        /\ \A l \in Crons \ {k} : cron'[l] = cron[l] /\ cron[l].at = "idle"
    BY <1>1, <2>1, <2>2 DEF Scanning, OneRun
  <2>4. /\ schedule'[b].lastRun = t
        /\ \A c \in Brands \ {b} : schedule'[c].lastRun = schedule[c].lastRun
        /\ b \in Brands /\ t \in Nat /\ schedule[b].lastRun \in Nat
    <3>1. schedule[b] \in Schedule
      BY <1>1
    <3>. QED  BY <1>1, <2>1, <3>1, CycleTypes DEF Schedule
  <2>5. schedule[b].lastRun <= t
    BY <2>1, <2>2, <2>4 DEF RunsAreDue, Due
  <2>6. OneRun' /\ RunsAreDue'
    BY <2>3 DEF OneRun, RunsAreDue
  <2>7. CyclesApart'
    BY <2>1, <2>2 DEF CyclesApart, CycleApart
  <2>8. ASSUME NEW p \in DOMAIN payouts, payouts[p].cycle > 0
        PROVE  payouts[p].cycle <= schedule'[payouts[p].brand].lastRun
    <3>1. payouts[p].cycle \in Nat /\ payouts[p].brand \in Brands
      BY CycleTypes
    <3>2. \/ payouts[p].cycle <= schedule[payouts[p].brand].lastRun
          \/ payouts[p].brand = b /\ payouts[p].cycle = t
      BY <2>1, <2>2, <2>3, <2>8 DEF PayoutsStamped, Stamped
    <3>. QED  BY <2>4, <2>5, <3>1, <3>2
  <2>9. PayoutsStamped'
    BY <2>1, <2>8 DEF PayoutsStamped, Stamped
  <2>. QED  BY <2>6, <2>7, <2>9
<1>8. CASE CronSkips(k)
  <2>1. /\ CronMoves(k, Scanning(cron[k].started)) /\ UNCHANGED <<payouts, schedule, disturbed>>
        /\ cron[k].at \in {"due", "read"} /\ Scanning(cron[k].started).at = "scanning"
    BY <1>8 DEF CronSkips, fundVars, Scanning
  <2>. QED  BY <1>2, <2>1
<1>9. CASE CronEnds(k)
  <2>1. CASE disturbed'
    BY <2>1 DEF CycleInv
  <2>2. CASE ~disturbed'
    <3>1. /\ CronMoves(k, NoRun) /\ UNCHANGED <<payouts, schedule>> /\ ~disturbed
          /\ cron[k].at \notin {"idle", "created"} /\ NoRun.at = "idle"
      BY <1>9, <2>2 DEF CronEnds, fundVars, NoRun
    <3>. QED  BY <1>2, <2>2, <3>1
  <2>. QED  BY <2>1, <2>2
<1>. QED  BY <1>3, <1>4, <1>5, <1>6, <1>7, <1>8, <1>9 DEF CronStep

LEMMA CycleStep ==
  ASSUME PayoutsInv, CycleInv, [Next]_vars
  PROVE  CycleInv'
<1>1. ASSUME UNCHANGED <<cron, disturbed, payouts>>,
             \A b \in Brands : schedule'[b].lastRun = schedule[b].lastRun
      PROVE  CycleInv'
  BY <1>1, CycleFrame, CycleTypes
<1>2. CASE UNCHANGED vars \/ WalletStep
  BY <1>1, <1>2 DEF vars, fundVars, deskVars, WalletStep
<1>3. ASSUME NEW b \in Sellers, BrandStep(b) PROVE CycleInv'
  <2>1. CASE VerifyBankAccount(b) \/ (\E n \in Amounts : Accrue(b, n))
    BY <1>1, <2>1 DEF VerifyBankAccount, Accrue, fundVars, deskVars
  <2>2. ASSUME NEW auto \in BOOLEAN, NEW f \in Floors, ConfigureSchedule(b, auto, f) PROVE CycleInv'
    <3>1. schedule' = [schedule EXCEPT ![b] = [auto |-> auto, floor |-> f, lastRun |-> @.lastRun]]
          /\ UNCHANGED <<cron, disturbed, payouts>>
      BY <2>2 DEF ConfigureSchedule, fundVars
    <3>2. \A c \in Brands : schedule'[c].lastRun = schedule[c].lastRun
      BY <3>1, CycleTypes
    <3>. QED  BY <1>1, <3>1, <3>2
  <2>3. ASSUME NEW n \in Amounts, NEW src \in Sources, RequestPayout(b, n, src) PROVE CycleInv'
    BY <2>3, CycleRequests DEF RequestPayout
  <2>. QED  BY <1>3, <2>1, <2>2, <2>3 DEF BrandStep
<1>4. ASSUME NEW p, NEW status, Transition(p, status), UNCHANGED <<cron, disturbed, schedule>>
      PROVE  CycleInv'
  <2>1. p \in DOMAIN payouts /\ payouts' = [payouts EXCEPT ![p].status = status]
    BY <1>4 DEF Transition, CanMove
  <2>2. \A q \in DOMAIN payouts : payouts[q] \in Payout
    BY CycleTypes
  <2>3. /\ DOMAIN payouts' = DOMAIN payouts
        /\ \A q \in DOMAIN payouts : payouts'[q].cycle = payouts[q].cycle
                                    /\ payouts'[q].brand = payouts[q].brand
    BY <2>1, <2>2, CycleTypes DEF Payout
  <2>. QED  BY <1>4, <2>3, CycleFrame, CycleTypes
<1>5. ASSUME NEW p, FailPayout(p) PROVE CycleInv'
  BY <1>4, <1>5 DEF FailPayout, deskVars
<1>6. ASSUME NEW a \in Admins, AdminStep(a) PROVE CycleInv'
  <2>1. UNCHANGED <<cron, disturbed, schedule>>
    BY <1>6 DEF AdminStep, ReadPayout, BeginPayment, Pay, Leave, OnlyAdminMoves
  <2>2. CASE (\E p \in 1 .. MaxPayouts : ReadPayout(a, p)) \/ Leave(a)
    BY <1>1, <2>1, <2>2 DEF ReadPayout, Leave, fundVars
  <2>3. CASE BeginPayment(a) \/ Pay(a)
    BY <1>4, <2>1, <2>3 DEF BeginPayment, Pay
  <2>. QED  BY <1>6, <2>2, <2>3 DEF AdminStep
<1>. QED  BY <1>2, <1>3, <1>5, <1>6, CycleCron DEF Next

LEMMA CycleInit == Init => CycleInv
<1>. SUFFICES ASSUME Init PROVE OneRun /\ PayoutsStamped /\ RunsAreDue /\ CyclesApart
  BY DEF CycleInv
<1>1. DOMAIN payouts = {}
  BY DEF Init
<1>2. ASSUME NEW k \in Crons PROVE cron[k].at = "idle"
  <2>1. cron[k] = NoRun
    BY ONLY Init, k \in Crons DEF Init
  <2>2. NoRun.at = "idle"
    BY DEF NoRun
  <2>. QED  BY <2>1, <2>2
<1>. QED  BY <1>1, <1>2 DEF OneRun, PayoutsStamped, RunsAreDue, CyclesApart

(***************************************************************************)
(* Over any time, and whatever brands, admins and requests do in between:  *)
(* runs that neither overlap nor die before their stamp pay a brand at most*)
(* once in a cycle.                                                        *)
(***************************************************************************)
THEOREM OnePayoutACycle == Spec => []OnePayoutPerCycle
<1>1. PayoutsInv /\ CycleInv /\ [Next]_vars => (PayoutsInv /\ CycleInv)'
  BY NextKeeps, CycleStep
<1>2. CycleInv => OnePayoutPerCycle
  BY DEF CycleInv, CyclesApart, CycleApart, OnePayoutPerCycle
<1>. QED  BY InitInv, CycleInit, <1>1, <1>2, PTL DEF Spec

HIDE PayoutsAssumption
HIDE LedgerAssumption
-----------------------------------------------------------------------------
(***************************************************************************)
(* The plan.                                                               *)
(***************************************************************************)
Nets == [Brands -> Int]

\* There is a largest among some brands.
LEMMA LargestIn ==
  ASSUME NEW net \in Nets, NEW bs \in SUBSET Brands, bs # {}
  PROVE  Largest(net, bs) \in bs
<1>. DEFINE F == {X \in SUBSET bs : X # {} /\ \A b \in X : \E c \in X : ~Before(net, b, c)}
<1>1. \A b, c \in Brands : Before(net, b, c) \/ Before(net, c, b)
  <2>1. \A b \in Brands : b \in Nat /\ Abs(net[b]) \in Int
    BY PoolAssumption DEF Nets, Abs
  <2>. QED  BY <2>1 DEF Before
<1>2. \A b, c, d \in Brands : Before(net, b, c) /\ Before(net, c, d) => Before(net, b, d)
  <2>1. \A b \in Brands : b \in Nat /\ Abs(net[b]) \in Int
    BY PoolAssumption DEF Nets, Abs
  <2>. QED  BY <2>1 DEF Before
<1>3. F = {}
  <2>1. SUFFICES ASSUME F # {} PROVE FALSE
    OBVIOUS
  <2>2. IsFiniteSet(bs)
    BY PoolAssumption, FS_Subset
  <2>3. F \in SUBSET (SUBSET bs)
    OBVIOUS
  <2>4. PICK X \in F : \A Y \in F : ~(Y \subseteq X /\ Y # X)
    <3>. HIDE DEF F
    <3>. QED  BY <2>1, <2>2, <2>3, MinimalSubset
  <2>5. PICK b : b \in X
    OBVIOUS
  <2>6. b \in Brands /\ X \subseteq Brands
    BY <2>5
  <2>7. X \ {b} \notin F
    BY <2>4, <2>5
  <2>8. CASE X \ {b} = {}
    BY <1>1, <2>5, <2>6, <2>8
  <2>9. CASE X \ {b} # {}
    <3>1. PICK c \in X \ {b} : \A d \in X \ {b} : Before(net, c, d)
      BY <2>7, <2>9
    <3>2. CASE Before(net, c, b)
      BY <2>5, <3>1, <3>2
    <3>3. CASE Before(net, b, c)
      <4>1. \A d \in X : Before(net, b, d)
        BY <1>1, <1>2, <2>6, <3>1, <3>3
      <4>. QED  BY <2>5, <4>1
    <3>. QED  BY <1>1, <2>6, <3>1, <3>2, <3>3
  <2>. QED  BY <2>8, <2>9
<1>4. \E b \in bs : \A c \in bs : Before(net, b, c)
  BY <1>3
<1>. QED  BY <1>4 DEF Largest

\* The rounds as a function; there is one.
Start(net) == [left |-> net, legs |-> <<>>]
IsRun(run, net, N) == run = [n \in 0 .. N |-> IF n = 0 THEN Start(net) ELSE Match(net, run[n - 1])]

LEMMA RunExists == ASSUME NEW net, NEW N \in Nat PROVE \E run : IsRun(run, net, N)
<1>. DEFINE F == {n \in 0 .. N : ~ \E run : IsRun(run, net, n)}
<1>1. SUFFICES ASSUME F # {} PROVE FALSE
  OBVIOUS
<1>2. PICK i \in F : \A j \in F : i <= j
  <2>1. F \in SUBSET (0 .. N)
    OBVIOUS
  <2>. HIDE DEF F
  <2>. QED  BY <1>1, <2>1, LeastOf
<1>3. CASE i = 0
  <2>1. IsRun([n \in 0 .. 0 |-> Start(net)], net, 0)
    BY DEF IsRun
  <2>. QED  BY <1>2, <1>3, <2>1
<1>4. CASE i # 0
  <2>1. i - 1 \in 0 .. N /\ i - 1 \notin F
    BY <1>2, <1>4
  <2>2. PICK run : IsRun(run, net, i - 1)
    BY <2>1
  <2>. DEFINE g == [n \in 0 .. i |-> IF n = i THEN Match(net, run[i - 1]) ELSE run[n]]
  <2>3. \A n \in 0 .. i - 1 : g[n] = run[n]
    OBVIOUS
  <2>4. \A n \in 0 .. i : g[n] = IF n = 0 THEN Start(net) ELSE Match(net, g[n - 1])
    <3>. SUFFICES ASSUME NEW n \in 0 .. i
                  PROVE  g[n] = IF n = 0 THEN Start(net) ELSE Match(net, g[n - 1])
      OBVIOUS
    <3>1. CASE n = i
      BY <1>4, <2>3, <3>1
    <3>2. CASE n # i
      <4>1. n \in 0 .. i - 1 /\ (n # 0 => n - 1 \in 0 .. i - 1)
        BY <3>2
      <4>2. run[n] = IF n = 0 THEN Start(net) ELSE Match(net, run[n - 1])
        BY <2>2, <4>1 DEF IsRun
      <4>. QED  BY <2>3, <4>1, <4>2
    <3>. QED  BY <3>1, <3>2
  <2>5. IsRun(g, net, i)
    <3>1. g = [n \in 0 .. i |-> g[n]]
      OBVIOUS
    <3>. HIDE DEF g
    <3>. QED  BY <2>4, <3>1 DEF IsRun
  <2>. QED  BY <1>2, <2>5
<1>. QED  BY <1>3, <1>4

LEMMA MatchingRuns ==
  ASSUME NEW net
  PROVE  /\ Matching(net)[0] = Start(net)
         /\ \A n \in 1 .. Rounds : Matching(net)[n] = Match(net, Matching(net)[n - 1])
<1>1. Rounds \in Nat
  BY PoolAssumption, FS_CardinalityType DEF Rounds
<1>2. Matching(net) = CHOOSE run : IsRun(run, net, Rounds)
  BY DEF Matching, IsRun, Start
<1>3. IsRun(Matching(net), net, Rounds)
  BY <1>1, <1>2, RunExists
<1>. QED  BY <1>1, <1>3 DEF IsRun

Undone(left) == {b \in Brands : left[b] # 0}

MatchInv(net, m) ==
    /\ m.left \in Nets /\ m.legs \in Seq(Leg)
    /\ SumFunctionOnSet(m.left, Brands) = 0
    /\ \A b \in Brands : Balance(m.legs, b) = net[b] - m.left[b]
    /\ \A i \in DOMAIN m.legs : m.left[m.legs[i].from] = 0 \/ m.left[m.legs[i].to] = 0
    /\ \A i, j \in DOMAIN m.legs :
          m.legs[i].from = m.legs[j].from /\ m.legs[i].to = m.legs[j].to => i = j
    /\ Undone(m.left) # {} =>
          Len(m.legs) + Cardinality(Undone(m.left)) <= Cardinality(Undone(net))
    /\ Undone(m.left) = {} /\ m.legs # <<>> => Len(m.legs) < Cardinality(Undone(net))

LEMMA UndoneFinite ==
  ASSUME NEW left PROVE IsFiniteSet(Undone(left)) /\ Cardinality(Undone(left)) \in Nat
                        /\ Cardinality(Undone(left)) <= Rounds /\ Rounds \in Nat
<1>1. Undone(left) \subseteq Brands /\ IsFiniteSet(Brands)
  BY PoolAssumption DEF Undone
<1>. QED  BY <1>1, FS_Subset, FS_CardinalityType DEF Rounds

\* What one more leg does to the balances.
LEMMA LegAppended ==
  ASSUME NEW legs \in Seq(Leg), NEW leg \in Leg, NEW b \in Brands
  PROVE  /\ Balance(legs, b) \in Int
         /\ Balance(Append(legs, leg), b) = Balance(legs, b)
              + (IF leg.to = b THEN leg.amount ELSE 0) - (IF leg.from = b THEN leg.amount ELSE 0)
<1>. DEFINE more == Append(legs, leg)  k == Len(legs) + 1
            f == AmountsOf(legs)  g == AmountsOf(more)
            To(s) == {i \in DOMAIN s : s[i].to = b}  From(s) == {i \in DOMAIN s : s[i].from = b}
<1>1. /\ Len(legs) \in Nat /\ DOMAIN legs = 1 .. Len(legs) /\ DOMAIN more = 1 .. k
      /\ more[k] = leg /\ \A i \in DOMAIN legs : more[i] = legs[i] /\ legs[i] \in Leg
  OBVIOUS
<1>2. /\ \A i \in DOMAIN legs : f[i] \in Int /\ g[i] = f[i]
      /\ g[k] = leg.amount /\ g[k] \in Int
  BY <1>1 DEF AmountsOf, Leg
<1>3. IsFiniteSet(DOMAIN legs)
  BY <1>1, FS_Interval
<1>4. ASSUME NEW S \in SUBSET DOMAIN legs
      PROVE  /\ SumFunctionOnSet(f, S) \in Int
             /\ SumFunctionOnSet(g, S) = SumFunctionOnSet(f, S)
             /\ SumFunctionOnSet(g, S \cup {k}) = SumFunctionOnSet(f, S) + leg.amount
  <2>1. IsFiniteSet(S) /\ k \notin S
    BY <1>1, <1>3, FS_Subset
  <2>2. \A i \in S : f[i] \in Int /\ g[i] = f[i]
    BY <1>2
  <2>. HIDE DEF f, g, k
  <2>. QED  BY <1>2, <2>1, <2>2, SumInt, SumSame, SumMore
<1>5. To(more) = (IF leg.to = b THEN To(legs) \cup {k} ELSE To(legs))
  BY <1>1
<1>6. From(more) = (IF leg.from = b THEN From(legs) \cup {k} ELSE From(legs))
  BY <1>1
<1>7. /\ Balance(legs, b) = SumFunctionOnSet(f, To(legs)) - SumFunctionOnSet(f, From(legs))
      /\ Balance(more, b) = SumFunctionOnSet(g, To(more)) - SumFunctionOnSet(g, From(more))
  BY DEF Balance
<1>8. To(legs) \in SUBSET DOMAIN legs /\ From(legs) \in SUBSET DOMAIN legs /\ leg.amount \in Int
  BY DEF Leg
<1>. HIDE DEF f, g, To, From, more, k
<1>9. /\ SumFunctionOnSet(f, To(legs)) \in Int /\ SumFunctionOnSet(f, From(legs)) \in Int
      /\ SumFunctionOnSet(g, To(more))
           = SumFunctionOnSet(f, To(legs)) + (IF leg.to = b THEN leg.amount ELSE 0)
      /\ SumFunctionOnSet(g, From(more))
           = SumFunctionOnSet(f, From(legs)) + (IF leg.from = b THEN leg.amount ELSE 0)
  <2>1. /\ SumFunctionOnSet(f, To(legs)) \in Int
        /\ SumFunctionOnSet(g, To(more))
           = SumFunctionOnSet(f, To(legs)) + (IF leg.to = b THEN leg.amount ELSE 0)
    <3>1. /\ SumFunctionOnSet(f, To(legs)) \in Int
          /\ SumFunctionOnSet(g, To(legs)) = SumFunctionOnSet(f, To(legs))
          /\ SumFunctionOnSet(g, To(legs) \cup {k}) = SumFunctionOnSet(f, To(legs)) + leg.amount
      BY <1>4, <1>8
    <3>2. CASE leg.to = b
      BY <1>5, <3>1, <3>2
    <3>3. CASE leg.to # b
      BY <1>5, <3>1, <3>3
    <3>. QED  BY <3>2, <3>3
  <2>2. /\ SumFunctionOnSet(f, From(legs)) \in Int
        /\ SumFunctionOnSet(g, From(more))
           = SumFunctionOnSet(f, From(legs)) + (IF leg.from = b THEN leg.amount ELSE 0)
    <3>1. /\ SumFunctionOnSet(f, From(legs)) \in Int
          /\ SumFunctionOnSet(g, From(legs)) = SumFunctionOnSet(f, From(legs))
          /\ SumFunctionOnSet(g, From(legs) \cup {k}) = SumFunctionOnSet(f, From(legs)) + leg.amount
      BY <1>4, <1>8
    <3>2. CASE leg.from = b
      BY <1>6, <3>1, <3>2
    <3>3. CASE leg.from # b
      BY <1>6, <3>1, <3>3
    <3>. QED  BY <3>2, <3>3
  <2>. QED  BY <2>1, <2>2
<1>. DEFINE x == SumFunctionOnSet(f, To(legs))  y == SumFunctionOnSet(f, From(legs))
            v == IF leg.to = b THEN leg.amount ELSE 0  w == IF leg.from = b THEN leg.amount ELSE 0
<1>10. x \in Int /\ y \in Int /\ v \in Int /\ w \in Int
  BY <1>8, <1>9
<1>11. Balance(legs, b) = x - y /\ Balance(more, b) = (x + v) - (y + w)
  BY <1>7, <1>9
<1>12. Balance(legs, b) \in Int /\ Balance(more, b) = Balance(legs, b) + v - w
  <2>. HIDE DEF x, y, v, w
  <2>. QED  BY <1>10, <1>11
<1>. QED  BY <1>12 DEF more

\* As long as somebody owes, somebody is owed.
LEMMA BothSidesOpen ==
  ASSUME NEW left \in Nets, SumFunctionOnSet(left, Brands) = 0
  PROVE  \/ Undone(left) = {} /\ Debtors(left) = {} /\ Creditors(left) = {}
         \/ Undone(left) # {} /\ Debtors(left) # {} /\ Creditors(left) # {}
<1>1. IsFiniteSet(Brands) /\ \A b \in Brands : left[b] \in Int
  BY PoolAssumption DEF Nets
<1>2. ASSUME Debtors(left) = {} PROVE Undone(left) = {}
  <2>1. \A b \in Brands : left[b] \in Nat
    <3>1. \A b \in Brands : b \notin Debtors(left)
      BY <1>2
    <3>. SUFFICES ASSUME NEW b \in Brands PROVE left[b] \in Nat
      OBVIOUS
    <3>2. ~(left[b] < 0)
      BY <3>1 DEF Debtors
    <3>. QED  BY <1>1, <3>2
  <2>2. \A b \in Brands : left[b] = 0
    BY <1>1, <2>1, SumNothing
  <2>. QED  BY <2>2 DEF Undone
<1>3. ASSUME Creditors(left) = {} PROVE Undone(left) = {}
  <2>1. \A b \in Brands : left[b] \in {n \in Int : n <= 0}
    <3>1. \A b \in Brands : b \notin Creditors(left)
      BY <1>3
    <3>. SUFFICES ASSUME NEW b \in Brands PROVE left[b] \in {n \in Int : n <= 0}
      OBVIOUS
    <3>2. ~(left[b] > 0)
      BY <3>1 DEF Creditors
    <3>. QED  BY <1>1, <3>2
  <2>2. \A b \in Brands : left[b] = 0
    BY <1>1, <2>1, SumNothing
  <2>. QED  BY <2>2 DEF Undone
<1>4. Debtors(left) \subseteq Undone(left) /\ Creditors(left) \subseteq Undone(left)
  BY <1>1 DEF Debtors, Creditors, Undone
<1>. QED  BY <1>2, <1>3, <1>4

\* What a round with anything left to do does.
Pays(m, n, d, c, a) ==
    /\ d # c /\ m.left[d] < 0 /\ m.left[c] > 0
    /\ a <= -m.left[d] /\ a <= m.left[c] /\ (a = -m.left[d] \/ a = m.left[c])
    /\ n = [left |-> [m.left EXCEPT ![d] = @ + a, ![c] = @ - a],
            legs |-> Append(m.legs, [from |-> d, to |-> c, amount |-> a])]

LEMMA RoundPays ==
  ASSUME NEW net \in Nets, NEW m, m.left \in Nets, SumFunctionOnSet(m.left, Brands) = 0,
         Undone(m.left) # {}
  PROVE  \E d, c \in Brands, a \in Nat \ {0} : Pays(m, Match(net, m), d, c, a)
<1>. DEFINE d == Largest(net, Debtors(m.left))
            c == Largest(net, Creditors(m.left))
            a == IF -m.left[d] < m.left[c] THEN -m.left[d] ELSE m.left[c]
<1>1. Debtors(m.left) # {} /\ Creditors(m.left) # {}
  BY BothSidesOpen
<1>2. d \in Debtors(m.left) /\ c \in Creditors(m.left)
  <2>1. Debtors(m.left) \in SUBSET Brands /\ Creditors(m.left) \in SUBSET Brands
    BY DEF Debtors, Creditors
  <2>. QED  BY <1>1, <2>1, LargestIn
<1>3. Match(net, m) = [left |-> [m.left EXCEPT ![d] = @ + a, ![c] = @ - a],
                       legs |-> Append(m.legs, [from |-> d, to |-> c, amount |-> a])]
  BY <1>1 DEF Match
<1>. HIDE DEF d, c
<1>4. d \in Brands /\ c \in Brands /\ m.left[d] < 0 /\ m.left[c] > 0
      /\ m.left[d] \in Int /\ m.left[c] \in Int
  BY <1>2 DEF Debtors, Creditors, Nets
<1>5. /\ a \in Nat \ {0} /\ d # c
      /\ a <= -m.left[d] /\ a <= m.left[c] /\ (a = -m.left[d] \/ a = m.left[c])
  BY <1>4
<1>. HIDE DEF a
<1>6. Pays(m, Match(net, m), d, c, a)
  BY <1>3, <1>4, <1>5 DEF Pays
<1>. QED  BY <1>4, <1>5, <1>6

\* Moving an amount leaves the total alone.
LEMMA MovedSum ==
  ASSUME NEW left \in Nets, NEW d \in Brands, NEW c \in Brands, d # c, NEW a \in Int
  PROVE  LET next == [left EXCEPT ![d] = @ + a, ![c] = @ - a]
         IN  next \in Nets /\ SumFunctionOnSet(next, Brands) = SumFunctionOnSet(left, Brands)
<1>. DEFINE mid == [left EXCEPT ![d] = @ + a]  next == [left EXCEPT ![d] = @ + a, ![c] = @ - a]
<1>1. left \in [Brands -> Int] /\ mid \in [Brands -> Int] /\ next \in [Brands -> Int]
  BY DEF Nets
<1>2. /\ mid[d] = left[d] + a /\ \A b \in Brands \ {d} : mid[b] = left[b]
      /\ next[c] = mid[c] - a /\ \A b \in Brands \ {c} : next[b] = mid[b]
  BY <1>1
<1>3. IsFiniteSet(Brands)
  BY PoolAssumption
<1>. HIDE DEF mid, next
<1>4. \A b \in Brands : left[b] \in Int /\ mid[b] \in Int /\ next[b] \in Int
  BY <1>1
<1>5. /\ SumFunctionOnSet(left, Brands) \in Int
      /\ SumFunctionOnSet(mid, Brands) = SumFunctionOnSet(left, Brands) - left[d] + mid[d]
  BY <1>2, <1>3, <1>4, SumChange
<1>6. /\ SumFunctionOnSet(mid, Brands) \in Int
      /\ SumFunctionOnSet(next, Brands) = SumFunctionOnSet(mid, Brands) - mid[c] + next[c]
  BY <1>2, <1>3, <1>4, SumChange
<1>7. SumFunctionOnSet(next, Brands) = SumFunctionOnSet(left, Brands)
  BY <1>2, <1>4, <1>5, <1>6
<1>. QED  BY <1>1, <1>7 DEF next, Nets

\* A round keeps the books, and leaves somebody with nothing left to do.
LEMMA MatchKeeps ==
  ASSUME NEW net \in Nets, NEW m, MatchInv(net, m)
  PROVE  /\ MatchInv(net, Match(net, m))
         /\ \/ Undone(Match(net, m).left) = {}
            \/ Cardinality(Undone(Match(net, m).left)) < Cardinality(Undone(m.left))
<1>. DEFINE n == Match(net, m)
<1>1. CASE Undone(m.left) = {}
  <2>1. Debtors(m.left) = {}
    BY <1>1, BothSidesOpen DEF MatchInv
  <2>2. n = m
    BY <2>1 DEF Match
  <2>. QED  BY <1>1, <2>2
<1>2. CASE Undone(m.left) # {}
  <2>1. PICK d \in Brands, c \in Brands, a \in Nat \ {0} : Pays(m, n, d, c, a)
    <3>1. m.left \in Nets /\ SumFunctionOnSet(m.left, Brands) = 0
      BY DEF MatchInv
    <3>. QED  BY <1>2, <3>1, RoundPays
  <2>2. /\ d # c /\ m.left[d] < 0 /\ m.left[c] > 0
        /\ a <= -m.left[d] /\ a <= m.left[c] /\ (a = -m.left[d] \/ a = m.left[c])
    BY <2>1 DEF Pays
  <2>. DEFINE leg == [from |-> d, to |-> c, amount |-> a]  k == Len(m.legs) + 1
              now0 == Undone(m.left)  next0 == Undone(n.left)
  <2>3. m.left \in [Brands -> Int] /\ m.legs \in Seq(Leg) /\ leg \in Leg
    BY DEF MatchInv, Nets, Leg
  <2>4. /\ n.left = [m.left EXCEPT ![d] = @ + a, ![c] = @ - a]
        /\ n.legs = Append(m.legs, leg)
    BY <2>1 DEF Pays
  <2>5. /\ n.left[d] = m.left[d] + a /\ n.left[c] = m.left[c] - a
        /\ \A b \in Brands : b # d /\ b # c => n.left[b] = m.left[b]
    BY <2>2, <2>3, <2>4
  <2>6. n.left \in Nets /\ SumFunctionOnSet(n.left, Brands) = 0
    BY <2>2, <2>4, MovedSum DEF MatchInv
  <2>. HIDE DEF n, leg
  <2>7. /\ n.legs \in Seq(Leg) /\ DOMAIN m.legs = 1 .. k - 1 /\ DOMAIN n.legs = 1 .. k /\ k \in Nat
        /\ Len(n.legs) = k /\ n.legs[k] = leg /\ \A i \in DOMAIN m.legs : n.legs[i] = m.legs[i]
    BY <2>3, <2>4
  <2>8. \A b \in Brands : Balance(n.legs, b) = net[b] - n.left[b]
    <3>. SUFFICES ASSUME NEW b \in Brands PROVE Balance(n.legs, b) = net[b] - n.left[b]
      OBVIOUS
    <3>1. /\ Balance(m.legs, b) \in Int
          /\ Balance(n.legs, b) = Balance(m.legs, b)
               + (IF leg.to = b THEN leg.amount ELSE 0) - (IF leg.from = b THEN leg.amount ELSE 0)
      BY <2>3, <2>4, LegAppended
    <3>2. Balance(m.legs, b) = net[b] - m.left[b] /\ m.left[b] \in Int /\ net[b] \in Int
      BY <2>3 DEF MatchInv, Nets
    <3>3. leg.to = c /\ leg.from = d /\ leg.amount = a
      BY DEF leg
    <3>4. CASE b = d
      BY <2>2, <2>5, <3>1, <3>2, <3>3, <3>4
    <3>5. CASE b = c
      BY <2>2, <2>5, <3>1, <3>2, <3>3, <3>5
    <3>6. CASE b # d /\ b # c
      BY <2>5, <3>1, <3>2, <3>3, <3>6
    <3>. QED  BY <3>4, <3>5, <3>6
  <2>9. /\ next0 \subseteq now0 /\ d \in now0 /\ c \in now0
        /\ (n.left[d] = 0 /\ d \notin next0) \/ (n.left[c] = 0 /\ c \notin next0)
    BY <2>2, <2>3, <2>5 DEF Undone
  <2>10. \A i \in DOMAIN n.legs : n.left[n.legs[i].from] = 0 \/ n.left[n.legs[i].to] = 0
    <3>. SUFFICES ASSUME NEW i \in DOMAIN n.legs
                  PROVE  n.left[n.legs[i].from] = 0 \/ n.left[n.legs[i].to] = 0
      OBVIOUS
    <3>1. CASE i = k
      BY <2>7, <2>9, <3>1 DEF leg
    <3>2. CASE i # k
      <4>1. i \in DOMAIN m.legs /\ n.legs[i] = m.legs[i] /\ m.legs[i] \in Leg
        BY <2>3, <2>7, <3>2
      <4>2. m.left[m.legs[i].from] = 0 \/ m.left[m.legs[i].to] = 0
        BY <4>1 DEF MatchInv
      <4>3. \A b \in Brands : m.left[b] = 0 => n.left[b] = 0
        BY <2>2, <2>5
      <4>. QED  BY <4>1, <4>2, <4>3 DEF Leg
    <3>. QED  BY <3>1, <3>2
  <2>11. \A i, j \in DOMAIN n.legs :
             n.legs[i].from = n.legs[j].from /\ n.legs[i].to = n.legs[j].to => i = j
    <3>1. \A i \in DOMAIN m.legs : ~(m.legs[i].from = d /\ m.legs[i].to = c)
      <4>1. \A i \in DOMAIN m.legs : m.left[m.legs[i].from] = 0 \/ m.left[m.legs[i].to] = 0
        BY DEF MatchInv
      <4>. QED  BY <2>2, <4>1
    <3>2. \A i, j \in DOMAIN m.legs :
             m.legs[i].from = m.legs[j].from /\ m.legs[i].to = m.legs[j].to => i = j
      BY DEF MatchInv
    <3>3. leg.from = d /\ leg.to = c
      BY DEF leg
    <3>. SUFFICES ASSUME NEW i \in DOMAIN n.legs, NEW j \in DOMAIN n.legs,
                         n.legs[i].from = n.legs[j].from, n.legs[i].to = n.legs[j].to
                  PROVE  i = j
      OBVIOUS
    <3>4. CASE i = k \/ j = k
      BY <2>7, <3>1, <3>3, <3>4
    <3>5. CASE i # k /\ j # k
      <4>1. i \in DOMAIN m.legs /\ j \in DOMAIN m.legs
        BY <2>7, <3>5
      <4>. QED  BY <2>7, <3>2, <4>1
    <3>. QED  BY <3>4, <3>5
  <2>12. /\ IsFiniteSet(now0) /\ Cardinality(now0) \in Nat /\ Cardinality(next0) \in Nat
         /\ Cardinality(Undone(net)) \in Nat
    BY UndoneFinite
  <2>13. Cardinality(next0) < Cardinality(now0)
    <3>1. next0 # now0
      BY <2>9
    <3>. HIDE DEF now0, next0
    <3>. QED  BY <2>9, <2>12, <3>1, FS_Subset, FS_CardinalityType
  <2>14. ASSUME next0 = {} PROVE Cardinality(now0) >= 2
    <3>1. {d, c} \subseteq now0 /\ IsFiniteSet({d, c}) /\ Cardinality({d, c}) = 2
      <4>1. IsFiniteSet({d}) /\ Cardinality({d}) = 1
        BY FS_Singleton
      <4>2. {d} \cup {c} = {d, c} /\ c \notin {d}
        BY <2>2
      <4>3. IsFiniteSet({d, c}) /\ Cardinality({d, c}) = Cardinality({d}) + 1
        BY <4>1, <4>2, FS_AddElement
      <4>. QED  BY <2>9, <4>1, <4>3
    <3>. QED  BY <2>12, <3>1, FS_Subset
  <2>15. Len(m.legs) + Cardinality(now0) <= Cardinality(Undone(net)) /\ Len(m.legs) \in Nat
    BY <1>2, <2>3 DEF MatchInv
  <2>16. /\ next0 # {} => Len(n.legs) + Cardinality(next0) <= Cardinality(Undone(net))
         /\ next0 = {} => Len(n.legs) < Cardinality(Undone(net))
    <3>. HIDE DEF now0, next0
    <3>. QED  BY <2>7, <2>12, <2>13, <2>14, <2>15
  <2>17. MatchInv(net, n)
    <3>1. next0 = {} /\ n.legs # <<>> => Len(n.legs) < Cardinality(Undone(net))
      BY <2>16
    <3>. QED  BY <2>6, <2>7, <2>8, <2>10, <2>11, <2>16, <3>1 DEF MatchInv
  <2>. QED  BY <2>13, <2>17 DEF n
<1>. QED  BY <1>1, <1>2

\* Every round that has anything to do leaves less to do.
Settles(net, n) ==
    LET m == Matching(net)[n]
    IN  MatchInv(net, m) /\ (Undone(m.left) = {} \/ Cardinality(Undone(m.left)) + n <= Rounds)

LEMMA RoundsSettle ==
  ASSUME NEW net \in Nets, SumFunctionOnSet(net, Brands) = 0
  PROVE  \A n \in 0 .. Rounds : Settles(net, n)
<1>. DEFINE F == {n \in 0 .. Rounds : ~Settles(net, n)}
<1>1. SUFFICES ASSUME F # {} PROVE FALSE
  OBVIOUS
<1>2. Rounds \in Nat /\ Cardinality(Undone(net)) \in Nat /\ Cardinality(Undone(net)) <= Rounds
  BY UndoneFinite
<1>3. PICK n \in F : \A k \in F : n <= k
  <2>1. F \in SUBSET (0 .. Rounds)
    OBVIOUS
  <2>. HIDE DEF F
  <2>. QED  BY <1>1, <1>2, <2>1, LeastOf
<1>4. CASE n = 0
  <2>. DEFINE m == Start(net)
  <2>1. /\ m.left = net /\ m.legs = <<>> /\ DOMAIN m.legs = {}
        /\ Len(m.legs) = 0 /\ m.legs \in Seq(Leg)
    BY DEF Start
  <2>2. \A b \in Brands : Balance(m.legs, b) = 0
    <3>1. \A b \in Brands : {i \in DOMAIN m.legs : m.legs[i].to = b} = {}
                            /\ {i \in DOMAIN m.legs : m.legs[i].from = b} = {}
      BY <2>1
    <3>2. 0 - 0 = 0
      OBVIOUS
    <3>. QED  BY <3>1, <3>2, SumEmpty, Zenon DEF Balance
  <2>3. Matching(net)[0] = m
    BY MatchingRuns
  <2>. HIDE DEF m
  <2>4. MatchInv(net, m)
    <3>1. \A b \in Brands : Balance(m.legs, b) = net[b] - m.left[b]
      <4>1. \A b \in Brands : 0 = net[b] - net[b]
        BY DEF Nets
      <4>. QED  BY <2>1, <2>2, <4>1
    <3>. QED  BY <1>2, <2>1, <3>1 DEF MatchInv
  <2>5. Cardinality(Undone(m.left)) + 0 <= Rounds
    BY <1>2, <2>1
  <2>. QED  BY <1>3, <1>4, <2>3, <2>4, <2>5 DEF Settles
<1>5. CASE n # 0
  <2>1. n - 1 \in 0 .. Rounds /\ n \in 1 .. Rounds /\ n - 1 \notin F
    BY <1>2, <1>3, <1>5
  <2>. DEFINE m == Matching(net)[n - 1]  next == Matching(net)[n]
  <2>2. next = Match(net, m)
    BY <2>1, MatchingRuns
  <2>3. MatchInv(net, m) /\ (Undone(m.left) = {} \/ Cardinality(Undone(m.left)) + (n - 1) <= Rounds)
    BY <2>1 DEF Settles
  <2>. HIDE DEF m, next
  <2>4. /\ MatchInv(net, next)
        /\ Undone(next.left) = {} \/ Cardinality(Undone(next.left)) < Cardinality(Undone(m.left))
    BY <2>2, <2>3, MatchKeeps
  <2>5. Cardinality(Undone(next.left)) \in Nat /\ Cardinality(Undone(m.left)) \in Nat
    BY UndoneFinite
  <2>6. ASSUME Undone(m.left) = {} PROVE Undone(next.left) = {}
    <3>1. Cardinality(Undone(m.left)) = 0
      BY <2>6, FS_EmptySet
    <3>. QED  BY <2>4, <2>5, <3>1
  <2>7. Undone(next.left) = {} \/ Cardinality(Undone(next.left)) + n <= Rounds
    BY <1>2, <2>1, <2>3, <2>4, <2>5, <2>6
  <2>. QED  BY <1>3, <2>4, <2>7 DEF Settles, next
<1>. QED  BY <1>4, <1>5

\* A plan levels the positions with fewer legs than brands, and no two legs between the
\* same two brands in the same direction.
OneLegAPair(legs) ==
    \A i, j \in DOMAIN legs : legs[i].from = legs[j].from /\ legs[i].to = legs[j].to => i = j

LEMMA PlanLevels ==
  ASSUME NEW net \in Nets, SumFunctionOnSet(net, Brands) = 0
  PROVE  /\ Plan(net) \in Seq(Leg)
         /\ \A b \in Brands : Balance(Plan(net), b) = net[b]
         /\ Plan(net) # <<>> => Len(Plan(net)) < Cardinality(Undone(net))
         /\ OneLegAPair(Plan(net))
<1>. DEFINE m == Matching(net)[Rounds]
<1>1. Rounds \in Nat /\ Rounds \in 0 .. Rounds
  BY UndoneFinite
<1>2. MatchInv(net, m) /\ (Undone(m.left) = {} \/ Cardinality(Undone(m.left)) + Rounds <= Rounds)
  BY <1>1, RoundsSettle DEF Settles
<1>3. Plan(net) = m.legs
  BY DEF Plan
<1>. HIDE DEF m
<1>4. Undone(m.left) = {}
  <2>1. Cardinality(Undone(m.left)) \in Nat /\ IsFiniteSet(Undone(m.left))
    BY UndoneFinite
  <2>2. CASE Cardinality(Undone(m.left)) + Rounds <= Rounds
    <3>1. Cardinality(Undone(m.left)) = 0
      BY <1>1, <2>1, <2>2
    <3>. QED  BY <2>1, <3>1, FS_EmptySet
  <2>. QED  BY <1>2, <2>2
<1>5. \A b \in Brands : Balance(m.legs, b) = net[b]
  <2>. SUFFICES ASSUME NEW b \in Brands PROVE Balance(m.legs, b) = net[b]
    OBVIOUS
  <2>1. m.left[b] = 0
    BY <1>4 DEF Undone
  <2>2. Balance(m.legs, b) = net[b] - m.left[b]
    BY <1>2 DEF MatchInv
  <2>. QED  BY <2>1, <2>2 DEF Nets
<1>. QED  BY <1>2, <1>3, <1>4, <1>5 DEF MatchInv, OneLegAPair

(***************************************************************************)
(* Whatever mixture of old and new flows was read, the positions cancel.   *)
(***************************************************************************)
In(seen, X, b)  == SumFunctionOnSet(seen, {e \in X : e[2] = b})
Out(seen, X, b) == SumFunctionOnSet(seen, {e \in X : e[1] = b})

Along(seen, X) == [b \in Brands |-> In(seen, X, b) - Out(seen, X, b)]

LEMMA EdgesFinite == IsFiniteSet(Edges)
  BY PoolAssumption, FS_Product DEF Edges

\* One edge adds its flow to the brand at one end and takes it from the other.
LEMMA OneEdgeMore ==
  ASSUME NEW seen \in [Edges -> Nat], NEW X \in SUBSET Edges, NEW e \in X, NEW b \in Brands
  PROVE  /\ In(seen, X, b) = In(seen, X \ {e}, b) + (IF e[2] = b THEN seen[e] ELSE 0)
         /\ Out(seen, X, b) = Out(seen, X \ {e}, b) + (IF e[1] = b THEN seen[e] ELSE 0)
         /\ In(seen, X \ {e}, b) \in Int /\ Out(seen, X \ {e}, b) \in Int
<1>1. \A S \in SUBSET Edges : IsFiniteSet(S) /\ \A x \in S : seen[x] \in Int
  BY EdgesFinite, FS_Subset
<1>2. ASSUME NEW S \in SUBSET Edges
      PROVE  /\ SumFunctionOnSet(seen, S) =
                    SumFunctionOnSet(seen, S \ {e}) + (IF e \in S THEN seen[e] ELSE 0)
             /\ SumFunctionOnSet(seen, S \ {e}) \in Int
  <2>1. SumFunctionOnSet(seen, S) \in Int /\ SumFunctionOnSet(seen, S \ {e}) \in Int
        /\ seen[e] \in Int
    BY <1>1, SumInt
  <2>2. CASE e \in S
    <3>1. SumFunctionOnSet(seen, S) = seen[e] + SumFunctionOnSet(seen, S \ {e})
      BY <1>1, <2>2, SumStep
    <3>. QED  BY <2>1, <2>2, <3>1
  <2>3. CASE e \notin S
    <3>1. S \ {e} = S
      BY <2>3
    <3>. QED  BY <2>1, <2>3, <3>1
  <2>. QED  BY <2>2, <2>3
<1>3. /\ {x \in X : x[2] = b} \in SUBSET Edges /\ {x \in X : x[1] = b} \in SUBSET Edges
      /\ {x \in X \ {e} : x[2] = b} = {x \in X : x[2] = b} \ {e}
      /\ {x \in X \ {e} : x[1] = b} = {x \in X : x[1] = b} \ {e}
      /\ e[2] = b <=> e \in {x \in X : x[2] = b}
      /\ e[1] = b <=> e \in {x \in X : x[1] = b}
  OBVIOUS
<1>4. /\ In(seen, X, b) = In(seen, X \ {e}, b) + (IF e[2] = b THEN seen[e] ELSE 0)
      /\ In(seen, X \ {e}, b) \in Int
  <2>. DEFINE S == {x \in X : x[2] = b}
  <2>1. /\ SumFunctionOnSet(seen, S) =
               SumFunctionOnSet(seen, S \ {e}) + (IF e \in S THEN seen[e] ELSE 0)
        /\ SumFunctionOnSet(seen, S \ {e}) \in Int
    BY <1>2, <1>3
  <2>2. In(seen, X, b) = SumFunctionOnSet(seen, S)
        /\ In(seen, X \ {e}, b) = SumFunctionOnSet(seen, S \ {e})
    BY <1>3 DEF In
  <2>3. e[2] = b <=> e \in S
    BY <1>3
  <2>. HIDE DEF S
  <2>. QED  BY <2>1, <2>2, <2>3
<1>5. /\ Out(seen, X, b) = Out(seen, X \ {e}, b) + (IF e[1] = b THEN seen[e] ELSE 0)
      /\ Out(seen, X \ {e}, b) \in Int
  <2>. DEFINE S == {x \in X : x[1] = b}
  <2>1. /\ SumFunctionOnSet(seen, S) =
               SumFunctionOnSet(seen, S \ {e}) + (IF e \in S THEN seen[e] ELSE 0)
        /\ SumFunctionOnSet(seen, S \ {e}) \in Int
    BY <1>2, <1>3
  <2>2. Out(seen, X, b) = SumFunctionOnSet(seen, S)
        /\ Out(seen, X \ {e}, b) = SumFunctionOnSet(seen, S \ {e})
    BY <1>3 DEF Out
  <2>3. e[1] = b <=> e \in S
    BY <1>3
  <2>. HIDE DEF S
  <2>. QED  BY <2>1, <2>2, <2>3
<1>. QED  BY <1>4, <1>5

LEMMA PositionsCancel ==
  ASSUME NEW seen \in [Edges -> Nat]
  PROVE  Positions(seen) \in Nets /\ SumFunctionOnSet(Positions(seen), Brands) = 0
<1>. DEFINE Good(X) == Along(seen, X) \in Nets /\ SumFunctionOnSet(Along(seen, X), Brands) = 0
            F == {X \in SUBSET Edges : ~Good(X)}
<1>1. F = {}
  <2>1. SUFFICES ASSUME F # {} PROVE FALSE
    OBVIOUS
  <2>2. PICK X \in F : \A Y \in F : ~(Y \subseteq X /\ Y # X)
    <3>1. F \in SUBSET (SUBSET Edges)
      OBVIOUS
    <3>. HIDE DEF F
    <3>. QED  BY <2>1, <3>1, EdgesFinite, MinimalSubset
  <2>3. X \in SUBSET Edges /\ ~Good(X)
    BY <2>2
  <2>4. CASE X = {}
    <3>1. \A b \in Brands : {e \in X : e[2] = b} = {} /\ {e \in X : e[1] = b} = {}
      BY <2>4
    <3>2. \A b \in Brands : In(seen, X, b) = 0 /\ Out(seen, X, b) = 0
      BY <3>1, SumEmpty DEF In, Out
    <3>3. \A b \in Brands : Along(seen, X)[b] = 0
      <4>1. \A b \in Brands : Along(seen, X)[b] = In(seen, X, b) - Out(seen, X, b)
        BY DEF Along
      <4>2. 0 - 0 = 0
        OBVIOUS
      <4>. QED  BY <3>2, <4>1, <4>2, Zenon
    <3>4. Along(seen, X) \in Nets
      BY <3>2 DEF Along, Nets
    <3>. QED  BY <2>3, <3>3, <3>4, SumZero, PoolAssumption
  <2>5. CASE X # {}
    <3>1. PICK e \in X : TRUE
      BY <2>5
    <3>. DEFINE Y == X \ {e}  old == Along(seen, Y)  new == Along(seen, X)  s == seen[e]
                d == e[2]  c == e[1]
    <3>2. Y \in SUBSET Edges /\ Good(Y)
      BY <2>2, <2>3, <3>1
    <3>3. d \in Brands /\ c \in Brands /\ s \in Int
      BY <2>3 DEF Edges
    <3>4. \A b \in Brands :
             /\ new[b] = old[b] + (IF d = b THEN s ELSE 0) - (IF c = b THEN s ELSE 0)
             /\ old[b] \in Int
      <4>. SUFFICES ASSUME NEW b \in Brands
                    PROVE  /\ new[b] = old[b] + (IF d = b THEN s ELSE 0) - (IF c = b THEN s ELSE 0)
                           /\ old[b] \in Int
        OBVIOUS
      <4>1. /\ In(seen, X, b) = In(seen, Y, b) + (IF d = b THEN s ELSE 0)
            /\ Out(seen, X, b) = Out(seen, Y, b) + (IF c = b THEN s ELSE 0)
            /\ In(seen, Y, b) \in Int /\ Out(seen, Y, b) \in Int
        BY <2>3, OneEdgeMore
      <4>2. new[b] = In(seen, X, b) - Out(seen, X, b) /\ old[b] = In(seen, Y, b) - Out(seen, Y, b)
        BY DEF Along
      <4>. HIDE DEF new, old, Y, s, d, c
      <4>. QED  BY <3>3, <4>1, <4>2
    <3>5. old \in Nets /\ SumFunctionOnSet(old, Brands) = 0 /\ DOMAIN new = Brands
          /\ new = [b \in Brands |-> new[b]]
      BY <3>2 DEF Along
    <3>. HIDE DEF new, old, Y, s, d, c, Good
    <3>6. CASE d = c
      <4>1. \A b \in Brands : new[b] = old[b]
        <5>. SUFFICES ASSUME NEW b \in Brands PROVE new[b] = old[b]
          OBVIOUS
        <5>1. new[b] = old[b] + (IF d = b THEN s ELSE 0) - (IF d = b THEN s ELSE 0)
              /\ old[b] \in Int
          BY <3>4, <3>6
        <5>. QED  BY <3>3, <5>1
      <4>2. new = old
        BY <3>5, <4>1 DEF Nets
      <4>. QED  BY <2>3, <3>5, <4>2 DEF Good, new
    <3>7. CASE d # c
      <4>1. new = [old EXCEPT ![d] = @ + s, ![c] = @ - s]
        <5>. DEFINE m == [old EXCEPT ![d] = @ + s, ![c] = @ - s]
        <5>1. DOMAIN m = Brands /\ m = [b \in Brands |-> m[b]]
          BY <3>5 DEF Nets
        <5>2. \A b \in Brands : m[b] = new[b]
          <6>. SUFFICES ASSUME NEW b \in Brands PROVE m[b] = new[b]
            OBVIOUS
          <6>1. new[b] = old[b] + (IF d = b THEN s ELSE 0) - (IF c = b THEN s ELSE 0)
                /\ old[b] \in Int
            BY <3>4
          <6>2. m[b] = IF b = c THEN old[b] - s ELSE IF b = d THEN old[b] + s ELSE old[b]
            BY <3>3, <3>5, <3>7 DEF Nets
          <6>. HIDE DEF m
          <6>. QED  BY <3>3, <3>7, <6>1, <6>2
        <5>. HIDE DEF m
        <5>3. m = new
          BY <3>5, <5>1, <5>2
        <5>. QED  BY <5>3 DEF m
      <4>2. new \in Nets /\ SumFunctionOnSet(new, Brands) = 0
        BY <3>3, <3>5, <3>7, <4>1, MovedSum
      <4>. QED  BY <2>3, <4>2 DEF Good, new
    <3>. QED  BY <3>6, <3>7
  <2>. QED  BY <2>4, <2>5
<1>2. Positions(seen) = Along(seen, Edges)
  BY DEF Positions, NetPosition, Along, In, Out
<1>3. Good(Edges)
  BY <1>1
<1>. QED  BY <1>2, <1>3

-----------------------------------------------------------------------------
(***************************************************************************)
(* The shop: what is typed, and what a redeemed voucher leaves behind.     *)
(***************************************************************************)
Claim == [voucher : Nat, at : Nat]
Offer == [voucher : Nat, brand : Brands, txn : Txns]

ShopTyped ==
    /\ now \in Nat
    /\ vouchers \in Seq(Voucher)
    /\ flow \in [Edges -> Nat]
    /\ claims \in [Txns -> Claim]
    /\ till \in [Storefronts -> Offer \cup {Idle}]
    /\ \A h \in Storefronts : till[h] # Idle => till[h].voucher \in DOMAIN vouchers

Redeemed(v) == vouchers[v].status = "redeemed"
Credits     == [v \in DOMAIN vouchers |-> vouchers[v].credit]
Burnt(e)    == {v \in DOMAIN vouchers : /\ vouchers[v].status = "redeemed"
                                        /\ <<vouchers[v].source, vouchers[v].target>> = e}

FlowsAdd == \A e \in Edges : flow[e] = SumFunctionOnSet(Credits, Burnt(e))

\* The key of a redeemed voucher remembers a redemption no older than it.
KeysRemember ==
    \A v \in DOMAIN vouchers : Redeemed(v) =>
        /\ vouchers[v].txn \in Txns
        /\ claims[vouchers[v].txn].voucher # 0
        /\ vouchers[v].at <= claims[vouchers[v].txn].at
        /\ claims[vouchers[v].txn].at <= now

KeyApart(u, v) == u # v /\ Redeemed(u) /\ Redeemed(v) /\ vouchers[u].txn = vouchers[v].txn
                  => vouchers[u].at + KeyTtl <= vouchers[v].at
                     \/ vouchers[v].at + KeyTtl <= vouchers[u].at

KeysApart == \A u, v \in DOMAIN vouchers : KeyApart(u, v)

ShopInv == ShopTyped /\ FlowsAdd /\ KeysRemember /\ KeysApart

LEMMA FlowsInParts == FlowsAdd /\ KeysApart => FlowsAreRedemptions
  BY DEF FlowsAdd, KeysApart, KeyApart, Redeemed, Credits, Burnt, FlowsAreRedemptions

LEMMA CreditIsNat ==
  ASSUME NEW s \in Brands, NEW b \in Brands, NEW face \in Faces
  PROVE  Credit(s, b, face) \in Nat
<1>. DEFINE n == face * Percent[s][b]
<1>1. face \in Nat /\ Percent[s][b] \in Nat /\ Cap \in Nat
  BY PoolAssumption
<1>2. n \in Nat
  BY <1>1
<1>3. Credit(s, b, face) = LET c == RoundPercent(n) IN IF Cap > 0 /\ c > Cap THEN Cap ELSE c
  BY DEF Credit
<1>. HIDE DEF n
<1>4. n \div 100 \in Nat
  BY <1>2
<1>5. RoundPercent(n) \in Nat
  BY <1>4 DEF RoundPercent
<1>. QED  BY <1>1, <1>3, <1>5

\* The vouchers with these ids are what they were.
LEMMA SameVouchers ==
  ASSUME ShopTyped, vouchers' \in Seq(Voucher), NEW e, NEW S \in SUBSET DOMAIN vouchers,
         S \subseteq DOMAIN vouchers', \A v \in S : vouchers'[v] = vouchers[v]
  PROVE  /\ IsFiniteSet(S) /\ \A v \in S : Credits[v] \in Int /\ Credits'[v] = Credits[v]
         /\ SumFunctionOnSet(Credits', S) = SumFunctionOnSet(Credits, S)
<1>1. vouchers \in Seq(Voucher) /\ DOMAIN vouchers = 1 .. Len(vouchers) /\ Len(vouchers) \in Nat
  BY DEF ShopTyped
<1>2. IsFiniteSet(S)
  BY <1>1, FS_Interval, FS_Subset
<1>3. \A v \in S : vouchers[v] \in Voucher
  BY <1>1
<1>4. \A v \in S : Credits[v] \in Int /\ Credits'[v] = Credits[v]
  BY <1>3 DEF Credits, Voucher
<1>. HIDE DEF Credits
<1>. QED  BY <1>2, <1>4, SumSame

LEMMA ShopInit == PoolInit => ShopInv
<1>. SUFFICES ASSUME PoolInit PROVE ShopInv
  OBVIOUS
<1>1. vouchers = <<>> /\ DOMAIN vouchers = {} /\ vouchers \in Seq(Voucher)
  BY DEF PoolInit
<1>2. FlowsAdd
  <2>1. \A e \in Edges : flow[e] = 0 /\ Burnt(e) = {}
    BY <1>1 DEF PoolInit, Burnt
  <2>. QED  BY <2>1, SumEmpty DEF FlowsAdd
<1>3. ShopTyped
  BY <1>1 DEF PoolInit, ShopTyped, Unclaimed, Claim
<1>. QED  BY <1>1, <1>2, <1>3 DEF ShopInv, KeysRemember, KeysApart

LEMMA ShopQuiet ==
  ASSUME ShopInv, UNCHANGED <<vouchers, flow, claims>>, now' \in Nat, now' >= now,
         till' \in [Storefronts -> Offer \cup {Idle}],
         \A h \in Storefronts : till'[h] # Idle => till'[h].voucher \in DOMAIN vouchers
  PROVE  ShopInv'
<1>1. ShopTyped'
  BY DEF ShopInv, ShopTyped
<1>2. FlowsAdd'
  BY DEF ShopInv, FlowsAdd, Credits, Burnt
<1>3. KeysApart'
  BY DEF ShopInv, KeysApart, KeyApart, Redeemed
<1>4. KeysRemember'
  <2>. SUFFICES ASSUME NEW v \in DOMAIN vouchers', Redeemed(v)'
                PROVE  /\ vouchers'[v].txn \in Txns
                       /\ claims'[vouchers'[v].txn].voucher # 0
                       /\ vouchers'[v].at <= claims'[vouchers'[v].txn].at
                       /\ claims'[vouchers'[v].txn].at <= now'
    BY DEF KeysRemember
  <2>1. /\ vouchers[v].txn \in Txns
        /\ claims[vouchers[v].txn].voucher # 0
        /\ vouchers[v].at <= claims[vouchers[v].txn].at
        /\ claims[vouchers[v].txn].at <= now
    BY DEF ShopInv, KeysRemember, Redeemed
  <2>2. claims[vouchers[v].txn].at \in Nat /\ now \in Nat
    BY <2>1 DEF ShopInv, ShopTyped, Claim
  <2>. QED  BY <2>1, <2>2
<1>. QED  BY <1>1, <1>2, <1>3, <1>4 DEF ShopInv

LEMMA ShopIssues ==
  ASSUME ShopInv, NEW b \in Brands, NEW face \in Faces, IssueVoucher(b, face),
         UNCHANGED <<flow, claims, till, now>>
  PROVE  ShopInv'
<1>. DEFINE new == [source |-> b, face |-> face, expires |-> now + VoucherTtl,
                    status |-> "issued", target |-> b, credit |-> 0, txn |-> Idle, at |-> 0]
            k == Len(vouchers) + 1
<1>1. vouchers' = Append(vouchers, new) /\ new \in Voucher /\ new.status = "issued"
  <2>1. now + VoucherTtl \in Nat
    BY PoolAssumption DEF ShopInv, ShopTyped
  <2>. QED  BY <2>1 DEF IssueVoucher, Voucher
<1>. HIDE DEF new
<1>2. /\ vouchers' \in Seq(Voucher) /\ k \in Nat
      /\ DOMAIN vouchers = 1 .. (k - 1) /\ DOMAIN vouchers' = 1 .. k /\ vouchers'[k] = new
      /\ \A v \in DOMAIN vouchers : vouchers'[v] = vouchers[v]
  BY <1>1 DEF ShopInv, ShopTyped
<1>3. \A v \in DOMAIN vouchers' : Redeemed(v)' => v \in DOMAIN vouchers /\ Redeemed(v)
  BY <1>1, <1>2 DEF Redeemed
<1>4. \A v \in DOMAIN vouchers : v \in DOMAIN vouchers'
  BY <1>2
<1>5. ShopTyped'
  BY <1>2 DEF ShopInv, ShopTyped
<1>6. KeysRemember'
  BY <1>2, <1>3 DEF ShopInv, KeysRemember
<1>7. KeysApart'
  <2>. SUFFICES ASSUME NEW u \in DOMAIN vouchers', NEW v \in DOMAIN vouchers' PROVE KeyApart(u, v)'
    BY DEF KeysApart
  <2>1. CASE Redeemed(u)' /\ Redeemed(v)'
    <3>1. u \in DOMAIN vouchers /\ v \in DOMAIN vouchers /\ Redeemed(u) /\ Redeemed(v)
      BY <1>3, <2>1
    <3>2. KeyApart(u, v) /\ vouchers'[u] = vouchers[u] /\ vouchers'[v] = vouchers[v]
      BY <1>2, <3>1 DEF ShopInv, KeysApart
    <3>. QED  BY <3>1, <3>2 DEF KeyApart
  <2>. QED  BY <2>1 DEF KeyApart
<1>8. FlowsAdd'
  <2>. SUFFICES ASSUME NEW e \in Edges PROVE flow'[e] = SumFunctionOnSet(Credits, Burnt(e))'
    BY DEF FlowsAdd
  <2>1. Burnt(e)' = Burnt(e)
    BY <1>1, <1>2 DEF Burnt
  <2>2. Burnt(e) \in SUBSET DOMAIN vouchers /\ Burnt(e) \subseteq DOMAIN vouchers'
        /\ \A v \in Burnt(e) : vouchers'[v] = vouchers[v]
    BY <1>2, <1>4 DEF Burnt
  <2>3. SumFunctionOnSet(Credits', Burnt(e)) = SumFunctionOnSet(Credits, Burnt(e))
    BY <1>2, <2>2, SameVouchers DEF ShopInv
  <2>. QED  BY <2>1, <2>3 DEF ShopInv, FlowsAdd
<1>. QED  BY <1>5, <1>6, <1>7, <1>8 DEF ShopInv

(***************************************************************************)
(* A burn. Of the key, nobody redeemed anything in the last KeyTtl; of the *)
(* edge, the credits so far do not count this voucher.                     *)
(***************************************************************************)
LEMMA ShopBurns ==
  ASSUME ShopInv, NEW h \in Storefronts, Burn(h), UNCHANGED now
  PROVE  ShopInv'
<1>. DEFINE s == till[h]  k == s.voucher  old == vouchers[k]
            c == Credit(old.source, s.brand, old.face)
            new == [old EXCEPT !.status = "redeemed", !.target = s.brand, !.credit = c,
                               !.txn = s.txn, !.at = now]
            mark == [voucher |-> k, at |-> now]
            edge == <<old.source, s.brand>>
<1>1. /\ s \in Offer /\ k \in DOMAIN vouchers /\ old \in Voucher /\ k # 0
      /\ now \in Nat /\ vouchers \in Seq(Voucher) /\ flow \in [Edges -> Nat]
      /\ claims \in [Txns -> Claim]
  BY DEF ShopInv, ShopTyped, Burn
<1>2. /\ vouchers' = [vouchers EXCEPT ![k] = new]
      /\ flow' = [flow EXCEPT ![edge] = @ + c]
      /\ claims' = [claims EXCEPT ![s.txn] = mark]
      /\ till' = [till EXCEPT ![h] = Idle]
      /\ old.status = "issued" /\ ~Claimed(s.txn)
  BY DEF Burn, Record
<1>3. /\ s.txn \in Txns /\ s.brand \in Brands /\ k \in Nat
      /\ old.source \in Brands /\ edge \in Edges /\ c \in Nat
  <2>1. s.txn \in Txns /\ s.brand \in Brands /\ s.voucher \in Nat
    BY <1>1 DEF Offer
  <2>2. old.source \in Brands /\ old.face \in Faces
    BY <1>1 DEF Voucher
  <2>. QED  BY <2>1, <2>2, CreditIsNat DEF Edges
<1>4. /\ new \in Voucher /\ new.status = "redeemed" /\ new.source = old.source
      /\ new.target = s.brand /\ new.credit = c /\ new.txn = s.txn /\ new.at = now
  <2>. HIDE DEF c
  <2>. QED  BY <1>1, <1>3 DEF Voucher
<1>5. mark \in Claim /\ mark.voucher = k /\ mark.at = now
  BY <1>1, <1>3 DEF Claim
<1>. HIDE DEF new, c, mark, edge, old
<1>6. /\ vouchers' \in Seq(Voucher) /\ DOMAIN vouchers' = DOMAIN vouchers /\ vouchers'[k] = new
      /\ \A v \in DOMAIN vouchers : v # k => vouchers'[v] = vouchers[v]
  BY <1>1, <1>2, <1>4
<1>7. /\ claims' \in [Txns -> Claim] /\ claims'[s.txn] = mark
      /\ \A t \in Txns : t # s.txn => claims'[t] = claims[t]
  BY <1>1, <1>2, <1>3, <1>5
<1>8. \A v \in DOMAIN vouchers : Redeemed(v) => v # k /\ Redeemed(v)'
  BY <1>2, <1>6 DEF Redeemed, old
<1>9. \A v \in DOMAIN vouchers : Redeemed(v)' /\ v # k => Redeemed(v)
  BY <1>6 DEF Redeemed
<1>10. \A v \in DOMAIN vouchers : Redeemed(v) /\ vouchers[v].txn = s.txn
                                    => vouchers[v].at + KeyTtl <= now
  <2>. SUFFICES ASSUME NEW v \in DOMAIN vouchers, Redeemed(v), vouchers[v].txn = s.txn
                PROVE  vouchers[v].at + KeyTtl <= now
    OBVIOUS
  <2>1. claims[s.txn].voucher # 0 /\ vouchers[v].at <= claims[s.txn].at
    BY DEF ShopInv, KeysRemember
  <2>2. claims[s.txn].at + KeyTtl <= now
    <3>1. claims[s.txn] # Unclaimed
      BY <2>1 DEF Unclaimed
    <3>2. ~(now < claims[s.txn].at + KeyTtl)
      BY <1>2, <3>1 DEF Claimed
    <3>3. claims[s.txn].at \in Nat /\ KeyTtl \in Nat
      BY <1>1, <1>3, LedgerAssumption DEF Claim
    <3>. QED  BY <1>1, <3>2, <3>3
  <2>3. vouchers[v].at \in Nat /\ claims[s.txn].at \in Nat /\ KeyTtl \in Nat
    <3>1. vouchers[v] \in Voucher /\ claims[s.txn] \in Claim
      BY <1>1, <1>3
    <3>. QED  BY <3>1, LedgerAssumption DEF Claim, Voucher
  <2>. QED  BY <1>1, <2>1, <2>2, <2>3
<1>11. ShopTyped'
  <2>1. flow' \in [Edges -> Nat]
    BY <1>1, <1>2, <1>3
  <2>2. /\ till' \in [Storefronts -> Offer \cup {Idle}]
        /\ \A g \in Storefronts : till'[g] # Idle => till[g] # Idle /\ till'[g] = till[g]
    BY <1>2 DEF ShopInv, ShopTyped
  <2>. QED  BY <1>1, <1>6, <1>7, <2>1, <2>2 DEF ShopInv, ShopTyped
<1>12. KeysRemember'
  <2>. SUFFICES ASSUME NEW v \in DOMAIN vouchers, Redeemed(v)'
                PROVE  /\ vouchers'[v].txn \in Txns
                       /\ claims'[vouchers'[v].txn].voucher # 0
                       /\ vouchers'[v].at <= claims'[vouchers'[v].txn].at
                       /\ claims'[vouchers'[v].txn].at <= now'
    BY <1>6 DEF KeysRemember
  <2>1. CASE v = k
    BY <1>1, <1>3, <1>4, <1>5, <1>6, <1>7, <2>1
  <2>2. CASE v # k
    <3>1. /\ vouchers'[v] = vouchers[v] /\ vouchers[v] \in Voucher
          /\ vouchers[v].txn \in Txns
          /\ claims[vouchers[v].txn].voucher # 0
          /\ vouchers[v].at <= claims[vouchers[v].txn].at
          /\ claims[vouchers[v].txn].at <= now
      BY <1>1, <1>6, <1>9, <2>2 DEF ShopInv, KeysRemember
    <3>2. CASE vouchers[v].txn = s.txn
      <4>1. vouchers[v].at \in Nat /\ claims[s.txn].at \in Nat
        BY <1>1, <1>3, <3>1 DEF Voucher, Claim
      <4>. QED  BY <1>1, <1>5, <1>7, <3>1, <3>2, <4>1
    <3>3. CASE vouchers[v].txn # s.txn
      BY <1>7, <3>1, <3>3
    <3>. QED  BY <3>2, <3>3
  <2>. QED  BY <2>1, <2>2
<1>13. KeysApart'
  <2>. SUFFICES ASSUME NEW u \in DOMAIN vouchers, NEW v \in DOMAIN vouchers PROVE KeyApart(u, v)'
    BY <1>6 DEF KeysApart
  <2>1. CASE u = k \/ v = k
    BY <1>4, <1>6, <1>9, <1>10, <2>1 DEF KeyApart
  <2>2. CASE u # k /\ v # k
    <3>1. KeyApart(u, v) /\ vouchers'[u] = vouchers[u] /\ vouchers'[v] = vouchers[v]
      BY <1>6, <2>2 DEF ShopInv, KeysApart
    <3>. QED  BY <1>9, <2>2, <3>1 DEF KeyApart
  <2>. QED  BY <2>1, <2>2
<1>14. FlowsAdd'
  <2>. SUFFICES ASSUME NEW e \in Edges PROVE flow'[e] = SumFunctionOnSet(Credits, Burnt(e))'
    BY DEF FlowsAdd
  <2>1. /\ k \notin Burnt(e) /\ Burnt(e) \in SUBSET DOMAIN vouchers
        /\ Burnt(e) \subseteq DOMAIN vouchers'
        /\ \A v \in Burnt(e) : vouchers'[v] = vouchers[v]
    BY <1>2, <1>6 DEF Burnt, old
  <2>2. Burnt(e)' = IF edge = e THEN Burnt(e) \cup {k} ELSE Burnt(e)
    <3>1. k \in Burnt(e)' <=> edge = e
      BY <1>1, <1>4, <1>6 DEF Burnt, edge
    <3>2. \A v \in DOMAIN vouchers : v # k => (v \in Burnt(e)' <=> v \in Burnt(e))
      BY <1>6 DEF Burnt
    <3>3. Burnt(e)' \subseteq DOMAIN vouchers /\ Burnt(e) \subseteq DOMAIN vouchers
          /\ k \in DOMAIN vouchers
      BY <1>1, <1>6 DEF Burnt
    <3>. QED  BY <2>1, <3>1, <3>2, <3>3
  <2>3. /\ IsFiniteSet(Burnt(e))
        /\ \A v \in Burnt(e) : Credits[v] \in Int /\ Credits'[v] = Credits[v]
        /\ SumFunctionOnSet(Credits', Burnt(e)) = SumFunctionOnSet(Credits, Burnt(e))
    BY <1>6, <2>1, SameVouchers DEF ShopInv
  <2>4. Credits'[k] = c /\ c \in Int
    BY <1>1, <1>3, <1>4, <1>6 DEF Credits
  <2>5. flow[e] = SumFunctionOnSet(Credits, Burnt(e)) /\ flow[e] \in Nat
    BY <1>1 DEF ShopInv, FlowsAdd
  <2>6. CASE edge = e
    <3>1. SumFunctionOnSet(Credits', Burnt(e) \cup {k}) = SumFunctionOnSet(Credits, Burnt(e)) + c
      <4>. HIDE DEF Credits, Burnt
      <4>. QED  BY <2>1, <2>3, <2>4, SumMore
    <3>2. flow'[e] = flow[e] + c
      BY <1>1, <1>2, <1>3, <2>6
    <3>. QED  BY <2>2, <2>5, <2>6, <3>1, <3>2
  <2>7. CASE edge # e
    <3>1. flow'[e] = flow[e]
      BY <1>1, <1>2, <2>7
    <3>. QED  BY <2>2, <2>3, <2>5, <2>7, <3>1
  <2>. QED  BY <2>6, <2>7
<1>. QED  BY <1>11, <1>12, <1>13, <1>14 DEF ShopInv

LEMMA ShopStep == ShopInv /\ [PoolNext]_settlementVars => ShopInv'
<1>. SUFFICES ASSUME ShopInv, [PoolNext]_settlementVars PROVE ShopInv'
  OBVIOUS
<1>1. /\ now \in Nat /\ now + 1 \in Nat /\ now + 1 >= now /\ now >= now
      /\ till \in [Storefronts -> Offer \cup {Idle}]
      /\ \A h \in Storefronts : till[h] # Idle => till[h].voucher \in DOMAIN vouchers
  BY DEF ShopInv, ShopTyped
<1>2. ASSUME UNCHANGED poolVars, UNCHANGED now \/ now' = now + 1 PROVE ShopInv'
  BY <1>1, <1>2, ShopQuiet DEF poolVars
<1>3. CASE UNCHANGED settlementVars
  BY <1>2, <1>3 DEF settlementVars, ledgerVars
<1>4. CASE PoolStep
  <2>1. UNCHANGED now
    BY <1>4 DEF PoolStep, ledgerVars
  <2>2. CASE Issue
    <3>1. PICK b \in Brands, f \in Faces : IssueVoucher(b, f)
      BY <2>2 DEF Issue
    <3>. QED  BY <2>1, <2>2, <3>1, ShopIssues DEF Issue
  <2>3. CASE \E b \in Leavers : Membership(b)
    BY <1>1, <2>1, <2>3, ShopQuiet DEF Membership
  <2>4. ASSUME NEW h \in Storefronts, Redeem(h) PROVE ShopInv'
    <3>1. ASSUME NEW v \in DOMAIN vouchers, NEW b \in Brands, NEW t \in Txns, Validate(h, v, b, t)
          PROVE  ShopInv'
      <4>. DEFINE offer == [voucher |-> v, brand |-> b, txn |-> t]
      <4>1. offer \in Offer
        BY DEF ShopInv, ShopTyped, Offer
      <4>2. till' = [till EXCEPT ![h] = offer] /\ UNCHANGED <<vouchers, flow, claims>>
        BY <3>1 DEF Validate
      <4>3. /\ till' \in [Storefronts -> Offer \cup {Idle}]
            /\ \A g \in Storefronts : till'[g] # Idle => till'[g].voucher \in DOMAIN vouchers
        BY <1>1, <4>1, <4>2
      <4>. QED  BY <1>1, <2>1, <4>2, <4>3, ShopQuiet
    <3>2. CASE Burn(h)
      BY <2>1, <3>2, ShopBurns
    <3>3. CASE GiveUp(h)
      <4>1. /\ till' \in [Storefronts -> Offer \cup {Idle}]
            /\ \A g \in Storefronts : till'[g] # Idle => till'[g].voucher \in DOMAIN vouchers
        BY <1>1, <3>3 DEF GiveUp
      <4>. QED  BY <1>1, <2>1, <3>3, <4>1, ShopQuiet DEF GiveUp
    <3>. QED  BY <2>4, <3>1, <3>2, <3>3 DEF Redeem
  <2>. QED  BY <1>4, <2>2, <2>3, <2>4 DEF PoolStep
<1>5. ASSUME NEW w \in Callers, SweepStep(w), UNCHANGED poolVars PROVE ShopInv'
  <2>1. UNCHANGED now
    BY <1>5 DEF SweepStep, SweepStart, ReadFlow, MakePlan, LookLeg, CommitLeg, SkipLeg, FailLeg,
                Report, SweepDies, Look, Commit, Drop, ledgerVars
  <2>. QED  BY <1>2, <1>5, <2>1
<1>6. CASE Tick /\ UNCHANGED poolVars
  BY <1>2, <1>6 DEF Tick
<1>. QED  BY <1>3, <1>4, <1>5, <1>6 DEF PoolNext

(***************************************************************************)
(* However storefronts race, retry and give up, a flow is the sum of what  *)
(* was credited along it, and one key burns one voucher in its life.       *)
(***************************************************************************)
THEOREM FlowsAreWhatWasBurnt == PoolSpec => []FlowsAreRedemptions
<1>1. PoolInit => ShopInv
  BY ShopInit
<1>2. ShopInv /\ [PoolNext]_settlementVars => ShopInv'
  BY ShopStep
<1>3. ShopInv => FlowsAreRedemptions
  BY FlowsInParts DEF ShopInv
<1>. QED  BY <1>1, <1>2, <1>3, PTL DEF PoolSpec

-----------------------------------------------------------------------------
(***************************************************************************)
(* A worker that pays holds the plan of what it has read; one that does not*)
(* has paid nothing.                                                       *)
(***************************************************************************)
Phases == {"idle", "reading", "paying"}

SweepState == [at : Phases, week : Weeks, todo : SUBSET Edges, seen : [Edges -> Nat],
               plan : Seq(Leg), leg : Nat \ {0}, executed : SUBSET Nat, failed : BOOLEAN]

Fits(s) == IF s.at = "paying" THEN s.plan = Plan(Positions(s.seen))
           ELSE s.plan = <<>> /\ s.leg = 1 /\ s.executed = {} /\ s.failed = FALSE

ClockFits  == now \in 1 .. LastTick
SweepsPlan == /\ ClockFits
              /\ sweep \in [Callers -> SweepState]
              /\ \A w \in Callers : Fits(sweep[w])

LEMMA WeekFits == ASSUME NEW n \in 0 .. LastTick PROVE Week(n) \in Weeks
<1>1. WeekLength \in Nat \ {0} /\ LastTick \in Nat
  BY PoolAssumption
<1>. DEFINE q == n \div WeekLength  r == LastTick \div WeekLength  k == WeekLength
<1>2. q \in Nat /\ r \in Nat /\ k * q <= n /\ LastTick < k * (r + 1)
  BY <1>1
<1>3. k * q < k * (r + 1)
  <2>1. k * q \in Nat /\ k * (r + 1) \in Nat
    BY <1>1, <1>2
  <2>. HIDE DEF q, r, k
  <2>. QED  BY <1>1, <1>2, <2>1
<1>. HIDE DEF q, r
<1>4. q <= r
  <2>. SUFFICES ASSUME q >= r + 1 PROVE FALSE
    BY <1>2
  <2>1. k * q >= k * (r + 1)
    BY <1>1, <1>2
  <2>2. k * q \in Nat /\ k * (r + 1) \in Nat
    BY <1>1, <1>2
  <2>. HIDE DEF k
  <2>. QED  BY <1>3, <2>1, <2>2
<1>. QED  BY <1>2, <1>4 DEF Weeks, Week, q, r

LEMMA RestingFits == Resting \in SweepState /\ Fits(Resting)
<1>1. 0 \in Weeks
  <2>1. LastTick \div WeekLength \in Nat
    BY PoolAssumption
  <2>. QED  BY <2>1 DEF Weeks, Week
<1>2. <<>> \in Seq(Leg) /\ NoFlows \in [Edges -> Nat]
  BY DEF NoFlows
<1>. HIDE DEF Leg, Weeks, NoFlows
<1>. QED  BY <1>1, <1>2 DEF Resting, SweepState, Phases, Fits

\* One worker moves.
LEMMA OneWorkerMoves ==
  ASSUME SweepsPlan, NEW w \in Callers, NEW s \in SweepState, Fits(s),
         sweep' = [sweep EXCEPT ![w] = s], UNCHANGED now
  PROVE  SweepsPlan'
<1>1. sweep' \in [Callers -> SweepState] /\ sweep'[w] = s
      /\ \A v \in Callers : v # w => sweep'[v] = sweep[v]
  BY DEF SweepsPlan
<1>2. \A v \in Callers : Fits(sweep'[v])
  BY <1>1 DEF SweepsPlan
<1>. QED  BY <1>1, <1>2 DEF SweepsPlan, ClockFits, Fits

LEMMA StartPlans ==
  ASSUME SweepsPlan, NEW w \in Callers, SweepStart(w) PROVE SweepsPlan'
<1>. DEFINE todo == {e \in Edges : flow[e] > 0}
            s == [sweep[w] EXCEPT !.at = "reading", !.week = Week(now), !.todo = todo]
<1>1. sweep[w] \in SweepState /\ sweep[w] = Resting /\ Week(now) \in Weeks /\ todo \in SUBSET Edges
  BY WeekFits DEF SweepsPlan, ClockFits, SweepStart
<1>2. sweep' = [sweep EXCEPT ![w] = s] /\ UNCHANGED now
  BY <1>1 DEF SweepStart, ledgerVars, SweepsPlan
<1>. HIDE DEF todo
<1>3. s \in SweepState /\ Fits(s)
  <2>. HIDE DEF Weeks, Edges, Leg, Week
  <2>1. s \in SweepState
    BY <1>1 DEF SweepState, Phases
  <2>. QED  BY <1>1, <2>1 DEF Resting, Fits
<1>. QED  BY <1>2, <1>3, OneWorkerMoves

LEMMA ReadPlans ==
  ASSUME SweepsPlan, flow \in [Edges -> Nat], NEW w \in Callers, NEW e \in Edges, ReadFlow(w, e)
  PROVE  SweepsPlan'
<1>. DEFINE seen == [sweep[w].seen EXCEPT ![e] = flow[e]]
            s == [sweep[w] EXCEPT !.seen = seen]
<1>1. /\ sweep[w] \in SweepState /\ Fits(sweep[w]) /\ sweep[w].at = "reading"
      /\ seen \in [Edges -> Nat]
  BY DEF SweepsPlan, ReadFlow, SweepState
<1>2. sweep' = [sweep EXCEPT ![w] = s] /\ UNCHANGED now
  BY DEF ReadFlow, ledgerVars, SweepsPlan
<1>. HIDE DEF seen
<1>3. s \in SweepState /\ Fits(s)
  <2>. HIDE DEF Weeks, Edges, Leg
  <2>. QED  BY <1>1 DEF SweepState, Fits
<1>. QED  BY <1>2, <1>3, OneWorkerMoves

LEMMA MakePlans ==
  ASSUME SweepsPlan, NEW w \in Callers, MakePlan(w)
  PROVE  SweepsPlan'
<1>. DEFINE seen == sweep[w].seen  legs == Plan(Positions(seen))
            s == [sweep[w] EXCEPT !.at = "paying", !.todo = {}, !.plan = legs]
<1>1. sweep[w] \in SweepState /\ seen \in [Edges -> Nat]
  BY DEF SweepsPlan, SweepState
<1>2. legs \in Seq(Leg)
  BY <1>1, PositionsCancel, PlanLevels
<1>3. sweep' = [sweep EXCEPT ![w] = s] /\ UNCHANGED now
  BY DEF MakePlan, ledgerVars, SweepsPlan
<1>4. s \in SweepState
  <2>. HIDE DEF Weeks, Edges, Leg, legs
  <2>. QED  BY <1>1, <1>2 DEF SweepState, Phases
<1>5. Fits(s)
  <2>1. s.at = "paying" /\ s.plan = legs /\ s.seen = seen
    <3>. HIDE DEF legs
    <3>. QED  BY <1>1 DEF SweepState
  <2>. QED  BY <2>1 DEF Fits
<1>. QED  BY <1>3, <1>4, <1>5, OneWorkerMoves

LEMMA NextPlans ==
  ASSUME SweepsPlan, NEW w \in Callers, NEW executed \in BOOLEAN, NEW failed \in BOOLEAN,
         Paying(w), NextLeg(w, executed, failed), UNCHANGED now
  PROVE  SweepsPlan'
<1>. DEFINE done == IF executed THEN sweep[w].executed \cup {sweep[w].leg} ELSE sweep[w].executed
            s == [sweep[w] EXCEPT !.leg = @ + 1, !.failed = @ \/ failed, !.executed = done]
<1>1. sweep[w] \in SweepState /\ Fits(sweep[w]) /\ sweep[w].at = "paying"
  BY DEF SweepsPlan, Paying
<1>2. done \in SUBSET Nat /\ sweep[w].leg + 1 \in Nat \ {0}
  BY <1>1 DEF SweepState
<1>3. sweep' = [sweep EXCEPT ![w] = s]
  BY DEF NextLeg, SweepsPlan
<1>. HIDE DEF done
<1>4. s \in SweepState
  <2>. HIDE DEF Weeks, Edges, Leg
  <2>. QED  BY <1>1, <1>2 DEF SweepState
<1>5. Fits(s)
  <2>1. s.at = "paying" /\ s.plan = sweep[w].plan /\ s.seen = sweep[w].seen
    BY <1>1 DEF SweepState
  <2>. HIDE DEF s
  <2>. QED  BY <1>1, <2>1 DEF Fits
<1>. QED  BY <1>3, <1>4, <1>5, OneWorkerMoves

LEMMA SweepsStep ==
  ASSUME SweepsPlan, flow \in [Edges -> Nat], [PoolNext]_settlementVars
  PROVE  SweepsPlan'
<1>1. ASSUME UNCHANGED sweep, UNCHANGED now \/ Tick PROVE SweepsPlan'
  <2>1. ClockFits'
    BY <1>1, PoolAssumption DEF SweepsPlan, ClockFits, Tick
  <2>. QED  BY <1>1, <2>1 DEF SweepsPlan
<1>2. CASE UNCHANGED settlementVars
  BY <1>1, <1>2 DEF settlementVars, ledgerVars, settleVars
<1>3. CASE PoolStep
  BY <1>1, <1>3 DEF PoolStep, ledgerVars, settleVars
<1>4. CASE Tick /\ UNCHANGED settleVars
  BY <1>1, <1>4 DEF settleVars
<1>5. ASSUME NEW w \in Callers, SweepStep(w) PROVE SweepsPlan'
  <2>1. CASE SweepStart(w)
    BY <2>1, StartPlans
  <2>2. CASE \E e \in Edges : ReadFlow(w, e)
    BY <2>2, ReadPlans
  <2>3. CASE MakePlan(w)
    BY <2>3, MakePlans
  <2>4. CASE LookLeg(w)
    BY <1>1, <2>4 DEF LookLeg, Look, settleVars
  <2>5. CASE CommitLeg(w)
    <3>1. PICK lost \in BOOLEAN : NextLeg(w, ~lost, lost)
      BY <2>5 DEF CommitLeg
    <3>. QED  BY <2>5, <3>1, NextPlans DEF CommitLeg, Commit
  <2>6. CASE SkipLeg(w)
    BY <2>6, NextPlans DEF SkipLeg, Drop
  <2>7. CASE FailLeg(w)
    BY <2>7, NextPlans DEF FailLeg, Drop
  <2>8. CASE Report(w) \/ SweepDies(w)
    <3>1. sweep' = [sweep EXCEPT ![w] = Resting] /\ UNCHANGED now
      BY <2>8 DEF Report, SweepDies, Drop, ledgerVars
    <3>. QED  BY <3>1, RestingFits, OneWorkerMoves
  <2>. QED  BY <1>5, <2>1, <2>2, <2>3, <2>4, <2>5, <2>6, <2>7, <2>8 DEF SweepStep
<1>. QED  BY <1>2, <1>3, <1>4, <1>5 DEF PoolNext

LEMMA SweepsInit == PoolInit => SweepsPlan
  BY RestingFits, PoolAssumption DEF PoolInit, SweepsPlan, ClockFits

(***************************************************************************)
(* "for N parties produces at most N-1 transfers and zeroes every          *)
(* position", however the flows moved while they were read.                *)
(***************************************************************************)
THEOREM PlansZeroPositions == PoolSpec => []PlanZeroesPositions
<1>1. PoolInit => ShopInv /\ SweepsPlan
  BY ShopInit, SweepsInit
<1>2. ShopInv /\ SweepsPlan /\ [PoolNext]_settlementVars => (ShopInv /\ SweepsPlan)'
  BY ShopStep, SweepsStep DEF ShopInv, ShopTyped
<1>3. SweepsPlan => PlanZeroesPositions
  <2>. SUFFICES ASSUME SweepsPlan, NEW w \in Callers, sweep[w].at = "paying"
                PROVE  LET net == Positions(sweep[w].seen)
                       IN  /\ \A b \in Brands : Balance(sweep[w].plan, b) = net[b]
                           /\ sweep[w].plan # <<>> =>
                                Len(sweep[w].plan) < Cardinality({b \in Brands : net[b] # 0})
    BY DEF PlanZeroesPositions
  <2>1. sweep[w].seen \in [Edges -> Nat] /\ sweep[w].plan = Plan(Positions(sweep[w].seen))
    BY DEF SweepsPlan, SweepState, Fits
  <2>. QED  BY <2>1, PositionsCancel, PlanLevels DEF Undone
<1>. QED  BY <1>1, <1>2, <1>3, PTL DEF PoolSpec

-----------------------------------------------------------------------------
(***************************************************************************)
(* The legs. What a worker has under way is the leg it is at, and what it  *)
(* says it executed is in the ledger; as long as every plan was the first  *)
(* one, so is every entry, and a worker without a failure has left every   *)
(* leg behind it paid.                                                     *)
(***************************************************************************)
CallsFit == \A w \in Callers : call[w] # Idle => Paying(w) /\ call[w] = TransferFor(w)

KeysFit == \A k \in Keys : idem[k] # 0 => ledger[idem[k]].key = k

InLedger(entries, week, leg) ==
    \E i \in DOMAIN entries :
        entries[i].key = <<week, leg.from, leg.to>> /\ EntryLeg(entries[i]) = leg

ExecutedIsPaid ==
    \A w \in Callers : \A i \in sweep[w].executed :
        i \in DOMAIN sweep[w].plan /\ InLedger(ledger, sweep[w].week, sweep[w].plan[i])

BooksFit == /\ snapshot \in [Weeks -> SUBSET Leg]
            /\ CallsFit /\ KeysFit /\ ExecutedIsPaid /\ ReportedIsPaid

\* An entry of the first plan; a leg of it that was paid.
OfFirst(e) == /\ first.at <= e.at
              /\ EntryLeg(e) \in Range(first.legs)
              /\ e.key = LegKey(first.week, EntryLeg(e))

LegPaid(entries, leg) == \E j \in DOMAIN entries : EntryLeg(entries[j]) = leg

FollowsFirst(w) ==
    sweep[w].at = "paying" =>
        /\ sweep[w].plan = first.legs /\ sweep[w].week = first.week
        /\ \/ sweep[w].failed
           \/ \A i \in DOMAIN first.legs : i < sweep[w].leg => LegPaid(ledger, first.legs[i])

PlanState == [seen : [Edges -> Nat], legs : Seq(Leg), week : Weeks, at : Nat]

NothingPlanned == ledger = <<>> /\ \A w \in Callers : sweep[w].at # "paying"
FirstFollowed  == /\ first \in PlanState /\ first.at <= now /\ OneLegAPair(first.legs)
                  /\ \A i \in DOMAIN ledger : OfFirst(ledger[i])
                  /\ \A w \in Callers : FollowsFirst(w)

FirstFits == same => IF first = NoPlan THEN NothingPlanned ELSE FirstFollowed

PoolInv == LedgerInv /\ ShopInv /\ SweepsPlan /\ BooksFit /\ FirstFits

AnyAmount == Amounts = Nat \ {0}

LEMMA TransferTyped ==
  ASSUME AnyAmount, SweepsPlan, NEW w \in Callers, Paying(w)
  PROVE  /\ TransferFor(w) \in Request
         /\ sweep[w].plan[sweep[w].leg] \in Leg
         /\ EntryLeg(EntryOf(TransferFor(w))) = sweep[w].plan[sweep[w].leg]
         /\ EntryOf(TransferFor(w)).key = LegKey(sweep[w].week, sweep[w].plan[sweep[w].leg])
         /\ EntryOf(TransferFor(w)).at = now
<1>. DEFINE leg == sweep[w].plan[sweep[w].leg]  key == LegKey(sweep[w].week, leg)
<1>1. leg \in Leg /\ sweep[w].week \in Weeks
  BY DEF SweepsPlan, SweepState, Paying
<1>2. leg.from \in Brands /\ leg.to \in Brands /\ leg.amount \in Amounts
  BY <1>1 DEF Leg, AnyAmount
<1>3. key \in Keys
  BY <1>1, <1>2, LegKeysAssumption DEF LegKey, LegKeys
<1>4. TransferFor(w) = [from |-> leg.from, to |-> leg.to, amount |-> leg.amount,
                        key |-> key, fx |-> FALSE]
  BY DEF TransferFor
<1>5. leg = [from |-> leg.from, to |-> leg.to, amount |-> leg.amount]
  BY <1>1 DEF Leg
<1>. HIDE DEF leg, key
<1>6. TransferFor(w) \in Request
  BY <1>2, <1>3, <1>4 DEF Request
<1>7. EntryLeg(EntryOf(TransferFor(w))) = leg
  BY <1>4, <1>5 DEF EntryLeg, EntryOf
<1>8. EntryOf(TransferFor(w)).key = key /\ EntryOf(TransferFor(w)).at = now
  BY <1>4 DEF EntryOf
<1>. QED  BY <1>1, <1>6, <1>7, <1>8 DEF leg, key

\* What a committed transfer adds.
LEMMA CommitAppends ==
  ASSUME LedgerInv, LedgerInv', NEW h \in Callers, Commit(h)
  PROVE  LET e == EntryOf(call[h])  n == Len(ledger) + 1
         IN  /\ n \in Nat /\ n # 0 /\ DOMAIN ledger = 1 .. n - 1 /\ DOMAIN ledger' = 1 .. n
             /\ ledger'[n] = e /\ \A i \in DOMAIN ledger : ledger'[i] = ledger[i]
             /\ idem' = [idem EXCEPT ![call[h].key] = n]
             /\ call' = [call EXCEPT ![h] = Idle] /\ UNCHANGED now
<1>. DEFINE e == EntryOf(call[h])  n == Len(ledger) + 1
<1>1. ledger \in Seq(Entry) /\ ledger' \in Seq(Entry) /\ ledger' = Append(ledger, e)
  BY DEF Commit, LedgerInv, LedgerTypeOK
<1>2. /\ idem' = [idem EXCEPT ![call[h].key] = n]
      /\ call' = [call EXCEPT ![h] = Idle] /\ UNCHANGED now
  BY DEF Commit
<1>. HIDE DEF e
<1>3. /\ n \in Nat /\ n # 0 /\ DOMAIN ledger = 1 .. n - 1 /\ DOMAIN ledger' = 1 .. n
      /\ ledger'[n] = e /\ \A i \in DOMAIN ledger : ledger'[i] = ledger[i]
  BY <1>1
<1>. QED  BY <1>2, <1>3 DEF e

\* One step of a worker: the others stay where they are.
LEMMA OthersStay ==
  ASSUME PoolInv, NEW w \in Callers, SweepStep(w)
  PROVE  /\ \A v \in Callers : v # w => sweep'[v] = sweep[v]
         /\ \A v \in Callers : v # w => call'[v] = call[v]
<1>1. sweep \in [Callers -> SweepState] /\ call \in [Callers -> Request \cup {Idle}]
  BY DEF PoolInv, SweepsPlan, LedgerInv, LedgerTypeOK
<1>2. \A v \in Callers : v # w => sweep'[v] = sweep[v]
  BY <1>1 DEF SweepStep, SweepStart, ReadFlow, MakePlan, LookLeg, CommitLeg, SkipLeg, FailLeg,
              NextLeg, Report, SweepDies, settleVars
<1>3. \A v \in Callers : v # w => call'[v] = call[v]
  BY <1>1 DEF SweepStep, SweepStart, ReadFlow, MakePlan, LookLeg, CommitLeg, SkipLeg, FailLeg,
              Report, SweepDies, Look, Commit, Drop, ledgerVars
<1>. QED  BY <1>2, <1>3

\* The ledger's own invariant, whoever makes the transfers.
LEMMA SettlementKeepsLedger ==
  ASSUME AnyAmount, PoolInv, [PoolNext]_settlementVars PROVE LedgerInv'
<1>1. LedgerInv /\ call \in [Callers -> Request \cup {Idle}]
  BY DEF PoolInv, LedgerInv, LedgerTypeOK
<1>2. ASSUME UNCHANGED <<wallet, known, ledger, idem, now>>, NEW w \in Callers,
             UNCHANGED call \/ Drop(w)
      PROVE  LedgerInv'
  BY <1>1, <1>2, QuietStep DEF Drop
<1>3. CASE UNCHANGED ledgerVars
  BY <1>1, <1>3, QuietStep DEF ledgerVars
<1>4. CASE PoolStep
  BY <1>3, <1>4 DEF PoolStep
<1>5. CASE Tick
  BY <1>1, <1>5, TickStep
<1>6. ASSUME NEW w \in Callers, SweepStep(w) PROVE LedgerInv'
  <2>1. CASE SweepStart(w) \/ (\E e \in Edges : ReadFlow(w, e)) \/ MakePlan(w) \/ Report(w)
    BY <1>3, <2>1 DEF SweepStart, ReadFlow, MakePlan, Report
  <2>2. CASE LookLeg(w)
    <3>1. TransferFor(w) \in Request
      BY <2>2, TransferTyped DEF PoolInv, LookLeg
    <3>. QED  BY <1>1, <2>2, <3>1, QuietStep DEF LookLeg, Look
  <2>3. CASE CommitLeg(w)
    BY <1>1, <2>3, CommitStep DEF CommitLeg
  <2>4. CASE SkipLeg(w) \/ FailLeg(w) \/ SweepDies(w)
    BY <1>2, <2>4 DEF SkipLeg, FailLeg, SweepDies, Drop
  <2>. QED  BY <1>6, <2>1, <2>2, <2>3, <2>4 DEF SweepStep
<1>. QED  BY <1>3, <1>4, <1>5, <1>6 DEF PoolNext, settlementVars, ledgerVars

\* What is in the ledger stays there.
LEMMA LedgerStays ==
  ASSUME PoolInv, DOMAIN ledger \subseteq DOMAIN ledger',
         \A i \in DOMAIN ledger : ledger'[i] = ledger[i]
  PROVE  /\ \A week, leg : InLedger(ledger, week, leg) => InLedger(ledger', week, leg)
         /\ \A leg : LegPaid(ledger, leg) => LegPaid(ledger', leg)
  BY DEF InLedger, LegPaid

\* A worker that starts over, or does not pay, has said nothing.
LEMMA NothingSaid ==
  ASSUME SweepsPlan, NEW w \in Callers, sweep[w].at # "paying"
  PROVE  sweep[w].executed = {} /\ ~Paying(w)
  BY DEF SweepsPlan, Fits, Paying

LEMMA BooksOfCommit ==
  ASSUME AnyAmount, PoolInv, LedgerInv', NEW w \in Callers, CommitLeg(w)
  PROVE  BooksFit'
<1>. DEFINE e == EntryOf(call[w])  n == Len(ledger) + 1
            leg == sweep[w].plan[sweep[w].leg]
<1>1. /\ n \in Nat /\ n # 0 /\ DOMAIN ledger = 1 .. n - 1 /\ DOMAIN ledger' = 1 .. n
      /\ ledger'[n] = e /\ \A i \in DOMAIN ledger : ledger'[i] = ledger[i]
      /\ idem' = [idem EXCEPT ![call[w].key] = n]
      /\ call' = [call EXCEPT ![w] = Idle]
  BY CommitAppends DEF PoolInv, CommitLeg
<1>2. /\ call[w] = TransferFor(w) /\ Paying(w) /\ call[w] \in Request
      /\ EntryLeg(e) = leg /\ e.key = LegKey(sweep[w].week, leg)
  BY TransferTyped DEF PoolInv, CommitLeg, Commit, BooksFit, CallsFit
<1>3. e.key = call[w].key /\ call[w].key \in Keys
  BY <1>2 DEF EntryOf, Request
<1>4. /\ sweep \in [Callers -> SweepState] /\ call \in [Callers -> Request \cup {Idle}]
      /\ idem \in [Keys -> Nat] /\ \A k \in Keys : idem[k] \in 0 .. Len(ledger)
  BY DEF PoolInv, SweepsPlan, LedgerInv, LedgerTypeOK, KeysPointToLatest
<1>5. SweepStep(w)
  BY DEF SweepStep
<1>6. PICK lost \in BOOLEAN : NextLeg(w, ~lost, lost)
  BY DEF CommitLeg
<1>. HIDE DEF e, leg
<1>7. snapshot' \in [Weeks -> SUBSET Leg]
  BY <1>6 DEF NextLeg, PoolInv, BooksFit
<1>8. CallsFit'
  <2>. SUFFICES ASSUME NEW v \in Callers, call'[v] # Idle
                PROVE  Paying(v)' /\ call'[v] = TransferFor(v)'
    BY DEF CallsFit
  <2>1. v # w
    BY <1>1, <1>4
  <2>2. call'[v] = call[v] /\ sweep'[v] = sweep[v]
    BY <1>5, <2>1, OthersStay
  <2>. QED  BY <2>2 DEF PoolInv, BooksFit, CallsFit, Paying, TransferFor
<1>9. KeysFit'
  <2>. SUFFICES ASSUME NEW k \in Keys, idem'[k] # 0 PROVE ledger'[idem'[k]].key = k
    BY DEF KeysFit
  <2>1. CASE k = call[w].key
    BY <1>1, <1>3, <1>4, <2>1
  <2>2. CASE k # call[w].key
    <3>1. idem'[k] = idem[k] /\ idem[k] \in DOMAIN ledger
      BY <1>1, <1>4, <2>2
    <3>2. ledger[idem[k]].key = k
      BY <3>1 DEF PoolInv, BooksFit, KeysFit
    <3>. QED  BY <1>1, <3>1, <3>2
  <2>. QED  BY <2>1, <2>2
<1>10. DOMAIN ledger \subseteq DOMAIN ledger'
  BY <1>1
<1>11. \A week, l : InLedger(ledger, week, l) => InLedger(ledger', week, l)
  BY <1>1, <1>10, LedgerStays
<1>12. InLedger(ledger', sweep'[w].week, leg)
  <2>1. n \in DOMAIN ledger' /\ ledger'[n] = e
    BY <1>1
  <2>2. e.key = <<sweep[w].week, leg.from, leg.to>> /\ EntryLeg(e) = leg
    BY <1>2 DEF LegKey
  <2>3. sweep'[w].week = sweep[w].week
    BY <1>4, <1>6 DEF NextLeg, SweepState
  <2>. QED  BY <2>1, <2>2, <2>3 DEF InLedger
<1>13. ExecutedIsPaid'
  <2>. SUFFICES ASSUME NEW v \in Callers, NEW i \in sweep'[v].executed
                PROVE  /\ i \in DOMAIN sweep'[v].plan
                       /\ InLedger(ledger', sweep'[v].week, sweep'[v].plan[i])
    BY DEF ExecutedIsPaid
  <2>1. CASE v # w
    <3>1. sweep'[v] = sweep[v]
      BY <1>5, <2>1, OthersStay
    <3>2. i \in DOMAIN sweep[v].plan /\ InLedger(ledger, sweep[v].week, sweep[v].plan[i])
      BY <3>1 DEF PoolInv, BooksFit, ExecutedIsPaid
    <3>. QED  BY <1>11, <3>1, <3>2
  <2>2. CASE v = w
    <3>1. /\ sweep'[w].plan = sweep[w].plan /\ sweep'[w].week = sweep[w].week
          /\ sweep'[w].executed \subseteq sweep[w].executed \cup {sweep[w].leg}
      BY <1>4, <1>6 DEF NextLeg, SweepState
    <3>2. CASE i = sweep[w].leg
      BY <1>2, <1>12, <2>2, <3>1, <3>2 DEF Paying, leg
    <3>3. CASE i \in sweep[w].executed
      <4>1. i \in DOMAIN sweep[w].plan /\ InLedger(ledger, sweep[w].week, sweep[w].plan[i])
        BY <3>3 DEF PoolInv, BooksFit, ExecutedIsPaid
      <4>. QED  BY <1>11, <2>2, <3>1, <4>1
    <3>. QED  BY <2>2, <3>1, <3>2, <3>3
  <2>. QED  BY <2>1, <2>2
<1>14. ReportedIsPaid'
  <2>1. snapshot' = snapshot
    BY <1>6 DEF NextLeg
  <2>2. \A k \in Weeks : \A l \in snapshot[k] : InLedger(ledger, k, l)
    BY DEF PoolInv, BooksFit, ReportedIsPaid, InLedger
  <2>3. \A k \in Weeks : \A l \in snapshot'[k] : InLedger(ledger', k, l)
    BY <1>11, <2>1, <2>2
  <2>. QED  BY <2>3 DEF ReportedIsPaid, InLedger
<1>. QED  BY <1>7, <1>8, <1>9, <1>13, <1>14 DEF BooksFit

\* A step of a worker that pays nothing.
LEMMA BooksOfWorker ==
  ASSUME PoolInv, NEW w \in Callers, SweepStep(w), UNCHANGED <<ledger, idem>>,
         call'[w] # Idle => Paying(w)' /\ call'[w] = TransferFor(w)',
         \A i \in sweep'[w].executed :
             i \in DOMAIN sweep'[w].plan /\ InLedger(ledger, sweep'[w].week, sweep'[w].plan[i]),
         snapshot' \in [Weeks -> SUBSET Leg],
         \A k \in Weeks : \A l \in snapshot'[k] : InLedger(ledger, k, l)
  PROVE  BooksFit'
<1>1. CallsFit'
  <2>. SUFFICES ASSUME NEW v \in Callers, call'[v] # Idle
                PROVE  Paying(v)' /\ call'[v] = TransferFor(v)'
    BY DEF CallsFit
  <2>1. CASE v # w
    <3>1. call'[v] = call[v] /\ sweep'[v] = sweep[v]
      BY <2>1, OthersStay
    <3>. QED  BY <3>1 DEF PoolInv, BooksFit, CallsFit, Paying, TransferFor
  <2>. QED  BY <2>1
<1>2. KeysFit'
  BY DEF PoolInv, BooksFit, KeysFit
<1>3. ExecutedIsPaid'
  <2>. SUFFICES ASSUME NEW v \in Callers, NEW i \in sweep'[v].executed
                PROVE  /\ i \in DOMAIN sweep'[v].plan
                       /\ InLedger(ledger', sweep'[v].week, sweep'[v].plan[i])
    BY DEF ExecutedIsPaid
  <2>1. CASE v # w
    <3>1. sweep'[v] = sweep[v]
      BY <2>1, OthersStay
    <3>. QED  BY <3>1 DEF PoolInv, BooksFit, ExecutedIsPaid
  <2>. QED  BY <2>1
<1>4. ReportedIsPaid'
  BY DEF ReportedIsPaid, InLedger
<1>. QED  BY <1>1, <1>2, <1>3, <1>4 DEF BooksFit

LEMMA BooksKeep ==
  ASSUME AnyAmount, PoolInv, LedgerInv', SweepsPlan', [PoolNext]_settlementVars PROVE BooksFit'
<1>1. /\ sweep \in [Callers -> SweepState] /\ call \in [Callers -> Request \cup {Idle}]
      /\ snapshot \in [Weeks -> SUBSET Leg]
      /\ \A k \in Weeks : \A l \in snapshot[k] : InLedger(ledger, k, l)
  BY DEF PoolInv, SweepsPlan, LedgerInv, LedgerTypeOK, BooksFit, ReportedIsPaid, InLedger
<1>2. ASSUME UNCHANGED <<ledger, idem, call>>, UNCHANGED settleVars PROVE BooksFit'
  BY <1>2 DEF PoolInv, settleVars, BooksFit, CallsFit, KeysFit, ExecutedIsPaid, ReportedIsPaid,
              InLedger, Paying, TransferFor
<1>3. CASE UNCHANGED settlementVars
  BY <1>2, <1>3 DEF settlementVars, ledgerVars
<1>4. CASE PoolStep
  BY <1>2, <1>4 DEF PoolStep, ledgerVars
<1>5. CASE Tick /\ UNCHANGED settleVars
  BY <1>2, <1>5 DEF Tick
<1>6. ASSUME NEW w \in Callers, SweepStep(w) PROVE BooksFit'
  <2>1. /\ \A i \in sweep[w].executed :
              i \in DOMAIN sweep[w].plan /\ InLedger(ledger, sweep[w].week, sweep[w].plan[i])
        /\ call[w] # Idle => Paying(w) /\ call[w] = TransferFor(w)
    BY DEF PoolInv, BooksFit, ExecutedIsPaid, CallsFit
  <2>2. CASE SweepStart(w) \/ \E e \in Edges : ReadFlow(w, e)
    <3>1. /\ sweep[w].at # "paying" /\ sweep'[w].at # "paying"
          /\ UNCHANGED <<ledger, idem, call, snapshot>>
      BY <1>1, <2>2 DEF SweepStart, ReadFlow, ledgerVars, Resting, SweepState
    <3>2. call'[w] = Idle
      BY <2>1, <3>1 DEF Paying
    <3>3. sweep'[w].executed = {}
      BY <3>1 DEF SweepsPlan, Fits
    <3>. QED  BY <1>1, <1>6, <3>1, <3>2, <3>3, BooksOfWorker
  <2>3. CASE MakePlan(w)
    <3>1. /\ sweep[w].at # "paying" /\ sweep'[w].executed = sweep[w].executed
          /\ UNCHANGED <<ledger, idem, call>>
          /\ snapshot' = [snapshot EXCEPT ![sweep[w].week] = {}]
      BY <1>1, <2>3 DEF MakePlan, ledgerVars, SweepState
    <3>2. call'[w] = Idle
      BY <2>1, <3>1 DEF Paying
    <3>3. sweep'[w].executed = {}
      BY <3>1 DEF PoolInv, SweepsPlan, Fits
    <3>4. /\ snapshot' \in [Weeks -> SUBSET Leg]
          /\ \A k \in Weeks : snapshot'[k] \subseteq snapshot[k]
      BY <1>1, <3>1
    <3>. QED  BY <1>1, <1>6, <3>1, <3>2, <3>3, <3>4, BooksOfWorker
  <2>4. CASE LookLeg(w)
    <3>1. /\ Paying(w) /\ call'[w] = TransferFor(w) /\ UNCHANGED <<ledger, idem, sweep, snapshot>>
      BY <1>1, <2>4 DEF LookLeg, Look, settleVars
    <3>2. Paying(w)' /\ call'[w] = TransferFor(w)'
      BY <3>1 DEF Paying, TransferFor
    <3>. QED  BY <1>1, <1>6, <2>1, <3>1, <3>2, BooksOfWorker
  <2>5. CASE CommitLeg(w)
    BY <2>5, BooksOfCommit
  <2>6. CASE SkipLeg(w) \/ FailLeg(w)
    <3>1. /\ call'[w] = Idle /\ UNCHANGED <<ledger, idem, snapshot>>
          /\ \E failed \in BOOLEAN : NextLeg(w, FALSE, failed)
      BY <1>1, <2>6 DEF SkipLeg, FailLeg, Drop, NextLeg
    <3>2. /\ sweep'[w].plan = sweep[w].plan /\ sweep'[w].week = sweep[w].week
          /\ sweep'[w].executed = sweep[w].executed
      BY <1>1, <3>1 DEF NextLeg, SweepState
    <3>. QED  BY <1>1, <1>6, <2>1, <3>1, <3>2, BooksOfWorker
  <2>7. CASE Report(w)
    <3>1. /\ ~Paying(w) /\ sweep'[w].executed = {} /\ UNCHANGED <<ledger, idem, call>>
          /\ snapshot' = [snapshot EXCEPT ![sweep[w].week] =
                              {sweep[w].plan[i] : i \in sweep[w].executed}]
      BY <1>1, <2>7 DEF Report, ledgerVars, Resting
    <3>2. call'[w] = Idle
      BY <2>1, <3>1
    <3>3. /\ {sweep[w].plan[i] : i \in sweep[w].executed} \in SUBSET Leg
          /\ \A l \in {sweep[w].plan[i] : i \in sweep[w].executed} :
                InLedger(ledger, sweep[w].week, l)
      BY <1>1, <2>1 DEF SweepState
    <3>4. /\ snapshot' \in [Weeks -> SUBSET Leg]
          /\ \A k \in Weeks : \A l \in snapshot'[k] : InLedger(ledger, k, l)
      BY <1>1, <3>1, <3>3
    <3>. QED  BY <1>1, <1>6, <3>1, <3>2, <3>4, BooksOfWorker
  <2>8. CASE SweepDies(w)
    <3>1. /\ call'[w] = Idle /\ sweep'[w].executed = {} /\ UNCHANGED <<ledger, idem, snapshot>>
      BY <1>1, <2>8 DEF SweepDies, Drop, Resting
    <3>. QED  BY <1>1, <1>6, <3>1, BooksOfWorker
  <2>. QED  BY <1>6, <2>2, <2>3, <2>4, <2>5, <2>6, <2>7, <2>8 DEF SweepStep
<1>. QED  BY <1>3, <1>4, <1>5, <1>6 DEF PoolNext

\* A step of a worker that neither pays nor plans.
LEMMA FirstOfWorker ==
  ASSUME PoolInv, NEW w \in Callers, SweepStep(w), UNCHANGED <<ledger, first, same, now>>,
         same /\ first = NoPlan => sweep'[w].at # "paying",
         same /\ first # NoPlan => FollowsFirst(w)'
  PROVE  FirstFits'
<1>. SUFFICES ASSUME same PROVE IF first = NoPlan THEN NothingPlanned' ELSE FirstFollowed'
  BY DEF FirstFits
<1>1. \A v \in Callers : v # w => sweep'[v] = sweep[v]
  BY OthersStay
<1>2. CASE first = NoPlan
  BY <1>1, <1>2 DEF PoolInv, FirstFits, NothingPlanned
<1>3. CASE first # NoPlan
  <2>1. FirstFollowed
    BY <1>3 DEF PoolInv, FirstFits
  <2>2. \A v \in Callers : FollowsFirst(v)'
    BY <1>1, <1>3, <2>1 DEF FirstFollowed, FollowsFirst, LegPaid
  <2>. QED  BY <1>3, <2>1, <2>2 DEF FirstFollowed, OfFirst
<1>. QED  BY <1>2, <1>3

\* A new plan is the first, or the first once more.
LEMMA FirstOfPlan ==
  ASSUME PoolInv, SweepsPlan', NEW w \in Callers, MakePlan(w) PROVE FirstFits'
<1>. DEFINE seen == sweep[w].seen  legs == Plan(Positions(seen))
            plan == [seen |-> seen, legs |-> legs, week |-> sweep[w].week, at |-> now]
<1>. SUFFICES ASSUME same' PROVE IF first' = NoPlan THEN NothingPlanned' ELSE FirstFollowed'
  BY DEF FirstFits
<1>1. /\ same /\ (first = NoPlan \/ [first EXCEPT !.at = now] = plan)
      /\ first' = IF first = NoPlan THEN plan ELSE first
      /\ sweep' = [sweep EXCEPT ![w].at = "paying", ![w].todo = {}, ![w].plan = legs]
      /\ sweep[w].at = "reading" /\ UNCHANGED ledgerVars
  BY DEF MakePlan
<1>2. /\ sweep[w] \in SweepState /\ sweep[w].leg = 1
      /\ sweep \in [Callers -> SweepState] /\ now \in Nat \ {0}
  BY <1>1 DEF PoolInv, SweepsPlan, Fits, ClockFits
<1>3. seen \in [Edges -> Nat] /\ sweep[w].week \in Weeks
  BY <1>2 DEF SweepState
<1>4. legs \in Seq(Leg) /\ OneLegAPair(legs)
  BY <1>3, PositionsCancel, PlanLevels
<1>5. plan \in PlanState /\ plan.at = now /\ plan.legs = legs /\ plan.week = sweep[w].week
  BY <1>2, <1>3, <1>4 DEF PlanState
<1>6. /\ sweep'[w].plan = legs /\ sweep'[w].week = sweep[w].week /\ sweep'[w].leg = 1
      /\ \A v \in Callers : v # w => sweep'[v] = sweep[v]
  BY <1>1, <1>2 DEF SweepState
<1>7. ledger' = ledger /\ now' = now
  BY <1>1 DEF ledgerVars
<1>8. /\ first' \in PlanState /\ first'.legs = legs /\ first'.week = sweep[w].week
      /\ first'.at <= now /\ first' # NoPlan
  <2>1. CASE first = NoPlan
    <3>1. first' = plan
      BY <1>1, <2>1
    <3>2. plan # NoPlan
      BY <1>2, <1>5 DEF NoPlan
    <3>. HIDE DEF plan, legs
    <3>. QED  BY <1>2, <1>5, <3>1, <3>2
  <2>2. CASE first # NoPlan
    <3>1. first' = first /\ [first EXCEPT !.at = now] = plan
      BY <1>1, <2>2
    <3>2. first \in PlanState /\ first.at <= now
      BY <1>1, <2>2 DEF PoolInv, FirstFits, FirstFollowed
    <3>3. first.legs = plan.legs /\ first.week = plan.week
      <4>. HIDE DEF plan
      <4>1. /\ [first EXCEPT !.at = now].legs = first.legs
            /\ [first EXCEPT !.at = now].week = first.week
        BY <3>2 DEF PlanState
      <4>. QED  BY <3>1, <4>1
    <3>. HIDE DEF plan, legs
    <3>. QED  BY <1>5, <2>2, <3>1, <3>2, <3>3
  <2>. QED  BY <2>1, <2>2
<1>. HIDE DEF plan, legs
<1>9. \A i \in DOMAIN ledger' : OfFirst(ledger[i])'
  <2>1. CASE first = NoPlan
    <3>1. ledger' = <<>>
      BY <1>1, <1>7, <2>1 DEF PoolInv, FirstFits, NothingPlanned
    <3>. QED  BY <3>1
  <2>2. CASE first # NoPlan
    <3>1. first' = first /\ \A i \in DOMAIN ledger : OfFirst(ledger[i])
      BY <1>1, <2>2 DEF PoolInv, FirstFits, FirstFollowed
    <3>. QED  BY <1>7, <3>1 DEF OfFirst
  <2>. QED  BY <2>1, <2>2
<1>10. \A v \in Callers : FollowsFirst(v)'
  <2>. SUFFICES ASSUME NEW v \in Callers PROVE FollowsFirst(v)'
    OBVIOUS
  <2>1. CASE v = w
    <3>1. \A i \in DOMAIN first'.legs : ~(i < 1)
      BY <1>4, <1>8
    <3>. QED  BY <1>6, <1>8, <2>1, <3>1 DEF FollowsFirst
  <2>2. CASE v # w
    <3>1. CASE first = NoPlan
      BY <1>1, <1>6, <2>2, <3>1 DEF PoolInv, FirstFits, NothingPlanned, FollowsFirst
    <3>2. CASE first # NoPlan
      <4>1. first' = first /\ FollowsFirst(v)
        BY <1>1, <3>2 DEF PoolInv, FirstFits, FirstFollowed
      <4>. QED  BY <1>6, <1>7, <2>2, <4>1 DEF FollowsFirst
    <3>. QED  BY <3>1, <3>2
  <2>. QED  BY <2>1, <2>2
<1>11. OneLegAPair(first'.legs)
  BY <1>4, <1>8
<1>. QED  BY <1>7, <1>8, <1>9, <1>10, <1>11 DEF FirstFollowed

\* A worker with a leg to pay, while every plan was the first.
LEMMA PayingFirst ==
  ASSUME PoolInv, same, NEW w \in Callers, Paying(w)
  PROVE  /\ first # NoPlan /\ FirstFollowed
         /\ sweep[w].plan = first.legs /\ sweep[w].week = first.week
         /\ sweep[w].leg \in DOMAIN first.legs /\ sweep[w].leg \in Nat
         /\ first.legs \in Seq(Leg) /\ OneLegAPair(first.legs)
<1>1. first # NoPlan /\ FirstFollowed
  BY DEF PoolInv, FirstFits, NothingPlanned, Paying
<1>2. sweep[w].plan = first.legs /\ sweep[w].week = first.week
  BY <1>1 DEF FirstFollowed, FollowsFirst, Paying
<1>3. sweep[w].leg \in Nat
  BY DEF PoolInv, SweepsPlan, SweepState
<1>. QED  BY <1>1, <1>2, <1>3 DEF Paying, FirstFollowed, PlanState

\* A key that is alive is that of the leg itself.
LEMMA LiveIsPaid ==
  ASSUME AnyAmount, PoolInv, same, NEW w \in Callers, Paying(w), Live(TransferFor(w).key)
  PROVE  LegPaid(ledger, sweep[w].plan[sweep[w].leg])
<1>. DEFINE leg == sweep[w].plan[sweep[w].leg]  i == idem[TransferFor(w).key]
            key == LegKey(sweep[w].week, leg)
<1>1. TransferFor(w).key = key /\ key \in Keys
  BY TransferTyped DEF PoolInv, TransferFor, Request
<1>2. i \in DOMAIN ledger /\ ledger[i].key = key
  <2>1. i # 0 /\ i \in 0 .. Len(ledger) /\ ledger \in Seq(Entry)
    BY <1>1 DEF Live, PoolInv, LedgerInv, LedgerTypeOK, KeysPointToLatest
  <2>2. ledger[i].key = key
    BY <1>1, <2>1 DEF PoolInv, BooksFit, KeysFit
  <2>. QED  BY <2>1, <2>2
<1>3. OfFirst(ledger[i])
  BY <1>2, PayingFirst DEF FirstFollowed
<1>. HIDE DEF i
<1>4. PICK j \in DOMAIN first.legs : EntryLeg(ledger[i]) = first.legs[j]
  BY <1>3 DEF OfFirst, Range
<1>5. key = <<first.week, first.legs[j].from, first.legs[j].to>>
  BY <1>2, <1>3, <1>4 DEF OfFirst, LegKey
<1>6. key = <<first.week, leg.from, leg.to>>
  BY PayingFirst DEF LegKey
<1>7. leg.from = first.legs[j].from /\ leg.to = first.legs[j].to
  <2>. HIDE DEF key, leg
  <2>. QED  BY <1>5, <1>6
<1>8. j = sweep[w].leg
  BY <1>7, PayingFirst DEF OneLegAPair
<1>. QED  BY <1>2, <1>4, <1>8, PayingFirst DEF LegPaid

\* A leg that failed, was found paid, or was paid just now.
LEMMA FirstOfLeg ==
  ASSUME PoolInv, SweepsPlan', NEW w \in Callers, SweepStep(w), Paying(w),
         NEW executed \in BOOLEAN, NEW failed \in BOOLEAN, NextLeg(w, executed, failed),
         UNCHANGED now, DOMAIN ledger \subseteq DOMAIN ledger',
         \A i \in DOMAIN ledger : ledger'[i] = ledger[i],
         same => /\ \A i \in DOMAIN ledger' : i \notin DOMAIN ledger => OfFirst(ledger'[i])
                 /\ failed \/ LegPaid(ledger', sweep[w].plan[sweep[w].leg])
  PROVE  FirstFits'
<1>. SUFFICES ASSUME same PROVE first # NoPlan /\ FirstFollowed'
  BY DEF FirstFits, NextLeg
<1>1. /\ first # NoPlan /\ FirstFollowed
      /\ sweep[w].plan = first.legs /\ sweep[w].week = first.week
      /\ sweep[w].leg \in DOMAIN first.legs /\ sweep[w].leg \in Nat
      /\ first.legs \in Seq(Leg)
  BY PayingFirst
<1>2. /\ sweep \in [Callers -> SweepState] /\ UNCHANGED <<first, same>>
      /\ sweep' = [sweep EXCEPT ![w].leg = @ + 1, ![w].failed = @ \/ failed,
                                ![w].executed = IF executed THEN @ \cup {sweep[w].leg} ELSE @]
  BY DEF NextLeg, PoolInv, SweepsPlan
<1>3. /\ sweep'[w].plan = sweep[w].plan /\ sweep'[w].week = sweep[w].week
      /\ sweep'[w].leg = sweep[w].leg + 1
      /\ sweep'[w].failed = (sweep[w].failed \/ failed)
      /\ sweep[w].failed \in BOOLEAN
  BY <1>2 DEF SweepState
<1>4. \A v \in Callers : v # w => sweep'[v] = sweep[v]
  BY OthersStay
<1>5. \A leg : LegPaid(ledger, leg) => LegPaid(ledger', leg)
  BY LedgerStays
<1>6. \A i \in DOMAIN ledger' : OfFirst(ledger[i])'
  <2>. SUFFICES ASSUME NEW i \in DOMAIN ledger' PROVE OfFirst(ledger'[i])
    BY <1>2 DEF OfFirst
  <2>1. CASE i \in DOMAIN ledger
    BY <1>1, <2>1 DEF FirstFollowed
  <2>. QED  BY <2>1
<1>7. ASSUME NEW v \in Callers PROVE FollowsFirst(v)'
  <2>1. CASE v # w
    <3>1. sweep'[v] = sweep[v] /\ first' = first /\ FollowsFirst(v)
      BY <1>1, <1>2, <1>4, <2>1 DEF FirstFollowed
    <3>. QED  BY <1>5, <3>1 DEF FollowsFirst
  <2>2. CASE v = w
    <3>1. CASE sweep[w].failed \/ failed
      BY <1>1, <1>2, <1>3, <2>2, <3>1 DEF FollowsFirst
    <3>2. CASE ~(sweep[w].failed \/ failed)
      <4>1. \A i \in DOMAIN first.legs : i < sweep[w].leg => LegPaid(ledger, first.legs[i])
        BY <1>1, <3>2 DEF FirstFollowed, FollowsFirst, Paying
      <4>2. ASSUME NEW i \in DOMAIN first.legs, i < sweep[w].leg + 1
            PROVE  LegPaid(ledger', first.legs[i])
        <5>1. i < sweep[w].leg \/ i = sweep[w].leg
          BY <1>1, <4>2
        <5>. QED  BY <1>1, <1>5, <3>2, <4>1, <5>1
      <4>. QED  BY <1>1, <1>2, <1>3, <2>2, <4>2 DEF FollowsFirst
    <3>. QED  BY <3>1, <3>2
  <2>. QED  BY <2>1, <2>2
<1>8. first' \in PlanState /\ first'.at <= now' /\ OneLegAPair(first'.legs)
  BY <1>1, <1>2 DEF FirstFollowed
<1>. QED  BY <1>1, <1>6, <1>7, <1>8 DEF FirstFollowed

LEMMA FirstKeeps ==
  ASSUME AnyAmount, PoolInv, LedgerInv', SweepsPlan', [PoolNext]_settlementVars PROVE FirstFits'
<1>1. sweep \in [Callers -> SweepState] /\ now \in Nat
  BY DEF PoolInv, SweepsPlan, ClockFits
<1>2. ASSUME UNCHANGED ledger, UNCHANGED settleVars, now' = now \/ now' = now + 1 PROVE FirstFits'
  <2>1. first \in PlanState /\ first.at <= now => first.at <= now'
    BY <1>1, <1>2 DEF PlanState
  <2>. QED  BY <1>2, <2>1 DEF settleVars, PoolInv, FirstFits, NothingPlanned, FirstFollowed,
                              OfFirst, FollowsFirst, LegPaid
<1>3. CASE UNCHANGED settlementVars
  BY <1>2, <1>3 DEF settlementVars, ledgerVars
<1>4. CASE PoolStep
  BY <1>2, <1>4 DEF PoolStep, ledgerVars
<1>5. CASE Tick /\ UNCHANGED settleVars
  BY <1>2, <1>5 DEF Tick
<1>6. ASSUME NEW w \in Callers, SweepStep(w) PROVE FirstFits'
  <2>1. CASE SweepStart(w) \/ (\E e \in Edges : ReadFlow(w, e)) \/ Report(w) \/ SweepDies(w)
    <3>1. sweep'[w].at # "paying" /\ UNCHANGED <<ledger, first, same, now>>
      BY <1>1, <2>1 DEF SweepStart, ReadFlow, Report, SweepDies, Drop, ledgerVars, Resting,
                           SweepState
    <3>. QED  BY <1>6, <3>1, FirstOfWorker DEF FollowsFirst
  <2>2. CASE MakePlan(w)
    BY <2>2, FirstOfPlan
  <2>3. CASE LookLeg(w)
    <3>1. Paying(w) /\ UNCHANGED <<ledger, sweep, first, same, now>>
      BY <2>3 DEF LookLeg, Look, settleVars
    <3>2. same => FollowsFirst(w) /\ first # NoPlan
      BY <3>1, PayingFirst DEF FirstFollowed
    <3>. QED  BY <1>6, <3>1, <3>2, FirstOfWorker DEF FollowsFirst, LegPaid
  <2>4. CASE CommitLeg(w)
    <3>. DEFINE e == EntryOf(call[w])  n == Len(ledger) + 1
                leg == sweep[w].plan[sweep[w].leg]
    <3>1. /\ n # 0 /\ DOMAIN ledger = 1 .. n - 1 /\ DOMAIN ledger' = 1 .. n /\ n \in Nat
          /\ ledger'[n] = e /\ \A i \in DOMAIN ledger : ledger'[i] = ledger[i]
          /\ UNCHANGED now
      BY <2>4, CommitAppends DEF PoolInv, CommitLeg
    <3>2. /\ Paying(w) /\ EntryLeg(e) = leg /\ e.key = LegKey(sweep[w].week, leg) /\ e.at = now
      BY <2>4, TransferTyped DEF PoolInv, CommitLeg, Commit, BooksFit, CallsFit
    <3>. HIDE DEF e, leg
    <3>3. ASSUME same PROVE OfFirst(e)
      <4>1. /\ leg = first.legs[sweep[w].leg] /\ sweep[w].leg \in DOMAIN first.legs
            /\ sweep[w].week = first.week /\ first.at <= now
        BY <3>2, <3>3, PayingFirst DEF leg, FirstFollowed
      <4>. QED  BY <3>2, <4>1 DEF OfFirst, Range
    <3>4. /\ DOMAIN ledger \subseteq DOMAIN ledger'
          /\ \A i \in DOMAIN ledger' : i \notin DOMAIN ledger => i = n
      BY <3>1
    <3>5. LegPaid(ledger', leg)
      BY <3>1, <3>2 DEF LegPaid
    <3>6. PICK lost \in BOOLEAN : NextLeg(w, ~lost, lost)
      BY <2>4 DEF CommitLeg
    <3>7. same => /\ \A i \in DOMAIN ledger' : i \notin DOMAIN ledger => OfFirst(ledger'[i])
                  /\ lost \/ LegPaid(ledger', leg)
      BY <3>1, <3>3, <3>4, <3>5
    <3>. QED  BY <1>6, <3>1, <3>2, <3>4, <3>6, <3>7, FirstOfLeg DEF leg
  <2>5. CASE SkipLeg(w)
    <3>1. /\ Paying(w) /\ UNCHANGED <<ledger, now>> /\ NextLeg(w, FALSE, FALSE)
          /\ same => LegPaid(ledger', sweep[w].plan[sweep[w].leg])
      BY <2>5, LiveIsPaid DEF SkipLeg, Drop
    <3>. QED  BY <1>6, <3>1, FirstOfLeg
  <2>6. CASE FailLeg(w)
    <3>1. Paying(w) /\ UNCHANGED <<ledger, now>> /\ NextLeg(w, FALSE, TRUE)
      BY <2>6 DEF FailLeg, Drop
    <3>. QED  BY <1>6, <3>1, FirstOfLeg
  <2>. QED  BY <1>6, <2>1, <2>2, <2>3, <2>4, <2>5, <2>6 DEF SweepStep
<1>. QED  BY <1>3, <1>4, <1>5, <1>6 DEF PoolNext

LEMMA PoolStarts == PoolInit => PoolInv
<1>. SUFFICES ASSUME PoolInit PROVE PoolInv
  OBVIOUS
<1>1. LedgerInv
  BY PoolAssumption DEF PoolInit, LedgerInv, LedgerTypeOK, KeysPointToLatest, OneEntryPerWindow,
                        NoOverdraft
<1>2. BooksFit
  BY DEF PoolInit, BooksFit, CallsFit, KeysFit, ExecutedIsPaid, ReportedIsPaid, Resting
<1>3. FirstFits
  BY DEF PoolInit, FirstFits, NothingPlanned, Resting
<1>. QED  BY <1>1, <1>2, <1>3, ShopInit, SweepsInit DEF PoolInv

LEMMA PoolKeeps == ASSUME AnyAmount PROVE PoolInv /\ [PoolNext]_settlementVars => PoolInv'
<1>. SUFFICES ASSUME PoolInv, [PoolNext]_settlementVars PROVE PoolInv'
  OBVIOUS
<1>1. LedgerInv' /\ ShopInv' /\ SweepsPlan'
  BY SettlementKeepsLedger, ShopStep, SweepsStep DEF PoolInv, ShopInv, ShopTyped
<1>2. BooksFit' /\ FirstFits'
  BY <1>1, BooksKeep, FirstKeeps
<1>. QED  BY <1>1, <1>2 DEF PoolInv

\* The invariant says what the sweeps achieve.
LEMMA FirstPaysOnce ==
  ASSUME PoolInv, same, first # NoPlan, now < first.at + KeyTtl
  PROVE  LET paid == [i \in DOMAIN ledger |-> EntryLeg(ledger[i])]
         IN  /\ Range(paid) \subseteq Range(first.legs)
             /\ IsInjective(paid)
             /\ \A w \in Callers : sweep[w].at = "paying" /\ ~Paying(w) /\ ~sweep[w].failed =>
                                       Range(paid) = Range(first.legs)
<1>. DEFINE paid == [i \in DOMAIN ledger |-> EntryLeg(ledger[i])]
<1>1. FirstFollowed /\ first \in PlanState
  BY DEF PoolInv, FirstFits, FirstFollowed
<1>2. \A i \in DOMAIN ledger : OfFirst(ledger[i]) /\ paid[i] = EntryLeg(ledger[i])
  BY <1>1 DEF FirstFollowed
<1>3. Range(paid) \subseteq Range(first.legs)
  BY <1>2 DEF OfFirst, Range
<1>4. ledger \in Seq(Entry) /\ now \in Nat
  BY DEF PoolInv, LedgerInv, LedgerTypeOK
<1>5. ASSUME NEW i \in DOMAIN ledger, NEW j \in DOMAIN ledger, i < j PROVE paid[i] # paid[j]
  <2>. SUFFICES ASSUME paid[i] = paid[j] PROVE FALSE
    OBVIOUS
  <2>1. ledger[i].key = ledger[j].key
    BY <1>2 DEF OfFirst
  <2>2. ledger[i].at + KeyTtl <= ledger[j].at
    BY <1>5, <2>1 DEF PoolInv, LedgerInv, OneEntryPerWindow
  <2>3. first.at <= ledger[i].at /\ ledger[j].at <= now
    BY <1>2 DEF OfFirst, PoolInv, LedgerInv, KeysPointToLatest
  <2>4. ledger[i].at \in Nat /\ ledger[j].at \in Nat
    <3>1. ledger[i] \in Entry /\ ledger[j] \in Entry
      BY <1>4
    <3>. QED  BY <3>1 DEF Entry
  <2>5. first.at \in Nat /\ KeyTtl \in Nat
    BY <1>1, LedgerAssumption DEF PlanState
  <2>. QED  BY <1>4, <2>2, <2>3, <2>4, <2>5
<1>6. IsInjective(paid)
  <2>1. \A i, j \in DOMAIN ledger : paid[i] = paid[j] => i = j
    <3>1. \A i, j \in DOMAIN ledger : i = j \/ i < j \/ j < i
      BY <1>4
    <3>. QED  BY <1>5, <3>1
  <2>. QED  BY <2>1 DEF IsInjective
<1>7. ASSUME NEW w \in Callers, sweep[w].at = "paying", ~Paying(w), ~sweep[w].failed
      PROVE  Range(paid) = Range(first.legs)
  <2>1. /\ sweep[w].plan = first.legs
        /\ \A i \in DOMAIN first.legs : i < sweep[w].leg => LegPaid(ledger, first.legs[i])
    BY <1>1, <1>7 DEF FirstFollowed, FollowsFirst
  <2>2. /\ sweep[w].leg \in Nat \ {0} /\ sweep[w].leg \notin DOMAIN first.legs
        /\ first.legs \in Seq(Leg)
    BY <1>1, <1>7, <2>1 DEF PoolInv, SweepsPlan, SweepState, Paying, PlanState
  <2>3. \A i \in DOMAIN first.legs : i < sweep[w].leg
    BY <2>2
  <2>4. Range(first.legs) \subseteq Range(paid)
    BY <1>2, <2>1, <2>3 DEF LegPaid, Range
  <2>. QED  BY <1>3, <2>4
<1>. QED  BY <1>3, <1>6, <1>7

(***************************************************************************)
(* Sweeps that overlap, die and are run again pay each leg of a plan once  *)
(* while its keys live, and a sweep without a failure has paid them all;   *)
(* what a snapshot reports executed is in the ledger, always. Transfers may*)
(* be of any amount, as plans make them.                                   *)
(***************************************************************************)
THEOREM SweepsPayOnce == ASSUME Amounts = Nat \ {0} PROVE PoolSpec => []RerunsPayOnce
<1>1. PoolInv /\ [PoolNext]_settlementVars => PoolInv'
  BY PoolKeeps DEF AnyAmount
<1>2. PoolInv => RerunsPayOnce
  <2>. SUFFICES ASSUME PoolInv PROVE RerunsPayOnce
    OBVIOUS
  <2>1. ReportedIsPaid
    BY DEF PoolInv, BooksFit
  <2>. QED  BY <2>1, FirstPaysOnce DEF RerunsPayOnce
<1>. QED  BY <1>1, <1>2, PoolStarts, PTL DEF PoolSpec

(***************************************************************************)
(* The settlement's keys are the ledger's: whichever workers race on a leg,*)
(* its key moves money once in its life.                                   *)
(***************************************************************************)
THEOREM LegKeysMoveMoneyOnce == ASSUME Amounts = Nat \ {0} PROVE PoolSpec => []OneEntryPerWindow
<1>1. PoolInv /\ [PoolNext]_settlementVars => PoolInv'
  BY PoolKeeps DEF AnyAmount
<1>2. PoolInv => OneEntryPerWindow
  BY DEF PoolInv, LedgerInv
<1>. QED  BY <1>1, <1>2, PoolStarts, PTL DEF PoolSpec
=============================================================================
