----------------------------- MODULE SagaProofs -----------------------------
(***************************************************************************)
(* Proofs about sagas: the coordinator, for any list of steps; and the     *)
(* refund cascade, for any charges, any number of cascades and whatever the*)
(* wallet does beside them, which is shown to be an instance of the former.*)
(***************************************************************************)
EXTENDS Saga, RefundCascade, SumFacts

(***************************************************************************)
(* While the saga runs, no step beyond the current one has its effect, and *)
(* each completed one has unless it is best effort. While it compensates,  *)
(* the same holds of the completed steps not yet reached, those passed have*)
(* none unless their compensation failed, and nothing after the failed step*)
(* ever ran. The hash says of an end only what the coroutine knows.        *)
(***************************************************************************)
RunningInv ==
    /\ status = "starting" => /\ completed = 0 /\ failed = 0 /\ compFailures = {}
                              /\ \A i \in Steps : ~applied[i]
    /\ status = "running" =>
        /\ failed = 0 /\ compFailures = {}
        /\ \A i \in Steps : /\ applied[i] => i <= completed + 1
                            /\ i <= completed /\ i \notin BestEffort => applied[i]

CompensatingInv ==
    status = "compensating" =>
        /\ failed = completed + 1 /\ undone <= failed
        /\ compFailures \subseteq undone..completed
        /\ \A i \in Steps : /\ i < undone - 1 /\ i \notin BestEffort => applied[i]
                            /\ i >= undone /\ i < failed => ~applied[i] \/ i \in compFailures
                            /\ i > failed => ~applied[i]

HashTells == meta \in Finished => meta = status

CoordinatorInv == /\ SagaTypeOK /\ RunningInv /\ CompensatingInv
                  /\ HashTells /\ Told(status)

LEMMA InitCoordinator == SagaInit => CoordinatorInv
  BY SagaAssumption DEF SagaInit, CoordinatorInv, SagaTypeOK, RunningInv, CompensatingInv,
         HashTells, Told, Steps, Essential, Finished

LEMMA NextCoordinator ==
  ASSUME CoordinatorInv, [SagaNext]_sagaVars
  PROVE  CoordinatorInv'
<1> USE SagaAssumption DEF CoordinatorInv, SagaTypeOK, RunningInv, CompensatingInv,
            HashTells, Told, Steps, Essential, Finished, WriteMeta
<1>0. CASE Begin
  BY <1>0 DEF Begin
<1>1. CASE StepSucceeds
  BY <1>1 DEF StepSucceeds, Current
<1>2. CASE StepFails
  BY <1>2 DEF StepFails, Current
<1>2a. CASE StepActs
  BY <1>2a DEF StepActs, Current
<1>3. CASE Succeed
  BY <1>3 DEF Succeed
<1>4. CASE Compensate
  BY <1>4 DEF Compensate, Undoing
<1>4a. CASE CompensationActs
  BY <1>4a DEF CompensationActs, Undoing
<1>5. CASE CompensationFails
  BY <1>5 DEF CompensationFails, Undoing
<1>6. CASE FinishRollback
  BY <1>6 DEF FinishRollback, OutcomeOfRollback
<1>7. CASE Crash
  BY <1>7 DEF Crash
<1>8. CASE UNCHANGED sagaVars
  BY <1>8 DEF sagaVars
<1> QED
  BY <1>0, <1>1, <1>2, <1>2a, <1>3, <1>4, <1>4a, <1>5, <1>6, <1>7, <1>8 DEF SagaNext, Advance

LEMMA CoordinatorHolds == SagaSpec => []CoordinatorInv
<1>1. SagaInit => CoordinatorInv
  BY InitCoordinator
<1>2. CoordinatorInv /\ [SagaNext]_sagaVars => CoordinatorInv'
  BY NextCoordinator
<1>. QED  BY <1>1, <1>2, PTL DEF SagaSpec

(***************************************************************************)
(* A finished saga's status tells which effects stand, and so does its     *)
(* hash where it says that the saga ended.                                 *)
(***************************************************************************)
THEOREM SagaStatusHolds == SagaSpec => [](SagaTypeOK /\ StatusTellsEffects)
<1>1. CoordinatorInv => SagaTypeOK /\ StatusTellsEffects
  <2>. SUFFICES ASSUME CoordinatorInv PROVE Told(meta)
    BY DEF CoordinatorInv, StatusTellsEffects
  <2>1. CASE meta \in Finished
    BY <2>1 DEF CoordinatorInv, HashTells
  <2>2. CASE meta \notin Finished
    BY <2>2 DEF Told, Finished
  <2>. QED  BY <2>1, <2>2
<1>. QED  BY <1>1, CoordinatorHolds, PTL

(***************************************************************************)
(* Compensations run in the reverse of the order of the steps.             *)
(***************************************************************************)
THEOREM SagaUndoesInReverse == SagaSpec => []UndoneInReverse
<1>1. CoordinatorInv => UndoneInReverse
  BY SagaAssumption DEF CoordinatorInv, SagaTypeOK, CompensatingInv, UndoneInReverse,
         Undoing, Steps, Essential
<1>. QED  BY <1>1, CoordinatorHolds, PTL
-----------------------------------------------------------------------------
(***************************************************************************)
(* The money of the cascade. Whatever runs beside it, the rows are typed   *)
(* and a row that does not exist is empty, so that a charge starts from    *)
(* nothing. The sum of what charges hold moves with one row at a time.     *)
(* That repaid stays a natural number is shown further below: a cascade    *)
(* takes back only what it paid.                                           *)
(***************************************************************************)
LooseRow == [status : Statuses, amount : Nat, refunded : Nat, repaid : Int]

DailyOK == /\ dailySpent \in [Days -> Int]
           /\ expiring \subseteq Days
           /\ lapsed \in Int

RowsTyped == /\ balance \in Int
             /\ DailyOK
             /\ totalSpent \in Int
             /\ dailyBudget \in Nat
             /\ funded \in Nat
             /\ today \in Days
             /\ charge \in [Charges -> LooseRow]
             /\ \A c \in Charges : charge[c].status = "none" => charge[c] = NoRow

MoneyInv == RowsTyped /\ BalanceMatchesRows

NothingUnpaid == \A c \in Charges : charge'[c].repaid >= charge[c].repaid

USE ChargeBookAssumption, CascadeAssumption

LEMMA Untouched ==
  ASSUME RowsTyped, UNCHANGED <<balance, charge, funded>>
  PROVE  NothingUnpaid /\ (BalanceMatchesRows => BalanceMatchesRows')
<1>1. HeldBy' = HeldBy
  BY DEF HeldBy
<1>2. NothingUnpaid
  <2>. SUFFICES ASSUME NEW c \in Charges PROVE charge'[c].repaid >= charge[c].repaid
    BY DEF NothingUnpaid
  <2>1. charge[c].repaid \in Int /\ charge'[c].repaid = charge[c].repaid
    BY DEF RowsTyped, LooseRow
  <2>. QED  BY <2>1
<1>. QED  BY <1>1, <1>2 DEF BalanceMatchesRows

\* One row is replaced: the sum moves by what the row moves.
LEMMA HeldSum ==
  ASSUME RowsTyped, IsFiniteSet(Charges), NEW c \in Charges, NEW row \in LooseRow,
         charge' = [charge EXCEPT ![c] = row]
  PROVE  /\ SumFunction(HeldBy) \in Int
         /\ SumFunction(HeldBy)' = SumFunction(HeldBy) - (charge[c].amount - charge[c].repaid)
                                                       + (row.amount - row.repaid)
<1>. DEFINE f == HeldBy
            g == HeldBy'
<1>1. /\ DOMAIN f = Charges /\ DOMAIN g = Charges
      /\ f[c] = charge[c].amount - charge[c].repaid /\ g[c] = row.amount - row.repaid
      /\ \A x \in Charges : f[x] \in Int /\ g[x] \in Int
      /\ \A x \in Charges \ {c} : g[x] = f[x]
  BY DEF RowsTyped, LooseRow, HeldBy
<1>2. SumFunction(HeldBy) = SumFunctionOnSet(f, Charges)
      /\ SumFunction(HeldBy)' = SumFunctionOnSet(g, Charges)
  BY <1>1 DEF SumFunction
<1>. HIDE DEF f, g
<1>3. /\ SumFunctionOnSet(f, Charges) \in Int
      /\ SumFunctionOnSet(g, Charges) = SumFunctionOnSet(f, Charges) - f[c] + g[c]
  BY <1>1, SumChange
<1>. QED  BY <1>1, <1>2, <1>3

LEMMA RowReplaced ==
  ASSUME RowsTyped, NEW c \in Charges, NEW row \in LooseRow, row.status # "none",
         charge' = [charge EXCEPT ![c] = row]
  PROVE  /\ charge' \in [Charges -> LooseRow]
         /\ \A x \in Charges : charge'[x].status = "none" => charge'[x] = NoRow
         /\ row.repaid >= charge[c].repaid => NothingUnpaid
<1>1. /\ charge' \in [Charges -> LooseRow]
      /\ \A x \in Charges : charge'[x].status = "none" => charge'[x] = NoRow
  BY DEF RowsTyped
<1>2. ASSUME row.repaid >= charge[c].repaid PROVE NothingUnpaid
  <2>. SUFFICES ASSUME NEW x \in Charges PROVE charge'[x].repaid >= charge[x].repaid
    BY DEF NothingUnpaid
  <2>1. charge[x].repaid \in Int /\ charge'[x].repaid = IF x = c THEN row.repaid ELSE charge[x].repaid
    BY DEF RowsTyped, LooseRow
  <2>. QED  BY <1>2, <2>1
<1>. QED  BY <1>1, <1>2

LEMMA RowBalances ==
  ASSUME RowsTyped, IsFiniteSet(Charges), BalanceMatchesRows, NEW c \in Charges,
         NEW row \in LooseRow, charge' = [charge EXCEPT ![c] = row], NEW a \in Int,
         balance' = balance + a, funded' = funded,
         row.amount - row.repaid = (charge[c].amount - charge[c].repaid) - a
  PROVE  BalanceMatchesRows'
<1>1. /\ SumFunction(HeldBy) \in Int
      /\ SumFunction(HeldBy)' = SumFunction(HeldBy) - (charge[c].amount - charge[c].repaid)
                                                    + (row.amount - row.repaid)
  BY HeldSum
<1>2. balance \in Int /\ funded \in Int /\ charge[c].amount - charge[c].repaid \in Int
  BY DEF RowsTyped, LooseRow
<1>. DEFINE before == charge[c].amount - charge[c].repaid
            after == row.amount - row.repaid
            s == SumFunction(HeldBy)
            t == SumFunction(HeldBy)'
<1>3. before \in Int /\ after = before - a /\ s \in Int /\ t = s - before + after
      /\ balance + s = funded
  BY <1>1, <1>2 DEF BalanceMatchesRows
<1>. SUFFICES balance' + t = funded'
  BY DEF BalanceMatchesRows
<1>. HIDE DEF before, after, s, t
<1>. QED  BY <1>2, <1>3

\* The three refund paths pay a out of one row; none of them mints a charge.
LEMMA PayBackRow ==
  ASSUME RowsTyped, NEW c \in Charges, NEW a \in Nat, NEW d \in Days, PayBack(a, d),
         NEW row \in LooseRow, row.status # "none", charge' = [charge EXCEPT ![c] = row],
         row.amount = charge[c].amount, row.repaid = charge[c].repaid + a
  PROVE  /\ RowsTyped' /\ NothingUnpaid
         /\ IsFiniteSet(Charges) /\ BalanceMatchesRows => BalanceMatchesRows'
<1>1. charge[c].amount \in Nat /\ charge[c].repaid \in Int
  BY DEF RowsTyped, LooseRow
<1>2. /\ row.repaid >= charge[c].repaid
      /\ row.amount - row.repaid = (charge[c].amount - charge[c].repaid) - a
  BY <1>1
<1>3. /\ balance' \in Int /\ DailyOK' /\ totalSpent' \in Int
      /\ balance' = balance + a /\ UNCHANGED <<dailyBudget, funded, today>>
  BY DEF PayBack, RowsTyped, DailyOK
<1>4. RowsTyped'
  BY <1>3, RowReplaced DEF RowsTyped
<1>5. NothingUnpaid
  BY <1>2, RowReplaced
<1>6. ASSUME IsFiniteSet(Charges), BalanceMatchesRows PROVE BalanceMatchesRows'
  <2>1. a \in Int
    OBVIOUS
  <2>. QED  BY ONLY <1>2, <1>3, <1>6, <2>1, RowsTyped, c \in Charges, row \in LooseRow,
                    charge' = [charge EXCEPT ![c] = row], RowBalances
<1>. QED  BY <1>4, <1>5, <1>6

LEMMA RefundRow ==
  ASSUME RowsTyped, NEW c \in Charges, NEW a \in Nat, Refundable(c), a <= Remaining(c),
         NEW d \in Days, PayBack(a, d), charge' = [charge EXCEPT ![c] = AfterPartial(@, a)]
  PROVE  /\ RowsTyped' /\ NothingUnpaid
         /\ IsFiniteSet(Charges) /\ BalanceMatchesRows => BalanceMatchesRows'
<1>. DEFINE row == AfterPartial(charge[c], a)
<1>1. charge[c] \in LooseRow
  BY DEF RowsTyped
<1>2. /\ row \in LooseRow /\ row.status # "none" /\ row.amount = charge[c].amount
      /\ row.repaid = charge[c].repaid + a
  BY <1>1 DEF AfterPartial, LooseRow, Statuses
<1>3. charge' = [charge EXCEPT ![c] = row]
  OBVIOUS
<1>. HIDE DEF row
<1>. QED  BY <1>2, <1>3, PayBackRow

\* The rest of the wallet.
LEMMA WalletMoney ==
  ASSUME RowsTyped, BookNext
  PROVE  /\ RowsTyped' /\ NothingUnpaid
         /\ MarketplaceCharges = {} /\ IsFiniteSet(Charges) /\ BalanceMatchesRows
              => BalanceMatchesRows'
<1>1. CASE Midnight \/ (\E b \in Budgets : SetDailyBudget(b))
  <2>1. RowsTyped'
    <3>1. UNCHANGED <<moneyVars, dailyVars>> /\ dailyBudget' \in Nat /\ today' \in Days
      BY <1>1 DEF Midnight, SetDailyBudget, moneyVars, RowsTyped, Days
    <3>2. DailyOK'
      BY <3>1 DEF dailyVars, RowsTyped, DailyOK
    <3>. QED  BY <3>1, <3>2 DEF moneyVars, RowsTyped
  <2>. QED  BY <1>1, <2>1, Untouched DEF Midnight, SetDailyBudget, moneyVars
<1>1a. ASSUME NEW d \in Days, CounterLapses(d)
       PROVE  RowsTyped' /\ NothingUnpaid /\ (BalanceMatchesRows => BalanceMatchesRows')
  <2>1. DailyOK'
    BY <1>1a DEF CounterLapses, RowsTyped, DailyOK
  <2>2. RowsTyped'
    BY <1>1a, <2>1 DEF CounterLapses, RowsTyped
  <2>. QED  BY <1>1a, <2>2, Untouched DEF CounterLapses
<1>2. ASSUME NEW a \in Amounts, Credit(a)
      PROVE  /\ RowsTyped' /\ NothingUnpaid
             /\ IsFiniteSet(Charges) /\ BalanceMatchesRows => BalanceMatchesRows'
  <2>1. RowsTyped'
    BY <1>2 DEF Credit, dailyVars, RowsTyped, DailyOK
  <2>2. NothingUnpaid
    BY <1>2 DEF Credit, RowsTyped, LooseRow, NothingUnpaid
  <2>3. ASSUME IsFiniteSet(Charges), BalanceMatchesRows PROVE BalanceMatchesRows'
    <3>1. ASSUME NEW c \in Charges PROVE HeldBy[c] \in Int
      <4>1. charge[c] \in LooseRow
        BY DEF RowsTyped
      <4>. QED  BY <4>1 DEF LooseRow, HeldBy
    <3>2. SumFunction(HeldBy) \in Int
      BY <2>3, <3>1, SumInt DEF SumFunction, HeldBy
    <3>3. SumFunction(HeldBy)' = SumFunction(HeldBy)
      BY <1>2 DEF Credit, HeldBy
    <3>4. balance' = balance + a /\ funded' = funded + a /\ balance \in Int /\ funded \in Int
      BY <1>2 DEF Credit, RowsTyped
    <3>. DEFINE s == SumFunction(HeldBy)
                t == SumFunction(HeldBy)'
    <3>5. s \in Int /\ t = s /\ balance + s = funded
      BY <2>3, <3>2, <3>3 DEF BalanceMatchesRows
    <3>. SUFFICES balance' + t = funded'
      BY DEF BalanceMatchesRows
    <3>. HIDE DEF s, t
    <3>. QED  BY <3>4, <3>5
  <2>. QED  BY <2>1, <2>2, <2>3
<1>3. ASSUME NEW c \in Charges, Freeze(c) \/ Unfreeze(c)
      PROVE  /\ RowsTyped' /\ NothingUnpaid
             /\ IsFiniteSet(Charges) /\ BalanceMatchesRows => BalanceMatchesRows'
  <2>1. PICK st \in {"disputed", "completed"} :
            charge' = [charge EXCEPT ![c] = WithStatus(charge[c], st)]
    BY <1>3 DEF Freeze, Unfreeze
  <2>2. charge[c] \in LooseRow /\ charge[c].amount \in Nat /\ charge[c].repaid \in Int
    BY DEF RowsTyped, LooseRow
  <2>. DEFINE row == WithStatus(charge[c], st)
  <2>3. /\ row \in LooseRow /\ row.status # "none"
        /\ row.amount = charge[c].amount /\ row.repaid = charge[c].repaid
    BY <2>2 DEF WithStatus, LooseRow, Statuses
  <2>4. charge' = [charge EXCEPT ![c] = row] /\ balance' = balance + 0
        /\ UNCHANGED <<balance, dailyVars, totalSpent, dailyBudget, funded, today>>
    BY <1>3, <2>1 DEF Freeze, Unfreeze, RowsTyped
  <2>. HIDE DEF row
  <2>5. RowsTyped'
    BY <2>3, <2>4, RowReplaced DEF RowsTyped, DailyOK, dailyVars
  <2>6. /\ row.repaid >= charge[c].repaid
        /\ row.amount - row.repaid = (charge[c].amount - charge[c].repaid) - 0
    BY <2>2, <2>3
  <2>7. NothingUnpaid
    BY <2>3, <2>4, <2>6, RowReplaced
  <2>8. ASSUME IsFiniteSet(Charges), BalanceMatchesRows PROVE BalanceMatchesRows'
    <3>1. 0 \in Int /\ funded' = funded /\ row \in LooseRow
      BY <2>3, <2>4
    <3>. QED  BY ONLY <2>4, <2>6, <2>8, <3>1, RowsTyped, c \in Charges, RowBalances
  <2>. QED  BY <2>5, <2>7, <2>8
<1>4. ASSUME NEW c \in Charges, NEW a \in Amounts, Completed(a) \in LooseRow
      PROVE  /\ Completed(a).status # "none"
             /\ Completed(a).amount = a /\ Completed(a).repaid = 0 /\ a \in Nat
  BY DEF Completed
<1>5. ASSUME NEW a \in Amounts PROVE Completed(a) \in LooseRow
  BY DEF Completed, LooseRow, Statuses
<1>6. ASSUME NEW c \in MarketplaceCharges, NEW a \in Amounts, PostMarketplaceCharge(c, a)
      PROVE  RowsTyped' /\ NothingUnpaid
  <2>1. c \in Charges /\ charge[c] = NoRow
    BY <1>6 DEF PostMarketplaceCharge, Exists, RowsTyped
  <2>2. charge' = [charge EXCEPT ![c] = Completed(a)] /\ Completed(a).repaid >= charge[c].repaid
    BY <1>4, <1>5, <1>6, <2>1 DEF PostMarketplaceCharge, NoRow
  <2>3. /\ balance' \in Int /\ funded' \in Nat
        /\ UNCHANGED <<dailyVars, totalSpent, dailyBudget, today>>
    BY <1>6 DEF PostMarketplaceCharge, RowsTyped
  <2>4. RowsTyped'
    BY <1>4, <1>5, <2>1, <2>2, <2>3, RowReplaced DEF RowsTyped, DailyOK, dailyVars
  <2>. QED  BY <1>4, <1>5, <2>1, <2>2, <2>4, RowReplaced
<1>7. ASSUME NEW c \in Charges, NEW a \in Amounts, NEW d \in Days, PostCharge(c, a, d)
      PROVE  /\ RowsTyped' /\ NothingUnpaid
             /\ IsFiniteSet(Charges) /\ BalanceMatchesRows => BalanceMatchesRows'
  <2>1. charge[c] = NoRow
    BY <1>7 DEF PostCharge, Exists, RowsTyped
  <2>. DEFINE row == Completed(a)
  <2>2. /\ row \in LooseRow /\ row.status # "none" /\ charge' = [charge EXCEPT ![c] = row]
        /\ row.repaid >= charge[c].repaid
        /\ row.amount - row.repaid = (charge[c].amount - charge[c].repaid) - (-a)
        /\ -a \in Int
    BY <1>4, <1>5, <1>7, <2>1 DEF PostCharge, NoRow
  <2>3. /\ balance' \in Int /\ DailyOK' /\ totalSpent' \in Int
        /\ balance' = balance + (-a) /\ UNCHANGED <<dailyBudget, funded, today>>
    BY <1>7 DEF PostCharge, RowsTyped, DailyOK
  <2>. HIDE DEF row
  <2>4. RowsTyped'
    BY <2>2, <2>3, RowReplaced DEF RowsTyped
  <2>. QED  BY <2>2, <2>3, <2>4, RowReplaced, RowBalances
<1>8. ASSUME NEW c \in Charges, NEW d \in Days, Refund(c, d)
      PROVE  /\ RowsTyped' /\ NothingUnpaid
             /\ IsFiniteSet(Charges) /\ BalanceMatchesRows => BalanceMatchesRows'
  <2>. DEFINE row == AfterWhole(charge[c])
              a == charge[c].amount
  <2>1. charge[c] \in LooseRow /\ a \in Nat
    BY DEF RowsTyped, LooseRow
  <2>2. /\ row \in LooseRow /\ row.status # "none" /\ row.amount = charge[c].amount
        /\ row.repaid = charge[c].repaid + a
    BY <2>1 DEF AfterWhole, LooseRow, Statuses
  <2>3. PayBack(a, d) /\ charge' = [charge EXCEPT ![c] = row]
    BY <1>8 DEF Refund
  <2>. HIDE DEF row, a
  <2>. QED  BY <2>1, <2>2, <2>3, PayBackRow
<1>9. ASSUME NEW c \in Charges, NEW a \in Amounts, NEW d \in Days, DisputeRefund(c, a, d)
      PROVE  /\ RowsTyped' /\ NothingUnpaid
             /\ IsFiniteSet(Charges) /\ BalanceMatchesRows => BalanceMatchesRows'
  BY <1>9, RefundRow DEF DisputeRefund
<1>10. ASSUME NEW c \in Charges, NEW a \in Amounts, NEW d \in Days, ReverseCharge(c, a, d)
       PROVE  /\ RowsTyped' /\ NothingUnpaid
              /\ IsFiniteSet(Charges) /\ BalanceMatchesRows => BalanceMatchesRows'
  <2>. DEFINE n == ReversalAmount(c, a)
  <2>1. n \in Nat /\ n <= Remaining(c)
    <3>1. charge[c] \in LooseRow
      BY DEF RowsTyped
    <3>. QED  BY <1>10, <3>1 DEF ReverseCharge, ReversalAmount, Remaining, LooseRow
  <2>2. Refundable(c) /\ PayBack(n, d) /\ charge' = [charge EXCEPT ![c] = AfterPartial(@, n)]
    BY <1>10 DEF ReverseCharge
  <2>. HIDE DEF n
  <2>. QED  BY <2>1, <2>2, RefundRow
<1>11. CASE \E c \in Charges : \E a \in Amounts : c \in MarketplaceCharges /\ PostMarketplaceCharge(c, a)
  BY <1>6, <1>11
<1>. QED
  BY <1>1, <1>1a, <1>2, <1>3, <1>7, <1>8, <1>9, <1>10, <1>11 DEF BookNext, HandlerDays
-----------------------------------------------------------------------------
(***************************************************************************)
(* Where a cascade is, and what its refund row and its reversal row say    *)
(* then. One that goes forward has the effects of the steps it completed.  *)
(* One that has failed keeps those it has not compensated yet, and of the  *)
(* others at most that of the step that failed and those whose compensation*)
(* failed. r is the saga, row its refund row, rev its reversal row.        *)
(***************************************************************************)
Forward(r) == r.status \in {"idle", "running", "succeeded"}

Placed(r) ==
    /\ r.status = "idle" => r.completed = 0 /\ r.alive /\ r.meta = "none"
    /\ r.status = "succeeded" => r.completed = 4
    /\ Forward(r) => r.failed = 0 /\ r.compFailures = {} /\ r.undone = 5
    /\ ~Forward(r) => /\ r.failed = r.completed + 1
                      /\ r.undone <= r.failed
                      /\ r.status # "compensating" => r.undone = 1
                      /\ r.status = "failed_rolled_back" => r.compFailures = {}

MoneyStands(r, row) ==
    /\ Forward(r) => (row = "live" <=> WALLET <= r.completed)
    /\ ~Forward(r) => /\ WALLET < r.undone => row = "live"
                      /\ row = "live" => \/ WALLET < r.undone \/ WALLET = r.failed
                                         \/ WALLET \in r.compFailures

CommissionStands(r, rev) ==
    /\ rev = "applied" => r.linked
    /\ Forward(r) => (rev = "applied" <=> r.linked /\ COMMISSION <= r.completed)
    /\ ~Forward(r) => /\ COMMISSION < r.undone /\ r.linked => rev = "applied"
                      /\ rev = "applied" => \/ COMMISSION < r.undone \/ COMMISSION = r.failed
                                            \/ COMMISSION \in r.compFailures

Fits(r, row, rev) == Placed(r) /\ MoneyStands(r, row) /\ CommissionStands(r, rev)

CascadesTyped == /\ saga \in [Sagas -> SagaState]
                 /\ refundRow \in [Sagas -> {"none", "live", "reversed"}]
                 /\ reversal \in [Sagas -> {"none", "applied", "cancelled"}]
                 /\ reversedBy \in Sagas \cup {None}
                 /\ event \in BOOLEAN
                 /\ listed \in Nat /\ ranked \in BOOLEAN
                 /\ broadcast \subseteq Sagas

CascadesFit == \A s \in Sagas : Fits(saga[s], refundRow[s], reversal[s])

CascadeInv == CascadesTyped /\ CascadesFit

USE DEF WALLET, ATTRIBUTION, COMMISSION, BROADCAST

\* What the four moves of a coordinator make of its saga.
CompletedBy(r) == [r EXCEPT !.completed = @ + 1]
FailedBy(r)    == [r EXCEPT !.status = "compensating", !.failed = r.completed + 1,
                            !.undone = r.completed + 1]
UndoneBy(r)    == [r EXCEPT !.undone = @ - 1]
NotUndoneBy(r) == [r EXCEPT !.compFailures = @ \cup {r.undone - 1}, !.undone = @ - 1]

LEMMA MoveTypes ==
  ASSUME NEW r \in SagaState
  PROVE  /\ r.completed \in 0..3 => CompletedBy(r) \in SagaState /\ FailedBy(r) \in SagaState
         /\ r.undone \in 2..5 => UndoneBy(r) \in SagaState /\ NotUndoneBy(r) \in SagaState
<1>1. ASSUME r.completed \in 0..3 PROVE CompletedBy(r) \in SagaState /\ FailedBy(r) \in SagaState
  <2>. DEFINE n == r.completed + 1
  <2>1. n \in 0..4 /\ n \in 1..5
    BY <1>1
  <2>. HIDE DEF n
  <2>2. [r EXCEPT !.completed = n] \in SagaState
    BY <2>1 DEF SagaState
  <2>3. [r EXCEPT !.status = "compensating", !.failed = n, !.undone = n] \in SagaState
    BY <2>1 DEF SagaState
  <2>. QED  BY <2>2, <2>3 DEF CompletedBy, FailedBy, n
<1>2. ASSUME r.undone \in 2..5 PROVE UndoneBy(r) \in SagaState /\ NotUndoneBy(r) \in SagaState
  <2>. DEFINE n == r.undone - 1
              x == r.compFailures \cup {n}
  <2>1. n \in 1..5 /\ n \in 1..4
    BY <1>2
  <2>. HIDE DEF n
  <2>2. [r EXCEPT !.undone = n] \in SagaState
    BY <2>1 DEF SagaState
  <2>3. x \in SUBSET CascadeSteps
    BY <2>1 DEF SagaState, CascadeSteps
  <2>. HIDE DEF x
  <2>4. [r EXCEPT !.compFailures = x, !.undone = n] \in SagaState
    BY <2>1, <2>3 DEF SagaState
  <2>. QED  BY <2>2, <2>4 DEF UndoneBy, NotUndoneBy, n, x
<1>. QED  BY <1>1, <1>2

LEMMA StepFits ==
  ASSUME NEW r \in SagaState, NEW row, NEW rev, Fits(r, row, rev), r.status = "running",
         r.completed \in 0..3, NEW row2, NEW rev2,
         row2 = "live" <=> row = "live" \/ r.completed = 0,
         rev2 = "applied" <=> rev = "applied" \/ (r.completed = 2 /\ r.linked)
  PROVE  /\ CompletedBy(r) \in SagaState /\ Fits(CompletedBy(r), row2, rev2)
         /\ FailedBy(r) \in SagaState /\ Fits(FailedBy(r), row2, rev2)
<1>1. CompletedBy(r) \in SagaState /\ FailedBy(r) \in SagaState
  BY MoveTypes
<1>2. Fits(CompletedBy(r), row2, rev2)
  BY DEF SagaState, CompletedBy, Fits, Placed, MoneyStands, CommissionStands, Forward
<1>3. Fits(FailedBy(r), row2, rev2)
  BY DEF SagaState, FailedBy, Fits, Placed, MoneyStands, CommissionStands, Forward
<1>. QED  BY <1>1, <1>2, <1>3

LEMMA FailureFits ==
  ASSUME NEW r \in SagaState, NEW row, NEW rev, Fits(r, row, rev), r.status = "running",
         r.completed \in 0..3
  PROVE  FailedBy(r) \in SagaState /\ Fits(FailedBy(r), row, rev)
<1>1. FailedBy(r) \in SagaState
  BY MoveTypes
<1>2. Fits(FailedBy(r), row, rev)
  BY DEF SagaState, FailedBy, Fits, Placed, MoneyStands, CommissionStands, Forward
<1>. QED  BY <1>1, <1>2

LEMMA SkipFits ==
  ASSUME NEW r \in SagaState, NEW row, NEW rev, Fits(r, row, rev), r.status = "running",
         r.completed \in 1..3, r.completed = 2 => ~r.linked
  PROVE  CompletedBy(r) \in SagaState /\ Fits(CompletedBy(r), row, rev)
<1>1. CompletedBy(r) \in SagaState
  BY MoveTypes
<1>2. Fits(CompletedBy(r), row, rev)
  BY DEF SagaState, CompletedBy, Fits, Placed, MoneyStands, CommissionStands, Forward
<1>. QED  BY <1>1, <1>2

\* A compensation clears the effect of its own step; one that is cut off may have
\* or not.
LEMMA UndoFits ==
  ASSUME NEW r \in SagaState, NEW row, NEW rev, Fits(r, row, rev), r.status = "compensating",
         r.undone \in 2..5, NEW row2, NEW rev2,
         r.undone # 2 => row2 = row, r.undone # 4 => rev2 = rev,
         r.undone = 2 => row2 # "live", r.undone = 4 => rev2 # "applied"
  PROVE  /\ UndoneBy(r) \in SagaState /\ Fits(UndoneBy(r), row2, rev2)
         /\ NotUndoneBy(r) \in SagaState /\ Fits(NotUndoneBy(r), row2, rev2)
<1>1. UndoneBy(r) \in SagaState /\ NotUndoneBy(r) \in SagaState
  BY MoveTypes
<1>2. Fits(UndoneBy(r), row2, rev2)
  BY DEF SagaState, UndoneBy, Fits, Placed, MoneyStands, CommissionStands, Forward
<1>3. Fits(NotUndoneBy(r), row2, rev2)
  BY DEF SagaState, NotUndoneBy, Fits, Placed, MoneyStands, CommissionStands, Forward
<1>. QED  BY <1>1, <1>2, <1>3

LEMMA UndoFailureFits ==
  ASSUME NEW r \in SagaState, NEW row, NEW rev, Fits(r, row, rev), r.status = "compensating",
         r.undone \in 2..5
  PROVE  NotUndoneBy(r) \in SagaState /\ Fits(NotUndoneBy(r), row, rev)
<1>1. NotUndoneBy(r) \in SagaState
  BY MoveTypes
<1>2. Fits(NotUndoneBy(r), row, rev)
  BY DEF SagaState, NotUndoneBy, Fits, Placed, MoneyStands, CommissionStands, Forward
<1>. QED  BY <1>1, <1>2

\* One cascade moves, and with it at most its own two rows.
LEMMA OneCascadeMoves ==
  ASSUME CascadeInv, NEW s \in Sagas, CascadesTyped',
         \A t \in Sagas \ {s} : /\ saga'[t] = saga[t] /\ refundRow'[t] = refundRow[t]
                               /\ reversal'[t] = reversal[t],
         Fits(saga'[s], refundRow'[s], reversal'[s])
  PROVE  CascadeInv'
<1>. SUFFICES ASSUME NEW t \in Sagas PROVE Fits(saga'[t], refundRow'[t], reversal'[t])
  BY DEF CascadeInv, CascadesFit, Fits, Placed, MoneyStands, CommissionStands, Forward
<1>1. CASE t = s
  BY <1>1
<1>2. CASE t # s
  <2>1. Fits(saga[t], refundRow[t], reversal[t])
    BY DEF CascadeInv, CascadesFit
  <2>. QED  BY <1>2, <2>1
<1>. QED  BY <1>1, <1>2

LEMMA CascadeInit == Init => CascadeInv
  BY DEF Init, CascadeInv, CascadesTyped, CascadesFit, Fits, Placed, MoneyStands,
         CommissionStands, Forward, SagaState, IdleSaga, CascadeSteps, Places, Ended

LEMMA CascadeStep ==
  ASSUME CascadeInv, NEW s \in Sagas, SagaStep(s)
  PROVE  CascadeInv'
<1>. DEFINE r == saga[s]
            row == refundRow[s]
            rev == reversal[s]
<1>0. /\ r \in SagaState /\ Fits(r, row, rev)
      /\ row \in {"none", "live", "reversed"} /\ rev \in {"none", "applied", "cancelled"}
      /\ refundRow = [refundRow EXCEPT ![s] = row] /\ reversal = [reversal EXCEPT ![s] = rev]
      /\ r.completed \in 0..4 /\ r.undone \in 1..5 /\ r.amount \in Nat /\ r.linked \in BOOLEAN
      /\ reversedBy \in Sagas \cup {None} /\ event \in BOOLEAN /\ listed \in Nat /\ ranked \in BOOLEAN
      /\ broadcast \subseteq Sagas
  BY DEF CascadeInv, CascadesTyped, CascadesFit, SagaState
<1>1. /\ Completes(s) <=> saga' = [saga EXCEPT ![s] = CompletedBy(r)]
      /\ Fails(s) <=> saga' = [saga EXCEPT ![s] = FailedBy(r)]
      /\ Compensated(s) <=> saga' = [saga EXCEPT ![s] = UndoneBy(r)]
      /\ CompensationFailed(s) <=> saga' = [saga EXCEPT ![s] = NotUndoneBy(r)]
  BY DEF Completes, Fails, Compensated, CompensationFailed, CompletedBy, FailedBy, UndoneBy,
         NotUndoneBy
<1>. HIDE DEF r, row, rev
<1>2. ASSUME NEW r2 \in SagaState, saga' = [saga EXCEPT ![s] = r2],
              NEW row2 \in {"none", "live", "reversed"}, refundRow' = [refundRow EXCEPT ![s] = row2],
              NEW rev2 \in {"none", "applied", "cancelled"},
              reversal' = [reversal EXCEPT ![s] = rev2],
              Fits(r2, row2, rev2), reversedBy' \in Sagas \cup {None}, event' \in BOOLEAN,
              listed' \in Nat, ranked' \in BOOLEAN, broadcast' \subseteq Sagas
       PROVE  CascadeInv'
  <2>1. CascadesTyped'
    BY <1>2 DEF CascadeInv, CascadesTyped
  <2>2. /\ saga'[s] = r2 /\ refundRow'[s] = row2 /\ reversal'[s] = rev2
        /\ \A t \in Sagas \ {s} : /\ saga'[t] = saga[t] /\ refundRow'[t] = refundRow[t]
                                 /\ reversal'[t] = reversal[t]
    BY <1>2 DEF CascadeInv, CascadesTyped
  <2>3. Fits(saga'[s], refundRow'[s], reversal'[s])
    BY <1>2, <2>2
  <2>. QED  BY <2>1, <2>2, <2>3, OneCascadeMoves
<1>3. ASSUME NEW r2 \in SagaState, saga' = [saga EXCEPT ![s] = r2], Fits(r2, row, rev),
             UNCHANGED <<refundRow, reversal>>,
             reversedBy' \in Sagas \cup {None}, event' \in BOOLEAN,
             listed' \in Nat, ranked' \in BOOLEAN, broadcast' \subseteq Sagas
      PROVE  CascadeInv'
  <2>1. refundRow' = [refundRow EXCEPT ![s] = row] /\ reversal' = [reversal EXCEPT ![s] = rev]
    BY <1>0, <1>3
  <2>. QED  BY <1>0, <1>3, <1>2, <2>1
<1>4. ASSUME NEW a \in Amounts, NEW linked \in BOOLEAN, Start(s, a, linked) PROVE CascadeInv'
  <2>0. PICK m \in {"none", "running"} :
            saga' = [saga EXCEPT ![s].status = "running", ![s].meta = m,
                                 ![s].amount = a, ![s].linked = linked]
    BY <1>4 DEF Start
  <2>. DEFINE r2 == [r EXCEPT !.status = "running", !.meta = m, !.amount = a, !.linked = linked]
  <2>1. r.status = "idle" /\ saga' = [saga EXCEPT ![s] = r2]
    BY <1>4, <2>0 DEF Start, r
  <2>2. r2 \in SagaState
    <3>. DEFINE st == "running"
    <3>1. /\ st \in {"idle", "running", "compensating"} \cup Ended
          /\ m \in {"none", "running"} \cup Ended
      OBVIOUS
    <3>2. r2 = [r EXCEPT !.status = st, !.meta = m, !.amount = a, !.linked = linked]
      OBVIOUS
    <3>. HIDE DEF st, r2
    <3>. QED  BY <1>0, <3>1, <3>2 DEF SagaState
  <2>3. Fits(r2, row, rev)
    BY <1>0, <2>1 DEF SagaState, Fits, Placed, MoneyStands, CommissionStands, Forward
  <2>. HIDE DEF r2
  <2>. QED  BY <1>0, <1>3, <1>4, <2>3, <2>1, <2>2 DEF Start
<1>5. CASE FailsCleanly(s)
  <2>1. r.status = "running" /\ r.completed \in 0..3 /\ saga' = [saga EXCEPT ![s] = FailedBy(r)]
    BY <1>0, <1>1, <1>5 DEF FailsCleanly, Running, CascadeSteps, r
  <2>2. FailedBy(r) \in SagaState /\ Fits(FailedBy(r), row, rev)
    BY <1>0, <2>1, FailureFits
  <2>. QED  BY <1>0, <1>3, <1>5, <2>1, <2>2 DEF FailsCleanly
<1>6. CASE SkipUnlinked(s) \/ ScrubSwallowsError(s) \/ EmitSwallowsError(s)
  <2>1. /\ r.status = "running" /\ r.completed \in 1..3 /\ (r.completed = 2 => ~r.linked)
        /\ saga' = [saga EXCEPT ![s] = CompletedBy(r)]
        /\ UNCHANGED <<refundRow, reversal, reversedBy, event, listed, ranked, broadcast>>
    BY <1>0, <1>1, <1>6 DEF SkipUnlinked, ScrubSwallowsError, EmitSwallowsError, At, Running, r
  <2>2. CompletedBy(r) \in SagaState /\ Fits(CompletedBy(r), row, rev)
    BY <1>0, <2>1, SkipFits
  <2>. QED  BY <1>0, <1>3, <2>1, <2>2
<1>7. CASE \E d \in HandlerDays : DoWalletRefund(s, d)
  <2>1. /\ r.status = "running" /\ r.completed = 0
        /\ saga' = [saga EXCEPT ![s] = CompletedBy(r)] \/ saga' = [saga EXCEPT ![s] = FailedBy(r)]
        /\ refundRow' = [refundRow EXCEPT ![s] = "live"]
        /\ UNCHANGED <<reversal, reversedBy, event, listed, ranked, broadcast>>
    BY <1>0, <1>1, <1>7 DEF DoWalletRefund, Running, ReturnsOrIsCutOff, r
  <2>2. /\ CompletedBy(r) \in SagaState /\ Fits(CompletedBy(r), "live", rev)
        /\ FailedBy(r) \in SagaState /\ Fits(FailedBy(r), "live", rev)
    <3>. DEFINE row2 == "live"
    <3>1. /\ row2 = "live" <=> row = "live" \/ r.completed = 0
          /\ rev = "applied" <=> rev = "applied" \/ (r.completed = 2 /\ r.linked)
          /\ r.completed \in 0..3
      BY <2>1
    <3>. HIDE DEF row2
    <3>2. /\ CompletedBy(r) \in SagaState /\ Fits(CompletedBy(r), row2, rev)
          /\ FailedBy(r) \in SagaState /\ Fits(FailedBy(r), row2, rev)
      BY <1>0, <2>1, <3>1, StepFits
    <3>. QED  BY <3>2 DEF row2
  <2>3. reversal' = [reversal EXCEPT ![s] = rev] /\ "live" \in {"none", "live", "reversed"}
        /\ rev \in {"none", "applied", "cancelled"}
    BY <1>0, <2>1
  <2>3a. /\ event' \in BOOLEAN /\ listed' \in Nat /\ ranked' \in BOOLEAN /\ broadcast' \subseteq Sagas
         /\ reversedBy' \in Sagas \cup {None}
    BY <1>0, <2>1
  <2>4. CASE saga' = [saga EXCEPT ![s] = CompletedBy(r)]
    <3>. DEFINE r2 == CompletedBy(r)
    <3>1. r2 \in SagaState /\ Fits(r2, "live", rev) /\ saga' = [saga EXCEPT ![s] = r2]
      BY <2>2, <2>4
    <3>. HIDE DEF r2
    <3>. QED  BY ONLY <1>2, <2>1, <2>3, <2>3a, <3>1
  <2>5. CASE saga' = [saga EXCEPT ![s] = FailedBy(r)]
    <3>. DEFINE r2 == FailedBy(r)
    <3>1. r2 \in SagaState /\ Fits(r2, "live", rev) /\ saga' = [saga EXCEPT ![s] = r2]
      BY <2>2, <2>5
    <3>. HIDE DEF r2
    <3>. QED  BY ONLY <1>2, <2>1, <2>3, <2>3a, <3>1
  <2>. QED  BY <2>1, <2>4, <2>5
<1>8. ASSUME NEW place \in Places, NEW snap \in BOOLEAN,
              saga' = [saga EXCEPT ![s].place = place, ![s].snapshot = snap],
              UNCHANGED <<refundRow, reversal, reversedBy, broadcast, ranked>>,
              event' \in BOOLEAN, listed' \in Nat
       PROVE  CascadeInv'
  <2>. DEFINE r2 == [r EXCEPT !.place = place, !.snapshot = snap]
  <2>1. saga' = [saga EXCEPT ![s] = r2]
    BY <1>8 DEF r
  <2>2. r2 \in SagaState
    BY <1>0 DEF SagaState
  <2>3. Fits(r2, row, rev)
    BY <1>0 DEF SagaState, Fits, Placed, MoneyStands, CommissionStands, Forward
  <2>. HIDE DEF r2
  <2>. QED  BY <2>3, <1>0, <1>3, <1>8, <2>1, <2>2
<1>8a. CASE TakeSnapshot(s)
  BY <1>0, <1>8, <1>8a DEF TakeSnapshot, Places
<1>8b. ASSUME NEW place \in Places, saga' = [saga EXCEPT ![s].place = place],
              UNCHANGED <<refundRow, reversal, reversedBy, broadcast, ranked>>,
              event' \in BOOLEAN, listed' \in Nat
       PROVE  CascadeInv'
  <2>1. r.snapshot \in BOOLEAN
    BY <1>0 DEF SagaState
  <2>2. saga' = [saga EXCEPT ![s].place = place, ![s].snapshot = r.snapshot]
    BY <1>0, <1>8b DEF r, SagaState, CascadeInv, CascadesTyped
  <2>. QED  BY <1>8, <1>8b, <2>1, <2>2
<1>8c. CASE FindEvent(s)
  <2>1. CASE event
    BY <1>0, <1>8b, <1>8c, <2>1 DEF FindEvent, Places
  <2>2. CASE ~event
    <3>1. /\ r.status = "running" /\ r.completed = 1 /\ saga' = [saga EXCEPT ![s] = CompletedBy(r)]
          /\ UNCHANGED <<refundRow, reversal, reversedBy, event, listed, ranked, broadcast>>
      BY <1>0, <1>1, <1>8c, <2>2 DEF FindEvent, At, Running, r
    <3>2. CompletedBy(r) \in SagaState /\ Fits(CompletedBy(r), row, rev)
      BY <1>0, <3>1, SkipFits
    <3>. QED  BY <1>0, <1>3, <3>1, <3>2
  <2>. QED  BY <2>1, <2>2
<1>8d. CASE UnlistEvent(s)
  BY <1>0, <1>8b, <1>8d DEF UnlistEvent, Places
<1>8e. CASE RestoreEvent(s)
  BY <1>0, <1>8b, <1>8e DEF RestoreEvent, Places
<1>9. CASE DeleteEvent(s) \/ EmitRefundEvent(s)
  <2>1. /\ r.status = "running" /\ r.completed \in {1, 3}
        /\ saga' = [saga EXCEPT ![s] = CompletedBy(r)] \/ saga' = [saga EXCEPT ![s] = FailedBy(r)]
        /\ UNCHANGED <<refundRow, reversal, reversedBy>>
    BY <1>0, <1>1, <1>9 DEF DeleteEvent, EmitRefundEvent, At, Running, ReturnsOrIsCutOff, r
  <2>2. event' \in BOOLEAN /\ listed' \in Nat /\ ranked' \in BOOLEAN
    BY <1>0, <1>9 DEF DeleteEvent, EmitRefundEvent
  <2>3. broadcast' \subseteq Sagas
    BY <1>0, <1>9 DEF DeleteEvent, EmitRefundEvent
  <2>4. /\ CompletedBy(r) \in SagaState /\ Fits(CompletedBy(r), row, rev)
        /\ FailedBy(r) \in SagaState /\ Fits(FailedBy(r), row, rev)
    BY <1>0, <2>1, SkipFits, FailureFits
  <2>. QED  BY <1>0, <1>3, <2>1, <2>4, <2>2, <2>3
<1>10. CASE DoReverseCommission(s)
  <2>1. /\ r.status = "running" /\ r.completed = 2 /\ r.linked
        /\ saga' = [saga EXCEPT ![s] = CompletedBy(r)] \/ saga' = [saga EXCEPT ![s] = FailedBy(r)]
        /\ reversal' = [reversal EXCEPT ![s] = "applied"] /\ reversedBy' = s
        /\ UNCHANGED <<refundRow, event, listed, ranked, broadcast>>
    BY <1>0, <1>1, <1>10 DEF DoReverseCommission, Running, ReturnsOrIsCutOff, r
  <2>2. /\ CompletedBy(r) \in SagaState /\ Fits(CompletedBy(r), row, "applied")
        /\ FailedBy(r) \in SagaState /\ Fits(FailedBy(r), row, "applied")
    <3>. DEFINE rev2 == "applied"
    <3>1. /\ row = "live" <=> row = "live" \/ r.completed = 0
          /\ rev2 = "applied" <=> rev = "applied" \/ (r.completed = 2 /\ r.linked)
          /\ r.completed \in 0..3
      BY <2>1
    <3>. HIDE DEF rev2
    <3>2. /\ CompletedBy(r) \in SagaState /\ Fits(CompletedBy(r), row, rev2)
          /\ FailedBy(r) \in SagaState /\ Fits(FailedBy(r), row, rev2)
      BY <1>0, <2>1, <3>1, StepFits
    <3>. QED  BY <3>2 DEF rev2
  <2>3. refundRow' = [refundRow EXCEPT ![s] = row] /\ "applied" \in {"none", "applied", "cancelled"}
        /\ reversedBy' \in Sagas \cup {None}
    BY <1>0, <2>1
  <2>4. event' \in BOOLEAN /\ listed' \in Nat /\ ranked' \in BOOLEAN /\ broadcast' \subseteq Sagas
    BY <1>0, <2>1
  <2>5. row \in {"none", "live", "reversed"}
    BY <1>0
  <2>6. CASE saga' = [saga EXCEPT ![s] = CompletedBy(r)]
    BY ONLY <1>2, <2>1, <2>2, <2>3, <2>6, <2>4, <2>5
  <2>7. CASE saga' = [saga EXCEPT ![s] = FailedBy(r)]
    BY ONLY <1>2, <2>1, <2>2, <2>3, <2>7, <2>4, <2>5
  <2>. QED  BY <2>1, <2>6, <2>7
<1>11. CASE CascadeSucceeds(s)
  <2>0. PICK m \in {r.meta, "succeeded"} :
            saga' = [saga EXCEPT ![s].status = "succeeded", ![s].meta = m]
    BY <1>11 DEF CascadeSucceeds, r
  <2>. DEFINE r2 == [r EXCEPT !.status = "succeeded", !.meta = m]
  <2>1. r.status = "running" /\ r.completed = 4 /\ saga' = [saga EXCEPT ![s] = r2]
    <3>1. saga' = [saga EXCEPT ![s] = r2]
      BY <2>0 DEF r
    <3>2. r.status = "running" /\ r.completed = 4
      BY <1>0, <1>11 DEF CascadeSucceeds, Running, r
    <3>. QED  BY <3>1, <3>2
  <2>2. r2 \in SagaState /\ Fits(r2, row, rev)
    BY <1>0, <2>1 DEF SagaState, Ended, Fits, Placed, MoneyStands, CommissionStands, Forward
  <2>. HIDE DEF r2
  <2>. QED  BY <1>0, <1>3, <1>11, <2>1, <2>2 DEF CascadeSucceeds
<1>12. CASE UndoReverseCommission(s)
  <2>. DEFINE rev2 == IF r.linked THEN "cancelled" ELSE rev
  <2>1. /\ r.status = "compensating" /\ r.undone = 4
        /\ saga' = [saga EXCEPT ![s] = UndoneBy(r)] \/ saga' = [saga EXCEPT ![s] = NotUndoneBy(r)]
        /\ reversal' = [reversal EXCEPT ![s] = rev2] /\ reversedBy' \in Sagas \cup {None}
        /\ UNCHANGED <<refundRow, event, listed, ranked, broadcast>>
    BY <1>0, <1>1, <1>12 DEF UndoReverseCommission, Compensating, CompensatedOrIsCutOff, r
  <2>2. rev2 # "applied" /\ rev2 \in {"none", "applied", "cancelled"}
    BY <1>0 DEF Fits, CommissionStands
  <2>. HIDE DEF rev2
  <2>3. /\ UndoneBy(r) \in SagaState /\ Fits(UndoneBy(r), row, rev2)
        /\ NotUndoneBy(r) \in SagaState /\ Fits(NotUndoneBy(r), row, rev2)
    BY <1>0, <2>1, <2>2, UndoFits
  <2>4. refundRow' = [refundRow EXCEPT ![s] = row]
    BY <1>0, <2>1
  <2>5. event' \in BOOLEAN /\ listed' \in Nat /\ ranked' \in BOOLEAN /\ broadcast' \subseteq Sagas
    BY <1>0, <2>1
  <2>6. row \in {"none", "live", "reversed"}
    BY <1>0
  <2>7. CASE saga' = [saga EXCEPT ![s] = UndoneBy(r)]
    BY ONLY <1>2, <2>1, <2>2, <2>3, <2>4, <2>7, <2>5, <2>6
  <2>8. CASE saga' = [saga EXCEPT ![s] = NotUndoneBy(r)]
    BY ONLY <1>2, <2>1, <2>2, <2>3, <2>4, <2>8, <2>5, <2>6
  <2>. QED  BY <2>1, <2>7, <2>8
<1>13. CASE NothingToRestore(s) \/ RelistEvent(s)
  <2>1. /\ r.status = "compensating" /\ r.undone = 3
        /\ saga' = [saga EXCEPT ![s] = UndoneBy(r)] \/ saga' = [saga EXCEPT ![s] = NotUndoneBy(r)]
        /\ UNCHANGED <<refundRow, reversal, reversedBy, event, ranked, broadcast>>
    BY <1>0, <1>1, <1>13 DEF NothingToRestore, RelistEvent, Compensating, CompensatedOrIsCutOff, r
  <2>2. event' \in BOOLEAN /\ listed' \in Nat /\ ranked' \in BOOLEAN
    BY <1>0, <1>13, <2>1 DEF NothingToRestore, RelistEvent
  <2>3. /\ UndoneBy(r) \in SagaState /\ Fits(UndoneBy(r), row, rev)
        /\ NotUndoneBy(r) \in SagaState /\ Fits(NotUndoneBy(r), row, rev)
    BY <1>0, <2>1, UndoFits
  <2>. QED  BY <1>0, <1>3, <2>1, <2>3, <2>2
<1>14. CASE UndoWalletRefund(s)
  <2>. DEFINE row2 == "reversed"
  <2>1. /\ r.status = "compensating" /\ r.undone = 2
        /\ saga' = [saga EXCEPT ![s] = UndoneBy(r)] \/ saga' = [saga EXCEPT ![s] = NotUndoneBy(r)]
        /\ refundRow' = [refundRow EXCEPT ![s] = row2]
        /\ UNCHANGED <<reversal, reversedBy, event, listed, ranked, broadcast>>
    BY <1>0, <1>1, <1>14 DEF UndoWalletRefund, Compensating, CompensatedOrIsCutOff, r
  <2>2. row2 # "live" /\ row2 \in {"none", "live", "reversed"}
    OBVIOUS
  <2>. HIDE DEF row2
  <2>3. /\ UndoneBy(r) \in SagaState /\ Fits(UndoneBy(r), row2, rev)
        /\ NotUndoneBy(r) \in SagaState /\ Fits(NotUndoneBy(r), row2, rev)
    BY <1>0, <2>1, <2>2, UndoFits
  <2>4. reversal' = [reversal EXCEPT ![s] = rev]
    BY <1>0, <2>1
  <2>5. /\ event' \in BOOLEAN /\ listed' \in Nat /\ ranked' \in BOOLEAN /\ broadcast' \subseteq Sagas
        /\ reversedBy' \in Sagas \cup {None}
    BY <1>0, <2>1
  <2>6. rev \in {"none", "applied", "cancelled"}
    BY <1>0
  <2>7. CASE saga' = [saga EXCEPT ![s] = UndoneBy(r)]
    BY ONLY <1>2, <2>1, <2>2, <2>3, <2>4, <2>7, <2>5, <2>6
  <2>8. CASE saga' = [saga EXCEPT ![s] = NotUndoneBy(r)]
    BY ONLY <1>2, <2>1, <2>2, <2>3, <2>4, <2>8, <2>5, <2>6
  <2>. QED  BY <2>1, <2>7, <2>8
<1>15. CASE CompensationFailsCleanly(s)
  <2>1. /\ r.status = "compensating" /\ r.undone \in 2..5
        /\ saga' = [saga EXCEPT ![s] = NotUndoneBy(r)]
    BY <1>0, <1>1, <1>15 DEF CompensationFailsCleanly, Compensating, CascadeSteps, r
  <2>2. NotUndoneBy(r) \in SagaState /\ Fits(NotUndoneBy(r), row, rev)
    BY <1>0, <2>1, UndoFailureFits
  <2>. QED  BY <1>0, <1>3, <1>15, <2>1, <2>2 DEF CompensationFailsCleanly
<1>16. CASE CascadeRollsBack(s)
  <2>. DEFINE st == IF r.compFailures = {} THEN "failed_rolled_back"
                                           ELSE "failed_compensation_failed"
  <2>0. PICK m \in {r.meta, st} : saga' = [saga EXCEPT ![s].status = st, ![s].meta = m]
    BY <1>16 DEF CascadeRollsBack, OutcomeOf, r
  <2>. DEFINE r2 == [r EXCEPT !.status = st, !.meta = m]
  <2>1. r.status = "compensating" /\ r.undone = 1 /\ saga' = [saga EXCEPT ![s] = r2]
    <3>1. saga' = [saga EXCEPT ![s] = r2]
      BY <2>0 DEF r
    <3>2. r.status = "compensating" /\ r.undone = 1
      BY <1>0, <1>16 DEF CascadeRollsBack, Compensating, r
    <3>. QED  BY <3>1, <3>2
  <2>2. r2 \in SagaState /\ Fits(r2, row, rev)
    <3>1. st \in Ended /\ m \in {"none", "running"} \cup Ended
      BY <1>0, <2>0 DEF SagaState, Ended
    <3>2. /\ st \notin {"idle", "running", "compensating", "succeeded"}
          /\ st = "failed_rolled_back" => r.compFailures = {}
      OBVIOUS
    <3>. HIDE DEF st
    <3>3. r2 \in SagaState
      BY <1>0, <3>1 DEF SagaState
    <3>4. /\ r2.status = st /\ r2.completed = r.completed /\ r2.failed = r.failed
          /\ r2.undone = r.undone /\ r2.compFailures = r.compFailures /\ r2.linked = r.linked
      BY <1>0 DEF SagaState
    <3>. HIDE DEF r2
    <3>5. Fits(r2, row, rev)
      BY <1>0, <2>1, <3>2, <3>4 DEF Fits, Placed, MoneyStands, CommissionStands, Forward
    <3>. QED  BY <3>3, <3>5
  <2>. HIDE DEF r2
  <2>. QED  BY <1>0, <1>3, <1>16, <2>1, <2>2 DEF CascadeRollsBack
<1>17. CASE CascadeDies(s)
  <2>. DEFINE r2 == [r EXCEPT !.alive = FALSE]
  <2>1. saga' = [saga EXCEPT ![s] = r2] /\ r.status # "idle"
    BY <1>17 DEF CascadeDies, r
  <2>2. r2 \in SagaState
    BY <1>0 DEF SagaState
  <2>3. Fits(r2, row, rev)
    BY <1>0, <2>1 DEF SagaState, Fits, Placed, MoneyStands, CommissionStands, Forward
  <2>. HIDE DEF r2
  <2>. QED  BY <2>3, <1>0, <1>3, <1>17, <2>1, <2>2 DEF CascadeDies
<1>. QED
  BY <1>4, <1>5, <1>6, <1>7, <1>8a, <1>8c, <1>8d, <1>8e, <1>9, <1>10, <1>11, <1>12, <1>13, <1>14, <1>15, <1>16, <1>17
     DEF SagaStep

LEMMA CascadeNext ==
  ASSUME CascadeInv, [Next]_vars
  PROVE  CascadeInv'
<1>1. ASSUME UNCHANGED cascadeVars PROVE CascadeInv'
  BY <1>1 DEF cascadeVars, CascadeInv, CascadesTyped, CascadesFit
<1>. QED  BY <1>1, CascadeStep DEF Next, WalletStep, vars
-----------------------------------------------------------------------------
\* What the steps of a cascade do to the rows: two of them move money.
LEMMA CascadeMoney ==
  ASSUME RowsTyped, CascadeInv, NEW s \in Sagas, SagaStep(s)
  PROVE  /\ RowsTyped'
         /\ IsFiniteSet(Charges) /\ BalanceMatchesRows => BalanceMatchesRows'
<1>. DEFINE a == saga[s].amount
<1>0. a \in Nat /\ charge[Target] \in LooseRow /\ Target \in Charges
  BY DEF CascadeInv, CascadesTyped, SagaState, RowsTyped
<1>1. CASE UNCHANGED bookVars
  <2>1. RowsTyped'
    BY <1>1 DEF bookVars, moneyVars, dailyVars, DailyOK, RowsTyped
  <2>. QED  BY <1>1, <2>1, Untouched DEF bookVars, moneyVars
<1>2. ASSUME NEW d \in HandlerDays, DoWalletRefund(s, d)
      PROVE  /\ RowsTyped'
             /\ IsFiniteSet(Charges) /\ BalanceMatchesRows => BalanceMatchesRows'
  <2>1. /\ Refundable(Target) /\ a <= Remaining(Target) /\ d \in Days /\ PayBack(a, d)
        /\ charge' = [charge EXCEPT ![Target] = AfterPartial(@, a)]
    BY <1>2 DEF DoWalletRefund, DisputeRefund, HandlerDays
  <2>. HIDE DEF a
  <2>. QED  BY <1>0, <2>1, RefundRow
<1>3. CASE UndoWalletRefund(s)
  <2>. DEFINE row == UndoneRow(charge[Target], a)
  <2>1. /\ balance' = balance + (-a) /\ charge' = [charge EXCEPT ![Target] = row]
        /\ UNCHANGED <<dailyVars, totalSpent, dailyBudget, funded, today>>
    BY <1>0, <1>3 DEF UndoWalletRefund, UndoRefund, RowsTyped
  <2>2. /\ row \in LooseRow /\ row.status # "none" /\ -a \in Int
        /\ row.amount - row.repaid = (charge[Target].amount - charge[Target].repaid) - (-a)
    BY <1>0 DEF UndoneRow, LooseRow, Statuses
  <2>. HIDE DEF row, a
  <2>3. balance' \in Int
    BY <2>1, <2>2 DEF RowsTyped
  <2>4. RowsTyped'
    BY <1>0, <2>1, <2>2, <2>3, RowReplaced DEF RowsTyped, DailyOK, dailyVars
  <2>5. ASSUME IsFiniteSet(Charges), BalanceMatchesRows PROVE BalanceMatchesRows'
    BY ONLY <1>0, <2>1, <2>2, <2>5, RowsTyped, RowBalances
  <2>. QED  BY <2>4, <2>5
<1>4. \/ UNCHANGED bookVars \/ UndoWalletRefund(s)
      \/ \E d \in HandlerDays : DoWalletRefund(s, d)
  BY DEF SagaStep, Start, FailsCleanly, SkipUnlinked, TakeSnapshot, FindEvent, UnlistEvent,
         DeleteEvent, ScrubSwallowsError, DoReverseCommission, EmitRefundEvent, EmitSwallowsError,
         CascadeSucceeds, UndoReverseCommission, NothingToRestore, RestoreEvent, RelistEvent,
         CompensationFailsCleanly, CascadeRollsBack, CascadeDies
<1>. QED  BY <1>1, <1>2, <1>3, <1>4

LEMMA MoneyInit == Init => RowsTyped /\ (IsFiniteSet(Charges) => BalanceMatchesRows)
<1>. SUFFICES ASSUME Init PROVE RowsTyped /\ (IsFiniteSet(Charges) => BalanceMatchesRows)
  OBVIOUS
<1>1. RowsTyped
  BY DEF Init, BookInit, RowsTyped, DailyOK, LooseRow, NoRow, Statuses, Days
<1>2. ASSUME IsFiniteSet(Charges) PROVE BalanceMatchesRows
  <2>1. ASSUME NEW c \in Charges PROVE HeldBy[c] = 0
    <3>1. charge[c] = NoRow
      BY DEF Init, BookInit
    <3>2. NoRow.amount - NoRow.repaid = 0
      BY DEF NoRow
    <3>. QED  BY <3>1, <3>2 DEF HeldBy
  <2>2. SumFunction(HeldBy) = 0
    BY <1>2, <2>1, SumZero DEF SumFunction, HeldBy
  <2>. QED  BY <2>2 DEF Init, BookInit, BalanceMatchesRows
<1>. QED  BY <1>1, <1>2

LEMMA MoneyNext ==
  ASSUME RowsTyped, CascadeInv, [Next]_vars
  PROVE  /\ RowsTyped'
         /\ MarketplaceCharges = {} /\ IsFiniteSet(Charges) /\ BalanceMatchesRows
              => BalanceMatchesRows'
<1>1. CASE UNCHANGED vars
  <2>1. RowsTyped'
    BY <1>1 DEF vars, bookVars, moneyVars, dailyVars, DailyOK, RowsTyped
  <2>. QED  BY <1>1, <2>1, Untouched DEF vars, bookVars, moneyVars
<1>. QED  BY <1>1, CascadeMoney, WalletMoney DEF Next, WalletStep

(***************************************************************************)
(* Any number of cascades on one charge, compensated or not, among all that*)
(* the wallet does: the balance is what came in minus what charges hold.   *)
(* marketplace_charge, which credits the brand and writes a charge row, is *)
(* left out.                                                               *)
(***************************************************************************)
THEOREM CascadeBalances ==
  ASSUME IsFiniteSet(Charges), MarketplaceCharges = {}
  PROVE  Spec => []BalanceMatchesRows
<1>. DEFINE Inv == RowsTyped /\ CascadeInv /\ BalanceMatchesRows
<1>1. Init => Inv
  BY MoneyInit, CascadeInit
<1>2. Inv /\ [Next]_vars => Inv'
  BY MoneyNext, CascadeNext
<1>. QED  BY <1>1, <1>2, PTL DEF Spec
-----------------------------------------------------------------------------
(***************************************************************************)
(* A compensation takes back only what its own cascade paid: the charge has*)
(* been repaid at least what the live refund rows of the cascades add up   *)
(* to. So the sum of its refund rows never goes below zero, though         *)
(* _undo_wallet_refund looks at nothing.                                   *)
(***************************************************************************)
Paid == [s \in Sagas |-> IF refundRow[s] = "live" THEN saga[s].amount ELSE 0]

Covered == /\ charge[Target].repaid >= SumFunction(Paid)
           /\ \A c \in Charges : charge[c].repaid >= 0

LEMMA PaidTypes ==
  ASSUME CascadeInv
  PROVE  DOMAIN Paid = Sagas /\ \A s \in Sagas : Paid[s] \in Nat /\ saga[s].amount \in Nat
  BY DEF CascadeInv, CascadesTyped, SagaState, Paid

LEMMA PaidSum ==
  ASSUME CascadeInv, IsFiniteSet(Sagas)
  PROVE  SumFunction(Paid) \in Nat
<1>1. DOMAIN Paid = Sagas /\ \A s \in Sagas : Paid[s] \in Nat
  BY PaidTypes
<1>. DEFINE p == Paid
<1>. HIDE DEF p
<1>2. DOMAIN p = Sagas /\ \A s \in Sagas : p[s] \in Nat
  BY <1>1 DEF p
<1>3. SumFunctionOnSet(p, Sagas) \in Nat
  BY <1>2, SumNat
<1>. QED  BY <1>2, <1>3 DEF SumFunction, p

\* One cascade starts or stops counting.
LEMMA PaidMoves ==
  ASSUME CascadeInv, CascadeInv', IsFiniteSet(Sagas), NEW s \in Sagas,
         \A t \in Sagas \ {s} : Paid'[t] = Paid[t]
  PROVE  SumFunction(Paid)' = SumFunction(Paid) - Paid[s] + Paid'[s]
<1>. DEFINE p == Paid
            q == Paid'
<1>1. /\ DOMAIN p = Sagas /\ \A t \in Sagas : p[t] \in Int
      /\ DOMAIN q = Sagas /\ \A t \in Sagas : q[t] \in Int
      /\ \A t \in Sagas \ {s} : q[t] = p[t]
  <2>1. DOMAIN Paid = Sagas /\ \A t \in Sagas : Paid[t] \in Nat
    BY PaidTypes
  <2>2. DOMAIN Paid' = Sagas /\ \A t \in Sagas : Paid'[t] \in Nat
    <3>1. saga' \in [Sagas -> SagaState]
      BY DEF CascadeInv, CascadesTyped
    <3>. QED  BY <3>1 DEF SagaState, Paid
  <2>. QED  BY <2>1, <2>2
<1>2. SumFunction(Paid) = SumFunctionOnSet(p, Sagas)
      /\ SumFunction(Paid)' = SumFunctionOnSet(q, Sagas)
  BY <1>1 DEF SumFunction
<1>. HIDE DEF p, q
<1>3. SumFunctionOnSet(q, Sagas) = SumFunctionOnSet(p, Sagas) - p[s] + q[s]
  BY <1>1, SumChange
<1>. QED  BY <1>2, <1>3 DEF p, q

LEMMA CoveredStep ==
  ASSUME RowsTyped, CascadeInv, Covered, IsFiniteSet(Sagas), [Next]_vars
  PROVE  Covered'
<1>0. CascadeInv' /\ RowsTyped'
  BY CascadeNext, MoneyNext
<1>. DEFINE n == SumFunction(Paid)
            n2 == SumFunction(Paid)'
<1>1. n \in Nat /\ charge[Target].repaid >= n /\ \A c \in Charges : charge[c].repaid >= 0
  BY PaidSum DEF Covered
<1>2. n2 \in Nat
  <2>1. saga' \in [Sagas -> SagaState]
    BY <1>0 DEF CascadeInv, CascadesTyped
  <2>2. DOMAIN Paid' = Sagas /\ \A s \in Sagas : Paid'[s] \in Nat
    BY <2>1 DEF Paid, SagaState
  <2>. DEFINE q == Paid'
  <2>3. n2 = SumFunctionOnSet(q, DOMAIN q)
    BY DEF SumFunction
  <2>4. DOMAIN q = Sagas /\ \A s \in Sagas : q[s] \in Nat
    BY <2>2
  <2>. HIDE DEF q, n2
  <2>. QED  BY <2>3, <2>4, SumNat
<1>3. /\ \A c \in Charges : charge[c].repaid \in Int /\ charge'[c].repaid \in Int
      /\ Target \in Charges
  BY <1>0 DEF RowsTyped, LooseRow
<1>. SUFFICES /\ charge'[Target].repaid >= n2
              /\ \A c \in Charges : charge'[c].repaid >= 0
  BY DEF Covered
<1>4. ASSUME NothingUnpaid, n2 = n
      PROVE  charge'[Target].repaid >= n2 /\ \A c \in Charges : charge'[c].repaid >= 0
  <2>. HIDE DEF n, n2
  <2>1. \A c \in Charges : charge'[c].repaid >= charge[c].repaid
    BY <1>4 DEF NothingUnpaid
  <2>. QED  BY <1>1, <1>3, <1>4, <2>1
<1>5. CASE UNCHANGED <<charge, refundRow>> /\ \A s \in Sagas : Paid'[s] = Paid[s]
  <2>1. NothingUnpaid
    BY <1>3, <1>5 DEF NothingUnpaid
  <2>2. Paid' = Paid
    BY <1>5 DEF Paid
  <2>. QED  BY <1>4, <2>1, <2>2
<1>6. CASE WalletStep
  <2>1. NothingUnpaid
    BY <1>6, WalletMoney DEF WalletStep
  <2>2. Paid' = Paid
    BY <1>6 DEF WalletStep, cascadeVars, Paid
  <2>. QED  BY <1>4, <2>1, <2>2
<1>7. CASE UNCHANGED vars
  <2>1. UNCHANGED <<charge, refundRow>> /\ Paid' = Paid
    BY <1>7 DEF vars, bookVars, moneyVars, cascadeVars, Paid
  <2>. QED  BY <1>5, <2>1
<1>8. ASSUME NEW s \in Sagas, SagaStep(s)
      PROVE  charge'[Target].repaid >= n2 /\ \A c \in Charges : charge'[c].repaid >= 0
  <2>. DEFINE a == saga[s].amount
  <2>0. /\ saga \in [Sagas -> SagaState] /\ Fits(saga[s], refundRow[s], reversal[s])
        /\ refundRow \in [Sagas -> {"none", "live", "reversed"}]
        /\ a \in Nat
    BY DEF CascadeInv, CascadesTyped, CascadesFit, SagaState
  <2>1. ASSUME NEW d \in HandlerDays, DoWalletRefund(s, d)
        PROVE  charge'[Target].repaid >= n2 /\ \A c \in Charges : charge'[c].repaid >= 0
    <3>1. /\ saga[s].status = "running" /\ saga[s].completed = 0
          /\ refundRow' = [refundRow EXCEPT ![s] = "live"]
          /\ charge' = [charge EXCEPT ![Target] = AfterPartial(@, a)]
          /\ Completes(s) \/ Fails(s)
      BY <2>1 DEF DoWalletRefund, DisputeRefund, Running, ReturnsOrIsCutOff
    <3>2. refundRow[s] # "live"
      BY <2>0, <3>1 DEF Fits, MoneyStands, Forward
    <3>3. saga'[s].amount = a /\ \A t \in Sagas \ {s} : saga'[t] = saga[t]
      BY <2>0, <3>1 DEF Completes, Fails, SagaState
    <3>4. /\ \A t \in Sagas \ {s} : Paid'[t] = Paid[t]
          /\ Paid[s] = 0 /\ Paid'[s] = a
      BY <2>0, <3>1, <3>2, <3>3 DEF Paid
    <3>5. n2 = n - Paid[s] + Paid'[s]
      BY <1>0, <3>4, PaidMoves
    <3>6. charge'[Target].repaid = charge[Target].repaid + a
      BY <3>1 DEF RowsTyped, AfterPartial
    <3>7. \A c \in Charges \ {Target} : charge'[c] = charge[c]
      BY <3>1 DEF RowsTyped
    <3>. HIDE DEF n, n2, a
    <3>8. n2 = n + a
      BY <1>1, <2>0, <3>4, <3>5
    <3>9. charge'[Target].repaid >= n2 /\ charge'[Target].repaid >= 0
      BY <1>1, <1>3, <2>0, <3>6, <3>8
    <3>. QED  BY <1>1, <3>7, <3>9
  <2>2. CASE UndoWalletRefund(s)
    <3>1. /\ saga[s].status = "compensating" /\ saga[s].undone = 2
          /\ refundRow' = [refundRow EXCEPT ![s] = "reversed"]
          /\ charge' = [charge EXCEPT ![Target] = UndoneRow(@, a)]
          /\ Compensated(s) \/ CompensationFailed(s)
      BY <2>2 DEF UndoWalletRefund, UndoRefund, Compensating, CompensatedOrIsCutOff
    <3>2. refundRow[s] = "live"
      BY <2>0, <3>1 DEF Fits, MoneyStands, Forward
    <3>3. saga'[s].amount = a /\ \A t \in Sagas \ {s} : saga'[t] = saga[t]
      BY <2>0, <3>1 DEF Compensated, CompensationFailed, SagaState
    <3>4. /\ \A t \in Sagas \ {s} : Paid'[t] = Paid[t]
          /\ Paid[s] = a /\ Paid'[s] = 0
      BY <2>0, <3>1, <3>2, <3>3 DEF Paid
    <3>5. n2 = n - Paid[s] + Paid'[s]
      BY <1>0, <3>4, PaidMoves
    <3>6. charge'[Target].repaid = charge[Target].repaid - a
      BY <3>1 DEF RowsTyped, UndoneRow
    <3>7. \A c \in Charges \ {Target} : charge'[c] = charge[c]
      BY <3>1 DEF RowsTyped
    <3>. HIDE DEF n, n2, a
    <3>8. n2 = n - a
      BY <1>1, <2>0, <3>4, <3>5
    <3>9. charge'[Target].repaid >= n2 /\ charge'[Target].repaid >= 0
      BY <1>1, <1>2, <1>3, <2>0, <3>6, <3>8
    <3>. QED  BY <1>1, <3>7, <3>9
  <2>3. ASSUME NEW b \in Amounts, NEW linked \in BOOLEAN, Start(s, b, linked)
        PROVE  charge'[Target].repaid >= n2 /\ \A c \in Charges : charge'[c].repaid >= 0
    <3>1. /\ saga[s].status = "idle" /\ UNCHANGED <<charge, refundRow>>
          /\ \A t \in Sagas \ {s} : saga'[t] = saga[t]
      BY <2>0, <2>3 DEF Start, bookVars, moneyVars
    <3>2. refundRow[s] # "live"
      BY <2>0, <3>1 DEF Fits, Placed, MoneyStands, Forward
    <3>. QED  BY <1>5, <3>1, <3>2 DEF Paid
  <2>4. CASE /\ UNCHANGED <<charge, refundRow>>
             /\ \A t \in Sagas : saga'[t].amount = saga[t].amount
    <3>1. \A t \in Sagas : Paid'[t] = Paid[t]
      BY <2>4 DEF Paid
    <3>. QED  BY <1>5, <2>4, <3>1
  <2>5. \/ UndoWalletRefund(s)
        \/ \E d \in HandlerDays : DoWalletRefund(s, d)
        \/ \E b \in Amounts, linked \in BOOLEAN : Start(s, b, linked)
        \/ /\ UNCHANGED <<charge, refundRow>>
           /\ \/ Completes(s) \/ Fails(s) \/ Compensated(s) \/ CompensationFailed(s)
              \/ TakeSnapshot(s) \/ FindEvent(s) \/ UnlistEvent(s) \/ RestoreEvent(s)
              \/ CascadeSucceeds(s) \/ CascadeRollsBack(s) \/ CascadeDies(s)
    BY <1>8 DEF SagaStep, FailsCleanly, SkipUnlinked, TakeSnapshot, FindEvent, UnlistEvent,
         DeleteEvent, ScrubSwallowsError, DoReverseCommission, EmitRefundEvent, EmitSwallowsError,
         CascadeSucceeds, bookVars, moneyVars, UndoReverseCommission, NothingToRestore, RestoreEvent,
         RelistEvent, CompensationFailsCleanly, CascadeRollsBack,
         CascadeDies, ReturnsOrIsCutOff, CompensatedOrIsCutOff
  <2>6. ASSUME \/ Completes(s) \/ Fails(s) \/ Compensated(s) \/ CompensationFailed(s)
               \/ TakeSnapshot(s) \/ FindEvent(s) \/ UnlistEvent(s) \/ RestoreEvent(s)
               \/ CascadeSucceeds(s) \/ CascadeRollsBack(s) \/ CascadeDies(s)
        PROVE  \A t \in Sagas : saga'[t].amount = saga[t].amount
    <3>1. \A t \in Sagas \ {s} : saga'[t] = saga[t]
      BY <2>0, <2>6 DEF Completes, Fails, Compensated, CompensationFailed, TakeSnapshot,
                        FindEvent, UnlistEvent, RestoreEvent, CascadeSucceeds, CascadeRollsBack, CascadeDies
    <3>2. saga'[s].amount = saga[s].amount
      BY <2>0, <2>6 DEF Completes, Fails, Compensated, CompensationFailed, TakeSnapshot,
                        FindEvent, UnlistEvent, RestoreEvent, CascadeSucceeds, CascadeRollsBack, CascadeDies, SagaState
    <3>. QED  BY <3>1, <3>2
  <2>. QED  BY <2>1, <2>2, <2>3, <2>4, <2>5, <2>6
<1>. QED  BY <1>6, <1>7, <1>8 DEF Next

LEMMA CoveredInit == ASSUME IsFiniteSet(Sagas), Init PROVE Covered
<1>1. \A c \in Charges : charge[c].repaid = 0
  BY DEF Init, BookInit, NoRow
<1>2. \A s \in Sagas : Paid[s] = 0
  BY DEF Init, Paid
<1>3. SumFunction(Paid) = 0
  BY <1>2, SumZero DEF SumFunction, Paid
<1>. QED  BY <1>1, <1>3 DEF Covered

(***************************************************************************)
(* All rows and cascades keep their types: no order of refunds and         *)
(* compensations takes more back from a charge than was repaid.            *)
(***************************************************************************)
THEOREM CascadeTyped ==
  ASSUME IsFiniteSet(Sagas)
  PROVE  Spec => [](TypeOK /\ Covered)
<1>. DEFINE Inv == RowsTyped /\ CascadeInv /\ Covered
<1>1. Init => Inv
  BY MoneyInit, CascadeInit, CoveredInit
<1>2. Inv /\ [Next]_vars => Inv'
  BY MoneyNext, CascadeNext, CoveredStep
<1>3. Inv => TypeOK /\ Covered
  <2>. SUFFICES ASSUME Inv PROVE BookTypeOK /\ CascadesTyped
    BY DEF TypeOK, CascadesTyped
  <2>1. ASSUME NEW c \in Charges PROVE charge[c] \in ChargeRow
    <3>1. charge[c] \in LooseRow
      BY DEF RowsTyped
    <3>2. charge[c].repaid >= 0
      BY DEF Covered
    <3>. QED  BY <3>1, <3>2 DEF LooseRow, ChargeRow
  <2>. QED  BY <2>1 DEF RowsTyped, DailyOK, BookTypeOK, CascadeInv
<1>. QED  BY <1>1, <1>2, <1>3, PTL DEF Spec
-----------------------------------------------------------------------------
(***************************************************************************)
(* A cascade that is alone on its charge. The conversion says reversed     *)
(* exactly while this cascade's reversal row is applied. The event is gone *)
(* only between this cascade's DEL and its HSET, and off the list only     *)
(* between its LREM and its LPUSH; it kept a snapshot then. What was not   *)
(* restored belongs to a step not compensated yet, to the one that failed  *)
(* or to one whose compensation failed.                                    *)
(***************************************************************************)
Restored == event /\ listed > 0

EventStands(r, found) ==
    ~found => IF Forward(r) THEN ATTRIBUTION <= r.completed + 1
              ELSE \/ ATTRIBUTION < r.undone \/ ATTRIBUTION = r.failed
                   \/ ATTRIBUTION \in r.compFailures

PlaceFits(r, ev, n) == /\ r.place # "start" => r.snapshot
                       /\ ~ev => r.place = "unlisted"
                       /\ n = 0 => r.place \in {"unlisted", "rehashed"}
                       /\ r.place = "unlisted" => n = 0

LoneInv == /\ reversedBy # None <=> reversal[Lone] = "applied"
           /\ PlaceFits(saga[Lone], event, listed)
           /\ EventStands(saga[Lone], Restored)

LEMMA LoneIs == ASSUME NEW s, Sagas = {s} PROVE Lone = s
  BY DEF Lone

LEMMA LoneInit == ASSUME NEW s, Sagas = {s}, Init PROVE LoneInv
  BY LoneIs DEF Init, LoneInv, IdleSaga, PlaceFits, EventStands, Restored

\* The moves of a coordinator leave the place alone, and the event accounted for.
LEMMA EventMovesOn ==
  ASSUME NEW r \in SagaState, NEW found \in BOOLEAN, Placed(r), EventStands(r, found)
  PROVE  /\ r.status = "running" /\ r.completed \in 0..3 =>
              EventStands(CompletedBy(r), found) /\ EventStands(FailedBy(r), found)
         /\ r.status = "compensating" /\ r.undone \in 2..5 =>
              EventStands(NotUndoneBy(r), found)
         /\ r.status = "compensating" /\ r.undone \in 2..5 /\ (r.undone = 3 => found) =>
              EventStands(UndoneBy(r), found)
<1>1. ASSUME r.status = "running", r.completed \in 0..3
      PROVE  EventStands(CompletedBy(r), found) /\ EventStands(FailedBy(r), found)
  BY <1>1 DEF SagaState, Placed, EventStands, Forward, CompletedBy, FailedBy
<1>2. ASSUME r.status = "compensating", r.undone \in 2..5
      PROVE  EventStands(NotUndoneBy(r), found)
  BY <1>2 DEF SagaState, Placed, EventStands, Forward, NotUndoneBy
<1>3. ASSUME r.status = "compensating", r.undone \in 2..5, r.undone = 3 => found
      PROVE  EventStands(UndoneBy(r), found)
  BY <1>3 DEF SagaState, Placed, EventStands, Forward, UndoneBy
<1>. QED  BY <1>1, <1>2, <1>3

LEMMA LoneNext ==
  ASSUME NEW s, Sagas = {s}, CascadeInv, LoneInv, [Next]_vars
  PROVE  LoneInv'
<1>. DEFINE r == saga[s]
<1>0. /\ saga \in [Sagas -> SagaState] /\ reversal \in [Sagas -> {"none", "applied", "cancelled"}]
      /\ r \in SagaState /\ (reversal[s] = "applied" => r.linked) /\ Placed(r)
      /\ Lone = s /\ s \in Sagas /\ s # None /\ event \in BOOLEAN /\ listed \in Nat
      /\ r.completed \in 0..4 /\ r.undone \in 1..5
  BY LoneIs DEF CascadeInv, CascadesTyped, CascadesFit, Fits, CommissionStands, SagaState
<1>1. /\ reversedBy # None <=> reversal[s] = "applied"
      /\ PlaceFits(r, event, listed) /\ EventStands(r, Restored) /\ Restored \in BOOLEAN
  BY <1>0 DEF LoneInv, Restored
<1>. SUFFICES /\ reversedBy' # None <=> reversal'[s] = "applied"
              /\ PlaceFits(saga'[s], event', listed') /\ EventStands(saga'[s], Restored')
  BY <1>0 DEF LoneInv, PlaceFits, EventStands, Forward
<1>2. /\ Completes(s) => saga'[s] = CompletedBy(r)
      /\ Fails(s) => saga'[s] = FailedBy(r)
      /\ Compensated(s) => saga'[s] = UndoneBy(r)
      /\ CompensationFailed(s) => saga'[s] = NotUndoneBy(r)
  BY <1>0 DEF Completes, Fails, Compensated, CompensationFailed, CompletedBy, FailedBy, UndoneBy,
              NotUndoneBy
<1>3. ASSUME NEW x \in {CompletedBy(r), FailedBy(r), UndoneBy(r), NotUndoneBy(r)}
      PROVE  x.place = r.place /\ x.snapshot = r.snapshot
  BY <1>0 DEF SagaState, CompletedBy, FailedBy, UndoneBy, NotUndoneBy
<1>4. ASSUME NEW x, x.place = r.place, x.snapshot = r.snapshot
      PROVE  PlaceFits(x, event, listed)
  BY <1>1, <1>4 DEF PlaceFits
<1>5. ASSUME reversedBy' # None <=> reversal'[s] = "applied", UNCHANGED <<event, listed>>,
             \/ r.status = "running" /\ r.completed \in 0..3 /\ ReturnsOrIsCutOff(s)
             \/ r.status = "compensating" /\ r.undone \in 2..5 /\ CompensationFailed(s)
             \/ r.status = "compensating" /\ r.undone \in {2, 4, 5} /\ Compensated(s)
             \/ r.status = "compensating" /\ r.undone = 3 /\ ~r.snapshot /\ Compensated(s)
      PROVE  /\ reversedBy' # None <=> reversal'[s] = "applied"
             /\ PlaceFits(saga'[s], event', listed') /\ EventStands(saga'[s], Restored')
  <2>. HIDE DEF r
  <2>1. ~r.snapshot => Restored
    BY <1>0, <1>1 DEF PlaceFits, Restored
  <2>2. saga'[s] \in {CompletedBy(r), FailedBy(r), UndoneBy(r), NotUndoneBy(r)}
    BY <1>2, <1>5 DEF ReturnsOrIsCutOff
  <2>3. EventStands(saga'[s], Restored)
    BY <1>0, <1>1, <1>2, <1>5, <2>1, EventMovesOn DEF ReturnsOrIsCutOff
  <2>4. PlaceFits(saga'[s], event, listed)
    BY <1>3, <1>4, <2>2
  <2>5. Restored' = Restored
    BY <1>5 DEF Restored
  <2>. QED  BY <1>5, <2>3, <2>4, <2>5
<1>6. CASE UNCHANGED cascadeVars
  BY <1>1, <1>6 DEF cascadeVars, Restored
<1>7. CASE \/ \E d \in HandlerDays : DoWalletRefund(s, d)
           \/ FailsCleanly(s) \/ SkipUnlinked(s) \/ ScrubSwallowsError(s)
           \/ EmitRefundEvent(s) \/ EmitSwallowsError(s)
  <2>1. /\ r.status = "running" /\ r.completed \in 0..3 /\ ReturnsOrIsCutOff(s)
        /\ UNCHANGED <<event, listed, reversal, reversedBy>>
    BY <1>0, <1>7 DEF DoWalletRefund, FailsCleanly, SkipUnlinked, ScrubSwallowsError,
         EmitRefundEvent, EmitSwallowsError, At, Running, ReturnsOrIsCutOff, CascadeSteps
  <2>. QED  BY <1>1, <1>5, <2>1
<1>8. CASE FindEvent(s)
  <2>1. r.status = "running" /\ r.completed = 1 /\ UNCHANGED <<event, listed, reversal, reversedBy>>
    BY <1>0, <1>8 DEF FindEvent, At, Running
  <2>2. CASE event
    <3>1. r.place = "snapped" /\ saga' = [saga EXCEPT ![s].place = "found"]
      BY <1>8, <2>2 DEF FindEvent, At
    <3>2. /\ saga'[s].place = "found" /\ saga'[s].snapshot = r.snapshot
          /\ saga'[s].completed = r.completed /\ saga'[s].status = r.status
      BY <1>0, <3>1 DEF SagaState
    <3>3. PlaceFits(saga'[s], event', listed') /\ EventStands(saga'[s], Restored')
      BY <1>1, <2>1, <2>2, <3>1, <3>2 DEF PlaceFits, EventStands, Forward
    <3>. QED  BY <1>1, <2>1, <3>3
  <2>3. CASE ~event
    BY <1>1, <1>5, <1>8, <2>1, <2>3 DEF FindEvent, ReturnsOrIsCutOff
  <2>. QED  BY <2>2, <2>3
<1>9. CASE TakeSnapshot(s)
  <2>1. /\ r.status = "running" /\ r.completed = 1 /\ r.place = "start"
        /\ UNCHANGED <<event, listed, reversal, reversedBy>>
        /\ saga' = [saga EXCEPT ![s].place = "snapped", ![s].snapshot = event]
    BY <1>0, <1>9 DEF TakeSnapshot, At, Running
  <2>2. /\ saga'[s].place = "snapped" /\ saga'[s].snapshot = event
        /\ saga'[s].completed = r.completed /\ saga'[s].status = r.status
    BY <1>0, <2>1 DEF SagaState
  <2>3. PlaceFits(saga'[s], event', listed') /\ EventStands(saga'[s], Restored')
    BY <1>1, <2>1, <2>2 DEF PlaceFits, EventStands, Forward
  <2>. QED  BY <1>1, <2>1, <2>3
<1>10. CASE UnlistEvent(s)
  <2>1. /\ r.status = "running" /\ r.completed = 1 /\ r.place = "found"
        /\ UNCHANGED <<event, reversal, reversedBy>> /\ listed' = 0
        /\ saga' = [saga EXCEPT ![s].place = "unlisted"]
    BY <1>0, <1>10 DEF UnlistEvent, At, Running
  <2>2. /\ saga'[s].place = "unlisted" /\ saga'[s].snapshot = r.snapshot
        /\ saga'[s].completed = r.completed /\ saga'[s].status = r.status
    BY <1>0, <2>1 DEF SagaState
  <2>3. PlaceFits(saga'[s], event', listed') /\ EventStands(saga'[s], Restored')
    BY <1>1, <2>1, <2>2 DEF PlaceFits, EventStands, Forward
  <2>. QED  BY <1>1, <2>1, <2>3
<1>11. CASE DeleteEvent(s)
  <2>1. /\ r.status = "running" /\ r.completed = 1 /\ r.place = "unlisted"
        /\ UNCHANGED <<listed, reversal, reversedBy>> /\ ~event' /\ ReturnsOrIsCutOff(s)
    BY <1>0, <1>11 DEF DeleteEvent, At, Running
  <2>2. saga'[s] \in {CompletedBy(r), FailedBy(r)}
    BY <1>2, <2>1 DEF ReturnsOrIsCutOff
  <2>3. saga'[s].place = "unlisted" /\ saga'[s].snapshot = r.snapshot
    BY <1>3, <2>1, <2>2
  <2>4. EventStands(r, FALSE)
    BY <2>1 DEF EventStands, Forward
  <2>. HIDE DEF r
  <2>5. EventStands(saga'[s], FALSE)
    <3>1. FALSE \in BOOLEAN /\ r \in SagaState /\ Placed(r) /\ r.completed \in 0..3
      BY <1>0, <2>1
    <3>2. EventStands(CompletedBy(r), FALSE) /\ EventStands(FailedBy(r), FALSE)
      BY <2>1, <2>4, <3>1, EventMovesOn
    <3>. QED  BY <2>2, <3>2
  <2>6. Restored' = FALSE
    BY <2>1 DEF Restored
  <2>7. PlaceFits(saga'[s], event', listed')
    BY <1>1, <2>1, <2>3 DEF PlaceFits
  <2>. QED  BY <1>1, <2>1, <2>5, <2>6, <2>7
<1>12. CASE DoReverseCommission(s)
  <2>1. /\ r.status = "running" /\ r.completed = 2 /\ ReturnsOrIsCutOff(s)
        /\ reversal'[s] = "applied" /\ reversedBy' = s /\ UNCHANGED <<event, listed>>
    BY <1>0, <1>12 DEF DoReverseCommission, Running
  <2>. QED  BY <1>0, <1>5, <2>1
<1>13. CASE UndoReverseCommission(s)
  <2>1. /\ reversedBy' # None <=> reversal'[s] = "applied"
        /\ r.status = "compensating" /\ r.undone = 4 /\ CompensatedOrIsCutOff(s)
        /\ UNCHANGED <<event, listed>>
    BY <1>0, <1>1, <1>13 DEF UndoReverseCommission, Compensating
  <2>. QED  BY <1>5, <2>1 DEF CompensatedOrIsCutOff
<1>14. CASE NothingToRestore(s) \/ UndoWalletRefund(s) \/ CompensationFailsCleanly(s)
  <2>1. UNCHANGED <<event, listed, reversal, reversedBy>> /\ r.status = "compensating"
    BY <1>14 DEF NothingToRestore, UndoWalletRefund, CompensationFailsCleanly, Compensating
  <2>2. \/ r.undone = 3 /\ ~r.snapshot /\ Compensated(s)
        \/ r.undone = 2 /\ CompensatedOrIsCutOff(s)
        \/ r.undone \in 2..5 /\ CompensationFailed(s)
    BY <1>0, <1>14 DEF NothingToRestore, UndoWalletRefund, CompensationFailsCleanly, Compensating,
                       CascadeSteps
  <2>. QED  BY <1>1, <1>5, <2>1, <2>2 DEF CompensatedOrIsCutOff
<1>15. CASE RestoreEvent(s)
  <2>1. /\ r.status = "compensating" /\ r.undone = 3 /\ r.snapshot
        /\ UNCHANGED <<listed, reversal, reversedBy>> /\ event'
        /\ saga' = [saga EXCEPT ![s].place = "rehashed"]
    BY <1>15 DEF RestoreEvent, Compensating
  <2>2. /\ saga'[s].place = "rehashed" /\ saga'[s].snapshot = r.snapshot
        /\ saga'[s].undone = r.undone /\ saga'[s].status = r.status
    BY <1>0, <2>1 DEF SagaState
  <2>3. PlaceFits(saga'[s], event', listed') /\ EventStands(saga'[s], Restored')
    BY <1>1, <2>1, <2>2 DEF PlaceFits, EventStands, Forward
  <2>. QED  BY <1>1, <2>1, <2>3
<1>16. CASE RelistEvent(s)
  <2>1. /\ r.status = "compensating" /\ r.undone = 3 /\ r.place = "rehashed"
        /\ UNCHANGED <<event, reversal, reversedBy>> /\ listed' = listed + 1
        /\ CompensatedOrIsCutOff(s)
    BY <1>16 DEF RelistEvent, Compensating
  <2>2. event /\ event' /\ listed' > 0 /\ listed' # 0 /\ Restored' = TRUE
    BY <1>0, <1>1, <2>1 DEF PlaceFits, Restored
  <2>3. saga'[s] \in {UndoneBy(r), NotUndoneBy(r)}
    BY <1>2, <2>1 DEF CompensatedOrIsCutOff
  <2>4. saga'[s].place = "rehashed" /\ saga'[s].snapshot = r.snapshot
    BY <1>3, <2>1, <2>3
  <2>5. PlaceFits(saga'[s], event', listed') /\ EventStands(saga'[s], Restored')
    BY <1>1, <2>1, <2>2, <2>4 DEF PlaceFits, EventStands
  <2>. QED  BY <1>1, <2>1, <2>5
<1>17. CASE \/ \E a \in Amounts, linked \in BOOLEAN : Start(s, a, linked)
            \/ CascadeSucceeds(s) \/ CascadeRollsBack(s) \/ CascadeDies(s)
  <2>1. UNCHANGED <<event, listed, reversal, reversedBy>>
    BY <1>17 DEF Start, CascadeSucceeds, CascadeRollsBack, CascadeDies
  <2>2. /\ saga'[s].place = r.place /\ saga'[s].snapshot = r.snapshot
        /\ saga'[s].completed = r.completed /\ saga'[s].undone = r.undone
        /\ saga'[s].failed = r.failed /\ saga'[s].compFailures = r.compFailures
    <3>1. CASE \E a \in Amounts, linked \in BOOLEAN : Start(s, a, linked)
      BY <1>0, <3>1 DEF Start, SagaState
    <3>2. CASE CascadeSucceeds(s)
      BY <1>0, <3>2 DEF CascadeSucceeds, SagaState
    <3>3. CASE CascadeRollsBack(s)
      BY <1>0, <3>3 DEF CascadeRollsBack, SagaState
    <3>4. CASE CascadeDies(s)
      BY <1>0, <3>4 DEF CascadeDies, SagaState
    <3>. QED  BY <1>17, <3>1, <3>2, <3>3, <3>4
  <2>3. saga'[s].status \in {"idle", "running", "succeeded"} <=> Forward(r)
    <3>1. CASE \E a \in Amounts, linked \in BOOLEAN : Start(s, a, linked)
      BY <1>0, <3>1 DEF Start, SagaState, Forward
    <3>2. CASE CascadeSucceeds(s)
      BY <1>0, <3>2 DEF CascadeSucceeds, Running, SagaState, Forward
    <3>3. CASE CascadeRollsBack(s)
      BY <1>0, <3>3 DEF CascadeRollsBack, OutcomeOf, Compensating, SagaState, Forward
    <3>4. CASE CascadeDies(s)
      BY <1>0, <3>4 DEF CascadeDies, SagaState, Forward
    <3>. QED  BY <1>17, <3>1, <3>2, <3>3, <3>4
  <2>4. Restored' = Restored
    BY <2>1 DEF Restored
  <2>5. PlaceFits(saga'[s], event', listed') /\ EventStands(saga'[s], Restored')
    BY <1>1, <2>1, <2>2, <2>3, <2>4 DEF PlaceFits, EventStands, Forward
  <2>. QED  BY <1>1, <2>1, <2>5
<1>18. CASE SagaStep(s)
  BY <1>7, <1>8, <1>9, <1>10, <1>11, <1>12, <1>13, <1>14, <1>15, <1>16, <1>17, <1>18 DEF SagaStep
<1>. QED  BY <1>6, <1>18 DEF Next, WalletStep, vars

\* What readers of either journey find.
Findable == event /\ (ranked \/ listed > 0)

LEMMA EffectsAre ==
  /\ DOMAIN Effects = 1..4 /\ \A i \in 1..4 : Effects[i] \in BOOLEAN
  /\ Effects[1] <=> refundRow[Lone] = "live"
  /\ Effects[2] <=> ~Findable
  /\ Effects[3] <=> reversal[Lone] = "applied"
  /\ Effects[4] <=> Lone \in broadcast
<1>1. \A i \in 1..4 : Effect(i) \in BOOLEAN
  BY DEF Effect
<1>. QED  BY <1>1 DEF Effects, Effect, CascadeSteps, Findable

LEMMA PartnersFollow ==
  ASSUME NEW s, Sagas = {s}, CascadeInv, LoneInv
  PROVE  CommissionFollowsMoney
<1>. DEFINE r == saga[s]
<1>0. /\ r \in SagaState /\ Fits(r, refundRow[s], reversal[s]) /\ Lone = s
      /\ reversedBy # None <=> reversal[s] = "applied"
  BY LoneIs DEF CascadeInv, CascadesTyped, CascadesFit, LoneInv
<1>1. SUFFICES ASSUME r.status \in Ended, r.compFailures = {},
                      r.failed # 0 => ~Effects[r.failed]
               PROVE  reversal[s] = "applied" <=> r.linked /\ refundRow[s] = "live"
  BY <1>0 DEF CommissionFollowsMoney, Status, Coordinator!HonestFailures, Ended
<1>2. CASE Forward(r)
  BY <1>0, <1>1, <1>2 DEF Forward, Ended, Fits, Placed, MoneyStands, CommissionStands
<1>3. CASE ~Forward(r)
  <2>1. r.undone = 1 /\ r.failed \in 1..4
    BY <1>0, <1>1, <1>3 DEF Forward, Ended, Fits, Placed, SagaState
  <2>2. /\ r.failed = 1 => refundRow[s] # "live"
        /\ r.failed = 3 => reversal[s] # "applied"
    BY <1>0, <1>1, EffectsAre
  <2>3. refundRow[s] # "live"
    BY <1>0, <1>1, <1>3, <2>1, <2>2 DEF Fits, MoneyStands
  <2>4. reversal[s] # "applied"
    BY <1>0, <1>1, <1>3, <2>1, <2>2 DEF Fits, CommissionStands
  <2>. QED  BY <2>3, <2>4
<1>. QED  BY <1>2, <1>3

(***************************************************************************)
(* A cascade that is alone on its charge, whatever the wallet does beside  *)
(* it and wherever it is cut off: once it ended and no failure was         *)
(* dishonest, the commission is reversed exactly if the money went back;   *)
(* the list never names an event that is gone; and a rollback that calls   *)
(* itself clean left the event where readers find it, unless it was the    *)
(* scrub that failed.                                                      *)
(***************************************************************************)
THEOREM CascadePartnersAgree ==
  ASSUME NEW s, Sagas = {s}
  PROVE  Spec => []PartnersAgree
<1>. DEFINE Inv == CascadeInv /\ LoneInv
<1>1. Init => Inv
  BY CascadeInit, LoneInit
<1>2. Inv /\ [Next]_vars => Inv'
  BY CascadeNext, LoneNext
<1>3. Inv => PartnersAgree
  <2>. SUFFICES ASSUME Inv PROVE ListNamesWhatExists /\ RollbackFindsEvent
    BY PartnersFollow DEF PartnersAgree
  <2>. DEFINE r == saga[s]
  <2>1. /\ r \in SagaState /\ Placed(r) /\ Lone = s /\ listed \in Nat
        /\ PlaceFits(r, event, listed) /\ EventStands(r, Restored)
    BY LoneIs DEF CascadeInv, CascadesTyped, CascadesFit, Fits, LoneInv
  <2>2. ListNamesWhatExists
    BY <2>1 DEF PlaceFits, ListNamesWhatExists
  <2>3. ASSUME Status = "failed_rolled_back", r.failed # ATTRIBUTION PROVE Restored
    <3>1. r.status = "failed_rolled_back"
      BY <2>1, <2>3 DEF Status
    <3>. QED  BY <2>1, <2>3, <3>1 DEF EventStands, Forward, Placed, SagaState
  <2>. QED  BY <2>1, <2>2, <2>3 DEF RollbackFindsEvent, Restored
<1>. QED  BY <1>1, <1>2, <1>3, PTL DEF Spec
-----------------------------------------------------------------------------
\* What the moves of the cascade are to the coordinator, once one effect is set.
EffectSet(i, e) == Effects' = [Effects EXCEPT ![i] = e]

LEMMA EffectsAfter ==
  /\ DOMAIN Effects' = 1..4 /\ \A i \in 1..4 : Effects'[i] \in BOOLEAN
  /\ Effects'[1] <=> refundRow'[Lone] = "live"
  /\ Effects'[2] <=> ~Findable'
  /\ Effects'[3] <=> reversal'[Lone] = "applied"
  /\ Effects'[4] <=> Lone \in broadcast'
<1>1. \A i \in 1..4 : Effect(i)' \in BOOLEAN
  BY DEF Effect
<1>. QED  BY <1>1 DEF Effects, Effect, CascadeSteps, Findable

LEMMA EffectMoves ==
  ASSUME NEW i \in 1..4, NEW e, Effects'[i] = e,
         \A j \in 1..4 : j # i => Effects'[j] = Effects[j]
  PROVE  EffectSet(i, e)
<1>1. /\ Effects' = [j \in 1..4 |-> Effects'[j]]
      /\ [Effects EXCEPT ![i] = e] = [j \in 1..4 |-> IF j = i THEN e ELSE Effects[j]]
  BY DEF Effects, CascadeSteps
<1>. QED  BY <1>1 DEF EffectSet

LEMMA MoneyMoves ==
  ASSUME NEW e \in BOOLEAN, refundRow'[Lone] = "live" <=> e, UNCHANGED <<event, listed, ranked, reversal, broadcast>>
  PROVE  EffectSet(1, e)
<1>1. Effects'[1] = e /\ \A j \in 1..4 : j # 1 => Effects'[j] = Effects[j]
  BY EffectsAre, EffectsAfter DEF Findable
<1>. QED  BY <1>1, EffectMoves

LEMMA EventMoves ==
  ASSUME NEW e \in BOOLEAN, ~Findable' <=> e, UNCHANGED <<refundRow, reversal, broadcast>>
  PROVE  EffectSet(2, e)
<1>1. Effects'[2] = e /\ \A j \in 1..4 : j # 2 => Effects'[j] = Effects[j]
  BY EffectsAre, EffectsAfter DEF Findable
<1>. QED  BY <1>1, EffectMoves

LEMMA ReversalMoves ==
  ASSUME NEW e \in BOOLEAN, reversal'[Lone] = "applied" <=> e, UNCHANGED <<refundRow, event, listed, ranked, broadcast>>
  PROVE  EffectSet(3, e)
<1>1. Effects'[3] = e /\ \A j \in 1..4 : j # 3 => Effects'[j] = Effects[j]
  BY EffectsAre, EffectsAfter DEF Findable
<1>. QED  BY <1>1, EffectMoves

LEMMA BroadcastMoves ==
  ASSUME NEW e \in BOOLEAN, Lone \in broadcast' <=> e, UNCHANGED <<refundRow, event, listed, ranked, reversal>>
  PROVE  EffectSet(4, e)
<1>1. Effects'[4] = e /\ \A j \in 1..4 : j # 4 => Effects'[j] = Effects[j]
  BY EffectsAre, EffectsAfter DEF Findable
<1>. QED  BY <1>1, EffectMoves

LEMMA EffectsStay ==
  ASSUME NEW i \in 1..4, UNCHANGED <<refundRow, event, listed, ranked, reversal, broadcast>>
  PROVE  Effects[i] \in BOOLEAN /\ EffectSet(i, Effects[i])
<1>1. Effects' = Effects
  BY DEF Effects, Effect
<1>. QED  BY <1>1, EffectsAre, EffectMoves

LEMMA GoesOn ==
  ASSUME NEW r \in SagaState, saga[Lone] = r, r.alive, r.status = "running", r.completed \in 0..3,
         NEW e \in BOOLEAN, EffectSet(r.completed + 1, e), Effects[r.completed + 1] => e,
         \/ saga'[Lone] = CompletedBy(r) /\ (r.completed = 0 => e)
         \/ saga'[Lone] = FailedBy(r)
  PROVE  Coordinator!SagaNext
<1>1. CASE saga'[Lone] = CompletedBy(r) /\ (r.completed = 0 => e)
  <2>1. /\ Status = "running" /\ Status' = "running" /\ saga'[Lone].completed = r.completed + 1
        /\ saga'[Lone].failed = r.failed /\ saga'[Lone].undone = r.undone
        /\ saga'[Lone].compFailures = r.compFailures /\ saga'[Lone].alive = r.alive
        /\ saga'[Lone].meta = r.meta
    BY <1>1 DEF Status, CompletedBy, SagaState
  <2>2. \E done \in BOOLEAN : /\ Effects[r.completed + 1] \/ r.completed + 1 \notin {2, 3, 4} => done
                             /\ Effects' = [Effects EXCEPT ![r.completed + 1] = done]
    <3>. WITNESS e \in BOOLEAN
    <3>. QED  BY <1>1 DEF EffectSet
  <2>3. saga[Lone].alive /\ Coordinator!Current \in Coordinator!Steps
    BY DEF Coordinator!Current, Coordinator!Steps
  <2>4. /\ saga[Lone].completed' = Coordinator!Current
        /\ UNCHANGED <<Status, saga[Lone].meta, saga[Lone].failed, saga[Lone].undone,
                       saga[Lone].compFailures, saga[Lone].alive>>
    BY <2>1 DEF Coordinator!Current
  <2>5. \E done \in BOOLEAN :
            /\ \/ Effects[Coordinator!Current]
               \/ Coordinator!Current \notin {ATTRIBUTION, COMMISSION, BROADCAST}
               => done
            /\ Effects' = [Effects EXCEPT ![Coordinator!Current] = done]
    BY <2>2 DEF Coordinator!Current
  <2>6. Coordinator!StepSucceeds
    BY <2>1, <2>3, <2>4, <2>5 DEF Coordinator!StepSucceeds
  <2>. QED  BY <2>6 DEF Coordinator!SagaNext, Coordinator!Advance
<1>2. CASE saga'[Lone] = FailedBy(r)
  <2>1. /\ Status = "running" /\ Status' = "compensating" /\ saga'[Lone].completed = r.completed
        /\ saga'[Lone].failed = r.completed + 1 /\ saga'[Lone].undone = r.completed + 1
        /\ saga'[Lone].compFailures = r.compFailures /\ saga'[Lone].alive = r.alive
        /\ saga'[Lone].meta = r.meta
    <3>1. /\ saga'[Lone].status = "compensating" /\ saga'[Lone].completed = r.completed
          /\ saga'[Lone].failed = r.completed + 1 /\ saga'[Lone].undone = r.completed + 1
      BY <1>2 DEF FailedBy, SagaState
    <3>2. /\ saga'[Lone].compFailures = r.compFailures /\ saga'[Lone].alive = r.alive
          /\ saga'[Lone].meta = r.meta
      BY <1>2 DEF FailedBy, SagaState
    <3>. QED  BY <3>1, <3>2 DEF Status
  <2>2. \E late \in BOOLEAN :
            Effects' = [Effects EXCEPT ![r.completed + 1] = Effects[r.completed + 1] \/ late]
    <3>1. (Effects[r.completed + 1] \/ e) = e
      BY EffectsAre
    <3>. WITNESS e \in BOOLEAN
    <3>. QED  BY <3>1 DEF EffectSet
  <2>3. saga[Lone].alive /\ Coordinator!Current \in Coordinator!Steps
    BY DEF Coordinator!Current, Coordinator!Steps
  <2>4. /\ saga[Lone].failed' = Coordinator!Current /\ saga[Lone].undone' = Coordinator!Current
        /\ UNCHANGED <<saga[Lone].meta, saga[Lone].completed, saga[Lone].compFailures,
                       saga[Lone].alive>>
    BY <2>1 DEF Coordinator!Current
  <2>5. \E late \in BOOLEAN : Effects' = [Effects EXCEPT ![Coordinator!Current] = @ \/ late]
    BY <2>2 DEF Coordinator!Current
  <2>6. Coordinator!StepFails
    BY <2>1, <2>3, <2>4, <2>5 DEF Coordinator!StepFails
  <2>. QED  BY <2>6 DEF Coordinator!SagaNext, Coordinator!Advance
<1>. QED  BY <1>1, <1>2

LEMMA GoesBack ==
  ASSUME NEW r \in SagaState, saga[Lone] = r, r.alive, r.status = "compensating", r.undone \in 2..5,
         \/ EffectSet(r.undone - 1, FALSE) /\ saga'[Lone] \in {UndoneBy(r), NotUndoneBy(r)}
         \/ EffectSet(r.undone - 1, Effects[r.undone - 1]) /\ saga'[Lone] = NotUndoneBy(r)
  PROVE  Coordinator!SagaNext
<1>. DEFINE i == r.undone - 1
<1>0. i \in 1..4 /\ Effects[i] \in BOOLEAN
  BY EffectsAre
<1>1. CASE EffectSet(i, FALSE) /\ saga'[Lone] = UndoneBy(r)
  <2>1. /\ Status = "compensating" /\ Status' = "compensating"
        /\ saga'[Lone].completed = r.completed /\ saga'[Lone].failed = r.failed
        /\ saga'[Lone].undone = i /\ saga'[Lone].compFailures = r.compFailures
        /\ saga'[Lone].alive = r.alive /\ saga'[Lone].meta = r.meta
    BY <1>1 DEF Status, UndoneBy, SagaState
  <2>2. Coordinator!Compensate
    BY <1>0, <1>1, <2>1 DEF Coordinator!Compensate, Coordinator!Undoing, Coordinator!Steps, EffectSet
  <2>. QED  BY <2>2 DEF Coordinator!SagaNext, Coordinator!Advance
<1>2. CASE saga'[Lone] = NotUndoneBy(r) /\ \E late \in BOOLEAN : EffectSet(i, Effects[i] /\ ~late)
  <2>1. /\ Status = "compensating" /\ Status' = "compensating"
        /\ saga'[Lone].completed = r.completed /\ saga'[Lone].failed = r.failed
        /\ saga'[Lone].undone = i /\ saga'[Lone].compFailures = r.compFailures \cup {i}
        /\ saga'[Lone].alive = r.alive /\ saga'[Lone].meta = r.meta
    BY <1>2 DEF Status, NotUndoneBy, SagaState
  <2>2. Coordinator!CompensationFails
    BY <1>0, <1>2, <2>1, EffectsAre DEF Coordinator!CompensationFails, Coordinator!Undoing, Coordinator!Steps, EffectSet
  <2>. QED  BY <2>2 DEF Coordinator!SagaNext, Coordinator!Advance
<1>3. ASSUME EffectSet(i, FALSE)
      PROVE  \E late \in BOOLEAN : EffectSet(i, Effects[i] /\ ~late)
  <2>1. (Effects[i] /\ ~TRUE) = FALSE
    OBVIOUS
  <2>. QED  BY <1>3, <2>1
<1>4. ASSUME EffectSet(i, Effects[i])
      PROVE  \E late \in BOOLEAN : EffectSet(i, Effects[i] /\ ~late)
  <2>1. (Effects[i] /\ ~FALSE) = Effects[i]
    BY <1>0
  <2>. QED  BY <1>4, <2>1
<1>. QED  BY <1>1, <1>2, <1>3, <1>4

LEMMA SagaMapsNext ==
  ASSUME NEW s, Sagas = {s}, CascadeInv, LoneInv, SagaStep(s)
  PROVE  Coordinator!SagaNext \/ UNCHANGED Coordinator!sagaVars
<1>. DEFINE r == saga[s]
<1>0. /\ saga \in [Sagas -> SagaState] /\ r \in SagaState /\ Fits(r, refundRow[s], reversal[s])
      /\ Lone = s /\ s \in Sagas /\ saga[Lone] = r
      /\ refundRow \in [Sagas -> {"none", "live", "reversed"}]
      /\ reversal \in [Sagas -> {"none", "applied", "cancelled"}]
      /\ PlaceFits(r, event, listed) /\ event \in BOOLEAN /\ listed \in Nat
      /\ ranked \in BOOLEAN /\ r.completed \in 0..4 /\ r.undone \in 1..5
  BY LoneIs DEF CascadeInv, CascadesTyped, CascadesFit, LoneInv, SagaState
<1>1. /\ Completes(s) => saga'[Lone] = CompletedBy(r)
      /\ Fails(s) => saga'[Lone] = FailedBy(r)
      /\ Compensated(s) => saga'[Lone] = UndoneBy(r)
      /\ CompensationFailed(s) => saga'[Lone] = NotUndoneBy(r)
  BY <1>0 DEF Completes, Fails, Compensated, CompensationFailed, CompletedBy, FailedBy, UndoneBy,
              NotUndoneBy
<1>2. CASE TakeSnapshot(s) \/ (FindEvent(s) /\ event)
  <2>1. UNCHANGED <<refundRow, event, listed, ranked, reversal, broadcast>>
    BY <1>2 DEF TakeSnapshot, FindEvent
  <2>2. Effects' = Effects
    BY <2>1 DEF Effects, Effect
  <2>3. /\ saga'[s].completed = r.completed /\ saga'[s].failed = r.failed
        /\ saga'[s].undone = r.undone /\ saga'[s].compFailures = r.compFailures
        /\ saga'[s].alive = r.alive /\ saga'[s].status = r.status /\ saga'[s].meta = r.meta
    <3>1. CASE TakeSnapshot(s)
      BY <1>0, <3>1 DEF TakeSnapshot, SagaState
    <3>2. CASE FindEvent(s) /\ event
      BY <1>0, <3>2 DEF FindEvent, SagaState
    <3>. QED  BY <1>2, <3>1, <3>2
  <2>. QED  BY <1>0, <2>2, <2>3 DEF Coordinator!sagaVars, Status
<1>2a. CASE \E a \in Amounts, linked \in BOOLEAN : Start(s, a, linked)
  <2>1. r.status = "idle" /\ UNCHANGED <<refundRow, event, listed, ranked, reversal, broadcast>>
    BY <1>2a DEF Start
  <2>2. Effects' = Effects
    BY <2>1 DEF Effects, Effect
  <2>3. PICK a \in Amounts, linked \in BOOLEAN, m \in {"none", "running"} :
            saga' = [saga EXCEPT ![s].status = "running", ![s].meta = m,
                                 ![s].amount = a, ![s].linked = linked]
    BY <1>2a DEF Start
  <2>4. /\ saga'[s].completed = r.completed /\ saga'[s].failed = r.failed
        /\ saga'[s].undone = r.undone /\ saga'[s].compFailures = r.compFailures
        /\ saga'[s].alive = r.alive /\ saga'[s].status = "running" /\ saga'[s].meta = m
    BY <1>0, <2>3 DEF SagaState
  <2>5. r.alive /\ r.meta = "none"
    BY <1>0, <2>1 DEF Fits, Placed
  <2>6. Status = "starting" /\ Status' = "running" /\ saga'[Lone].meta \in {saga[Lone].meta, "running"}
    BY <1>0, <2>1, <2>4, <2>5 DEF Status
  <2>7. Coordinator!Begin
    BY <1>0, <2>2, <2>4, <2>5, <2>6 DEF Coordinator!Begin, Coordinator!WriteMeta
  <2>. QED  BY <2>7 DEF Coordinator!SagaNext, Coordinator!Advance
<1>2b. CASE UnlistEvent(s)
  <2>1. /\ r.alive /\ r.status = "running" /\ r.completed = 1
        /\ saga' = [saga EXCEPT ![s].place = "unlisted"] /\ listed' = 0
        /\ UNCHANGED <<refundRow, event, ranked, reversal, broadcast>>
    BY <1>0, <1>2b DEF UnlistEvent, At, Running
  <2>3. /\ saga'[s].completed = r.completed /\ saga'[s].failed = r.failed
        /\ saga'[s].undone = r.undone /\ saga'[s].compFailures = r.compFailures
        /\ saga'[s].alive = r.alive /\ saga'[s].status = r.status /\ saga'[s].meta = r.meta
    BY <1>0, <2>1 DEF SagaState
  <2>4. Status = "running" /\ Status' = "running" /\ Coordinator!Current = 2 /\ 2 \in Coordinator!Steps
    BY <1>0, <2>1, <2>3 DEF Status, Coordinator!Current, Coordinator!Steps
  <2>5. CASE Findable'
    <3>1. ranked /\ event
      BY <2>1, <2>5 DEF Findable
    <3>2. Effects' = Effects
      BY <2>1, <3>1 DEF Effects, Effect
    <3>. QED  BY <1>0, <2>3, <2>4, <3>2 DEF Coordinator!sagaVars
  <2>6. CASE ~Findable'
    <3>1. EffectSet(2, TRUE)
      BY <2>1, <2>6, EventMoves
    <3>2. Effects' = [Effects EXCEPT ![Coordinator!Current] = TRUE]
      BY <2>4, <3>1 DEF EffectSet
    <3>3. Coordinator!StepActs
      BY <1>0, <2>1, <2>3, <2>4, <3>2 DEF Coordinator!StepActs
    <3>. QED  BY <3>3 DEF Coordinator!SagaNext, Coordinator!Advance
  <2>. QED  BY <2>5, <2>6
<1>2c. CASE RestoreEvent(s)
  <2>1. /\ r.alive /\ r.status = "compensating" /\ r.undone = 3 /\ event'
        /\ saga' = [saga EXCEPT ![s].place = "rehashed"]
        /\ UNCHANGED <<refundRow, listed, ranked, reversal, broadcast>>
    BY <1>0, <1>2c DEF RestoreEvent, Compensating
  <2>2. /\ saga'[s].completed = r.completed /\ saga'[s].failed = r.failed
        /\ saga'[s].undone = r.undone /\ saga'[s].compFailures = r.compFailures
        /\ saga'[s].alive = r.alive /\ saga'[s].status = r.status /\ saga'[s].meta = r.meta
    BY <1>0, <2>1 DEF SagaState
  <2>3. /\ Status = "compensating" /\ Status' = "compensating"
        /\ Coordinator!Undoing = 2 /\ 2 \in Coordinator!Steps
    BY <1>0, <2>1, <2>2 DEF Status, Coordinator!Undoing, Coordinator!Steps
  <2>4. CASE Findable'
    <3>1. EffectSet(2, FALSE)
      BY <2>1, <2>4, EventMoves
    <3>2. Effects' = [Effects EXCEPT ![Coordinator!Undoing] = FALSE]
      BY <2>3, <3>1 DEF EffectSet
    <3>3. Coordinator!CompensationActs
      BY <1>0, <2>1, <2>2, <2>3, <3>2 DEF Coordinator!CompensationActs
    <3>. QED  BY <3>3 DEF Coordinator!SagaNext, Coordinator!Advance
  <2>5. CASE ~Findable'
    <3>1. ~ranked /\ ~(listed > 0)
      BY <2>1, <2>5 DEF Findable
    <3>2. Effects' = Effects
      BY <2>1, <3>1 DEF Effects, Effect
    <3>. QED  BY <1>0, <2>2, <2>3, <3>2 DEF Coordinator!sagaVars
  <2>. QED  BY <2>4, <2>5
<1>3. CASE \/ FailsCleanly(s) \/ SkipUnlinked(s) \/ ScrubSwallowsError(s) \/ EmitSwallowsError(s)
           \/ (FindEvent(s) /\ ~event)
  <2>1. /\ r.alive /\ r.status = "running" /\ r.completed \in 0..3
        /\ UNCHANGED <<refundRow, event, listed, ranked, reversal, broadcast>>
        /\ \/ saga'[Lone] = CompletedBy(r) /\ r.completed # 0
           \/ saga'[Lone] = FailedBy(r)
    BY <1>0, <1>1, <1>3 DEF FailsCleanly, SkipUnlinked, ScrubSwallowsError, EmitSwallowsError,
                            FindEvent, At, Running, CascadeSteps
  <2>. DEFINE e == Effects[r.completed + 1]
  <2>2. e \in BOOLEAN /\ EffectSet(r.completed + 1, e) /\ (Effects[r.completed + 1] => e)
    BY <2>1, EffectsStay
  <2>. HIDE DEF e, r
  <2>. QED  BY <1>0, <2>1, <2>2, GoesOn
<1>4. ASSUME Running(s, r.completed + 1), r.completed \in 0..3, EffectSet(r.completed + 1, TRUE),
             ReturnsOrIsCutOff(s)
      PROVE  Coordinator!SagaNext
  <2>1. /\ r.alive /\ r.status = "running" /\ TRUE \in BOOLEAN
        /\ saga'[Lone] = CompletedBy(r) \/ saga'[Lone] = FailedBy(r)
    BY <1>1, <1>4 DEF Running, ReturnsOrIsCutOff
  <2>. HIDE DEF r
  <2>. QED  BY <1>0, <1>4, <2>1, GoesOn
<1>5. CASE \E d \in HandlerDays : DoWalletRefund(s, d)
  <2>1. /\ Running(s, 1) /\ r.completed = 0 /\ ReturnsOrIsCutOff(s) /\ refundRow'[s] = "live"
        /\ UNCHANGED <<event, listed, ranked, reversal, broadcast>>
    BY <1>0, <1>5 DEF DoWalletRefund, Running
  <2>2. EffectSet(1, TRUE)
    BY <1>0, <2>1, MoneyMoves
  <2>. QED  BY <1>4, <2>1, <2>2
<1>6. CASE DeleteEvent(s)
  <2>1. /\ Running(s, 2) /\ r.completed = 1 /\ ReturnsOrIsCutOff(s) /\ ~event'
        /\ UNCHANGED <<refundRow, reversal, broadcast>>
    BY <1>0, <1>6 DEF DeleteEvent, At, Running
  <2>2. EffectSet(2, TRUE)
    <3>1. ~Findable' <=> TRUE
      BY <2>1 DEF Findable
    <3>. QED  BY <2>1, <3>1, EventMoves
  <2>. QED  BY <1>4, <2>1, <2>2
<1>7. CASE DoReverseCommission(s)
  <2>1. /\ Running(s, 3) /\ r.completed = 2 /\ ReturnsOrIsCutOff(s) /\ reversal'[s] = "applied"
        /\ UNCHANGED <<refundRow, event, listed, ranked, broadcast>>
    BY <1>0, <1>7 DEF DoReverseCommission, Running
  <2>2. EffectSet(3, TRUE)
    BY <1>0, <2>1, ReversalMoves
  <2>. QED  BY <1>4, <2>1, <2>2
<1>8. CASE EmitRefundEvent(s)
  <2>1. /\ Running(s, 4) /\ r.completed = 3 /\ ReturnsOrIsCutOff(s) /\ s \in broadcast'
        /\ UNCHANGED <<refundRow, event, listed, ranked, reversal>>
    BY <1>0, <1>8 DEF EmitRefundEvent, Running
  <2>2. EffectSet(4, TRUE)
    BY <1>0, <2>1, BroadcastMoves
  <2>. QED  BY <1>4, <2>1, <2>2
<1>9. ASSUME Compensating(s, r.undone - 1), r.undone \in 2..5, EffectSet(r.undone - 1, FALSE),
             CompensatedOrIsCutOff(s)
      PROVE  Coordinator!SagaNext
  <2>1. /\ r.alive /\ r.status = "compensating" /\ saga'[Lone] \in {UndoneBy(r), NotUndoneBy(r)}
    BY <1>1, <1>9 DEF Compensating, CompensatedOrIsCutOff
  <2>. HIDE DEF r
  <2>. QED  BY <1>0, <1>9, <2>1, GoesBack
<1>10. CASE UndoReverseCommission(s)
  <2>1. /\ Compensating(s, 3) /\ r.undone = 4 /\ CompensatedOrIsCutOff(s)
        /\ UNCHANGED <<refundRow, event, listed, ranked, broadcast>>
    BY <1>0, <1>10 DEF UndoReverseCommission, Compensating
  <2>2. reversal'[s] # "applied"
    BY <1>0, <1>10 DEF UndoReverseCommission, Fits, CommissionStands
  <2>3. EffectSet(3, FALSE)
    BY <1>0, <2>1, <2>2, ReversalMoves
  <2>. QED  BY <1>9, <2>1, <2>3
<1>11. CASE NothingToRestore(s) \/ RelistEvent(s)
  <2>1. /\ Compensating(s, 2) /\ r.undone = 3 /\ CompensatedOrIsCutOff(s)
        /\ UNCHANGED <<refundRow, event, reversal, broadcast>>
    BY <1>0, <1>11 DEF NothingToRestore, RelistEvent, Compensating, CompensatedOrIsCutOff
  <2>2. event' /\ listed' > 0
    BY <1>0, <1>11, <2>1 DEF NothingToRestore, RelistEvent, PlaceFits
  <2>3. EffectSet(2, FALSE)
    <3>1. ~Findable' <=> FALSE
      BY <2>2 DEF Findable
    <3>. QED  BY <2>1, <3>1, EventMoves
  <2>. QED  BY <1>9, <2>1, <2>3
<1>12. CASE UndoWalletRefund(s)
  <2>1. /\ Compensating(s, 1) /\ r.undone = 2 /\ CompensatedOrIsCutOff(s)
        /\ refundRow'[s] # "live" /\ UNCHANGED <<event, listed, ranked, reversal, broadcast>>
    BY <1>0, <1>12 DEF UndoWalletRefund, Compensating
  <2>2. EffectSet(1, FALSE)
    BY <1>0, <2>1, MoneyMoves
  <2>. QED  BY <1>9, <2>1, <2>2
<1>13. CASE CompensationFailsCleanly(s)
  <2>1. /\ r.alive /\ r.status = "compensating" /\ r.undone \in 2..5
        /\ saga'[Lone] = NotUndoneBy(r) /\ UNCHANGED <<refundRow, event, listed, ranked, reversal, broadcast>>
    BY <1>0, <1>1, <1>13 DEF CompensationFailsCleanly, Compensating, CascadeSteps
  <2>2. EffectSet(r.undone - 1, Effects[r.undone - 1])
    BY <2>1, EffectsStay
  <2>. HIDE DEF r
  <2>. QED  BY <1>0, <2>1, <2>2, GoesBack
<1>14. CASE CascadeSucceeds(s) \/ CascadeRollsBack(s) \/ CascadeDies(s)
  <2>1. UNCHANGED <<refundRow, event, listed, ranked, reversal, broadcast>> /\ r.alive
    BY <1>14 DEF CascadeSucceeds, CascadeRollsBack, CascadeDies, Running, Compensating
  <2>2. Effects' = Effects
    BY <2>1 DEF Effects, Effect
  <2>3. /\ saga'[s].completed = r.completed /\ saga'[s].failed = r.failed
        /\ saga'[s].undone = r.undone /\ saga'[s].compFailures = r.compFailures
    BY <1>0, <1>14 DEF CascadeSucceeds, CascadeRollsBack, CascadeDies, SagaState
  <2>4. CASE CascadeSucceeds(s)
    <3>0. r.status = "running" /\ r.completed = 4
      BY <1>0, <2>4 DEF CascadeSucceeds, Running
    <3>1. PICK m \in {r.meta, "succeeded"} :
            saga' = [saga EXCEPT ![s].status = "succeeded", ![s].meta = m]
      BY <2>4 DEF CascadeSucceeds
    <3>2. saga'[s].status = "succeeded" /\ saga'[s].alive = r.alive /\ saga'[s].meta = m
      BY <1>0, <3>1 DEF SagaState
    <3>3. Coordinator!Succeed
      BY <1>0, <2>1, <2>2, <2>3, <3>0, <3>1, <3>2 DEF Coordinator!Succeed, Coordinator!WriteMeta, Status
    <3>. QED  BY <3>3 DEF Coordinator!SagaNext, Coordinator!Advance
  <2>5. CASE CascadeRollsBack(s)
    <3>. DEFINE st == IF r.compFailures = {} THEN "failed_rolled_back"
                                             ELSE "failed_compensation_failed"
    <3>0. r.status = "compensating" /\ r.undone = 1
      BY <1>0, <2>5 DEF CascadeRollsBack, Compensating
    <3>1. PICK m \in {r.meta, st} : saga' = [saga EXCEPT ![s].status = st, ![s].meta = m]
      BY <2>5 DEF CascadeRollsBack, OutcomeOf
    <3>. HIDE DEF st
    <3>2. saga'[s].status = st /\ saga'[s].alive = r.alive /\ saga'[s].meta = m
      BY <1>0, <3>1 DEF SagaState
    <3>3. Status = "compensating" /\ saga[Lone].undone = 1
      BY <1>0, <3>0 DEF Status
    <3>4. st # "idle" /\ st = Coordinator!OutcomeOfRollback
      BY <1>0 DEF st, Coordinator!OutcomeOfRollback
    <3>5. Status' = Coordinator!OutcomeOfRollback
      BY <1>0, <3>2, <3>4 DEF Status
    <3>5a. Coordinator!WriteMeta(Coordinator!OutcomeOfRollback)
      BY <1>0, <3>2, <3>4 DEF Coordinator!WriteMeta
    <3>6. UNCHANGED <<saga[Lone].completed, saga[Lone].failed, saga[Lone].undone,
                      saga[Lone].compFailures, Effects, saga[Lone].alive>>
      BY <1>0, <2>2, <2>3, <3>2
    <3>7. Coordinator!FinishRollback
      BY <1>0, <2>1, <3>3, <3>5, <3>5a, <3>6 DEF Coordinator!FinishRollback
    <3>. QED  BY <3>7 DEF Coordinator!SagaNext, Coordinator!Advance
  <2>6. CASE CascadeDies(s)
    <3>1. /\ r.status \in {"running", "compensating"} /\ saga'[s].alive = FALSE
          /\ saga'[s].status = r.status /\ saga'[s].meta = r.meta
      BY <1>0, <2>6 DEF CascadeDies, SagaState
    <3>2. Coordinator!Crash
      BY <1>0, <2>1, <2>2, <2>3, <3>1 DEF Coordinator!Crash, Coordinator!Finished, Status
    <3>. QED  BY <3>2 DEF Coordinator!SagaNext
  <2>. QED  BY <1>14, <2>4, <2>5, <2>6
<1>. QED
  BY <1>2, <1>2a, <1>2b, <1>2c, <1>3, <1>5, <1>6, <1>7, <1>8, <1>10, <1>11, <1>12, <1>13, <1>14 DEF SagaStep

(***************************************************************************)
(* The lone cascade implements the coordinator: every step of it, with its *)
(* deadlines, swallowed errors, compensations and death, is a step of the  *)
(* abstract saga over four steps of which only the first is essential, or  *)
(* a stutter. So the theorems of the coordinator hold of the cascade.      *)
(***************************************************************************)
THEOREM CascadeIsSaga ==
  ASSUME NEW s, Sagas = {s}
  PROVE  Spec => IsSaga
<1>1. Init => Coordinator!SagaInit
  <2>. SUFFICES ASSUME Init PROVE Coordinator!SagaInit
    OBVIOUS
  <2>1. saga[Lone] = IdleSaga /\ Effects = [i \in 1..4 |-> FALSE]
    <3>1. Lone = s /\ saga[Lone] = IdleSaga /\ refundRow[Lone] = "none" /\ reversal[Lone] = "none"
          /\ event /\ listed = 1 /\ Lone \notin broadcast
      BY LoneIs DEF Init
    <3>2. \A i \in 1..4 : Effects[i] = FALSE
      BY <3>1 DEF Effects, Effect, CascadeSteps
    <3>. QED  BY <3>1, <3>2 DEF Effects, CascadeSteps
  <2>. QED  BY <2>1 DEF Coordinator!SagaInit, Coordinator!Steps, IdleSaga, Status
<1>2. CascadeInv /\ LoneInv /\ [Next]_vars => [Coordinator!SagaNext]_(Coordinator!sagaVars)
  <2>. SUFFICES ASSUME CascadeInv, LoneInv, [Next]_vars
                PROVE  Coordinator!SagaNext \/ UNCHANGED Coordinator!sagaVars
    OBVIOUS
  <2>1. CASE UNCHANGED cascadeVars
    BY <2>1 DEF cascadeVars, Coordinator!sagaVars, Status, Effects, Effect
  <2>2. CASE \E t \in Sagas : SagaStep(t)
    BY <2>2, SagaMapsNext
  <2>. QED  BY <2>1, <2>2 DEF Next, WalletStep, vars
<1>3. CascadeInv /\ LoneInv /\ [Next]_vars => (CascadeInv /\ LoneInv)'
  BY CascadeNext, LoneNext
<1>4. Init => CascadeInv /\ LoneInv
  BY CascadeInit, LoneInit
<1>. QED  BY <1>1, <1>2, <1>3, <1>4, PTL DEF Spec, IsSaga, Coordinator!SagaSpec
=============================================================================
