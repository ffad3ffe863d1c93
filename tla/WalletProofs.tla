---------------------------- MODULE WalletProofs ----------------------------
(***************************************************************************)
(* Proofs about the wallet, for any charges, amounts, caps, requests,      *)
(* references, top-ups and number of days.                                 *)
(*                                                                         *)
(* First the charge book alone. Its three refund paths consult different   *)
(* fields of a charge row: wallet.refund only its status, the two partial  *)
(* paths refunded_amount. That they can never repay more than the charge   *)
(* rests on the row telling the truth (StatusTellsTruth), which is what    *)
(* makes BookInv inductive.                                                *)
(*                                                                         *)
(* Then the disputes desk over that book: its requests interleave freely,  *)
(* and only the charge row is guarded.                                     *)
(*                                                                         *)
(* Last the concurrent requests, which drive the book only through its own *)
(* operations, so that what is proved of the book holds of the wallet; and *)
(* what concerns both: the counters against the rows, the source of each   *)
(* credit, and the replay of an idempotency key.                           *)
(***************************************************************************)
EXTENDS Wallet, Disputes, SumFacts

BookInv == BookTypeOK /\ StatusTellsTruth /\ BalanceAccountsForAll

DailyOK == dailySpent \in [Days -> Int] /\ expiring \subseteq Days /\ lapsed \in Int

USE ChargeBookAssumption

LEMMA AmountsAreInts == \A a \in Amounts : a \in Int
  OBVIOUS

\* What a charge, a whole refund and a partial refund leave in the row.
LEMMA FreshRow ==
  ASSUME NEW a \in Nat \ {0}
  PROVE  Completed(a) \in ChargeRow /\ RowTellsTruth(Completed(a))
  BY DEF Completed, NoRow, ChargeRow, Statuses, RowTellsTruth

LEMMA WholeRefundRow ==
  ASSUME NEW row \in ChargeRow, RowTellsTruth(row), row.status = "completed"
  PROVE  AfterWhole(row) \in ChargeRow /\ RowTellsTruth(AfterWhole(row))
  BY DEF AfterWhole, ChargeRow, Statuses, RowTellsTruth, NoRow

LEMMA PartialRefundRow ==
  ASSUME NEW row \in ChargeRow, RowTellsTruth(row),
         row.status \in {"completed", "disputed", "partially_refunded"},
         NEW a \in Nat \ {0}, a <= row.amount - row.refunded
  PROVE  AfterPartial(row, a) \in ChargeRow /\ RowTellsTruth(AfterPartial(row, a))
  BY DEF ChargeRow, Statuses, RowTellsTruth, AfterPartial, NoRow

LEMMA RestatusedRow ==
  ASSUME NEW row \in ChargeRow, RowTellsTruth(row), NEW st \in {"completed", "disputed"},
         row.status \in {"completed", "disputed"}
  PROVE  WithStatus(row, st) \in ChargeRow /\ RowTellsTruth(WithStatus(row, st))
  BY DEF WithStatus, ChargeRow, Statuses, RowTellsTruth, NoRow

\* The wallet starts consistent.
LEMMA InitBookInv == BookInit => BookInv
  BY DEF BookInit, BookInv, BookTypeOK, Days, NoRow, ChargeRow, Statuses,
         StatusTellsTruth, RowTellsTruth, BalanceAccountsForAll

\* Replacing one sound row by another keeps all rows sound.
LEMMA UpdateRow ==
  ASSUME BookInv, NEW c \in Charges, NEW row \in ChargeRow, RowTellsTruth(row),
         charge' = [charge EXCEPT ![c] = row]
  PROVE  charge' \in [Charges -> ChargeRow] /\ StatusTellsTruth'
  BY DEF BookInv, BookTypeOK, StatusTellsTruth

LEMMA PayBackKeepsMoney ==
  ASSUME BookInv, NEW a \in Nat, NEW d \in Days, PayBack(a, d)
  PROVE  /\ BalanceAccountsForAll'
         /\ balance' \in Int /\ totalSpent' \in Int /\ DailyOK'
         /\ UNCHANGED <<dailyBudget, funded, today>>
  BY DEF BookInv, BookTypeOK, BalanceAccountsForAll, PayBack, DailyOK

LEMMA RowInv == ASSUME BookInv, NEW c \in Charges
                PROVE  charge[c] \in ChargeRow /\ RowTellsTruth(charge[c])
  BY DEF BookInv, BookTypeOK, StatusTellsTruth

\* One step of the book, one case per operation.
LEMMA NextBookInv == BookInv /\ [BookNext]_bookVars => BookInv'
<1> SUFFICES ASSUME BookInv, [BookNext]_bookVars PROVE BookInv'
  OBVIOUS
<1>1. ASSUME NEW c \in Charges, NEW row \in ChargeRow, RowTellsTruth(row),
             charge' = [charge EXCEPT ![c] = row],
             BalanceAccountsForAll',
             balance' \in Int, totalSpent' \in Int, DailyOK',
             funded' \in Nat, dailyBudget' = dailyBudget, today' = today
      PROVE  BookInv'
  <2>1. charge' \in [Charges -> ChargeRow] /\ StatusTellsTruth'
    BY <1>1, UpdateRow
  <2> QED
    BY <1>1, <2>1 DEF BookInv, BookTypeOK, DailyOK
<1>2. ASSUME NEW c \in Charges, NEW a \in Nat, NEW d \in Days, PayBack(a, d),
             NEW row \in ChargeRow, RowTellsTruth(row), charge' = [charge EXCEPT ![c] = row]
      PROVE  BookInv'
  <2>1. /\ BalanceAccountsForAll'
        /\ balance' \in Int /\ totalSpent' \in Int /\ DailyOK'
        /\ UNCHANGED <<dailyBudget, funded, today>>
    BY <1>2, PayBackKeepsMoney
  <2>2. funded' \in Nat
    BY <2>1 DEF BookInv, BookTypeOK
  <2> QED
    BY <1>1, <1>2, <2>1, <2>2
<1>3. CASE UNCHANGED bookVars
  BY <1>3 DEF bookVars, moneyVars, dailyVars, BookInv, BookTypeOK, StatusTellsTruth, BalanceAccountsForAll
<1>4. CASE Midnight
  BY <1>4 DEF Midnight, moneyVars, dailyVars, BookInv, BookTypeOK, Days, StatusTellsTruth,
              BalanceAccountsForAll
<1>5. ASSUME NEW b \in Budgets, SetDailyBudget(b) PROVE BookInv'
  BY <1>5 DEF SetDailyBudget, moneyVars, dailyVars, BookInv, BookTypeOK, StatusTellsTruth,
              BalanceAccountsForAll
<1>6. ASSUME NEW a \in Amounts, Credit(a) PROVE BookInv'
  BY <1>6 DEF Credit, dailyVars, BookInv, BookTypeOK, StatusTellsTruth, BalanceAccountsForAll
<1>15. ASSUME NEW d \in Days, CounterLapses(d) PROVE BookInv'
  BY <1>15 DEF CounterLapses, BookInv, BookTypeOK, StatusTellsTruth, BalanceAccountsForAll
<1>7. ASSUME NEW c \in Charges, Freeze(c) PROVE BookInv'
  <2>1. charge[c] \in ChargeRow /\ RowTellsTruth(charge[c])
    BY RowInv
  <2>2. WithStatus(charge[c], "disputed") \in ChargeRow
        /\ RowTellsTruth(WithStatus(charge[c], "disputed"))
    BY <1>7, <2>1, RestatusedRow DEF Freeze
  <2> QED
    BY <1>1, <1>7, <2>2 DEF Freeze, BookInv, BookTypeOK, BalanceAccountsForAll, DailyOK, dailyVars
<1>8. ASSUME NEW c \in Charges, Unfreeze(c) PROVE BookInv'
  <2>1. charge[c] \in ChargeRow /\ RowTellsTruth(charge[c])
    BY RowInv
  <2>2. WithStatus(charge[c], "completed") \in ChargeRow
        /\ RowTellsTruth(WithStatus(charge[c], "completed"))
    BY <1>8, <2>1, RestatusedRow DEF Unfreeze
  <2> QED
    BY <1>1, <1>8, <2>2 DEF Unfreeze, BookInv, BookTypeOK, BalanceAccountsForAll, DailyOK, dailyVars
<1>9. ASSUME NEW c \in Charges, NEW a \in Amounts, PostMarketplaceCharge(c, a) PROVE BookInv'
  <2>1. Completed(a) \in ChargeRow /\ RowTellsTruth(Completed(a))
    BY FreshRow
  <2>2. /\ BalanceAccountsForAll' /\ balance' \in Int /\ funded' \in Nat
        /\ totalSpent' \in Int /\ DailyOK'
    BY <1>9 DEF PostMarketplaceCharge, BookInv, BookTypeOK, BalanceAccountsForAll, DailyOK, dailyVars
  <2> QED
    BY <1>1, <1>9, <2>1, <2>2 DEF PostMarketplaceCharge
<1>10. ASSUME NEW c \in Charges, NEW a \in Amounts, NEW d \in Days, PostCharge(c, a, d)
       PROVE  BookInv'
  <2>1. Completed(a) \in ChargeRow /\ RowTellsTruth(Completed(a))
    BY FreshRow
  <2>2. BalanceAccountsForAll' /\ balance' \in Int /\ totalSpent' \in Int
        /\ DailyOK'
    BY <1>10 DEF PostCharge, Affordable, BookInv, BookTypeOK, BalanceAccountsForAll, DailyOK
  <2> QED
    BY <1>1, <1>10, <2>1, <2>2 DEF PostCharge, BookInv, BookTypeOK
<1>11. ASSUME NEW c \in Charges, NEW d \in Days, Refund(c, d) PROVE BookInv'
  <2>1. charge[c] \in ChargeRow /\ RowTellsTruth(charge[c])
    BY RowInv
  <2>2. AfterWhole(charge[c]) \in ChargeRow /\ RowTellsTruth(AfterWhole(charge[c]))
    BY <1>11, <2>1, WholeRefundRow DEF Refund
  <2>3. charge[c].amount \in Nat
    BY <2>1 DEF ChargeRow
  <2> QED
    BY <1>2, <1>11, <2>2, <2>3 DEF Refund
<1>12. ASSUME NEW c \in Charges, NEW a \in Nat \ {0}, NEW d \in Days, Refundable(c),
              a <= Remaining(c), PayBack(a, d),
              charge' = [charge EXCEPT ![c] = AfterPartial(@, a)]
       PROVE  BookInv'
  <2>1. charge[c] \in ChargeRow /\ RowTellsTruth(charge[c])
    BY RowInv
  <2>2. AfterPartial(charge[c], a) \in ChargeRow /\ RowTellsTruth(AfterPartial(charge[c], a))
    BY <1>12, <2>1, PartialRefundRow DEF Refundable, Remaining
  <2> QED
    BY <1>2, <1>12, <2>2
<1>13. ASSUME NEW c \in Charges, NEW a \in Amounts, NEW d \in Days, DisputeRefund(c, a, d)
       PROVE  BookInv'
  BY <1>12, <1>13 DEF DisputeRefund
<1>14. ASSUME NEW c \in Charges, NEW a \in Amounts, NEW d \in Days, ReverseCharge(c, a, d)
       PROVE  BookInv'
  <2>1. charge[c] \in ChargeRow
    BY RowInv
  <2>2. ReversalAmount(c, a) \in Nat \ {0} /\ ReversalAmount(c, a) <= Remaining(c)
    BY <1>14, <2>1 DEF ReverseCharge, ReversalAmount, Remaining, ChargeRow
  <2> QED
    BY <1>12, <1>14, <2>2 DEF ReverseCharge
<1> QED
  BY <1>3, <1>4, <1>5, <1>6, <1>7, <1>8, <1>9, <1>10, <1>11, <1>13, <1>14, <1>15
     DEF BookNext, HandlerDays

(***************************************************************************)
(* The money rows stay typed, truthful and balanced for ever.              *)
(***************************************************************************)
THEOREM BookSafe == BookSpec => [](BookTypeOK /\ StatusTellsTruth /\ BalanceAccountsForAll)
<1>1. BookInv /\ [BookNext]_bookVars => BookInv'
  BY NextBookInv
<1>2. BookSpec => []BookInv
  BY InitBookInv, <1>1, PTL DEF BookSpec
<1> QED
  BY <1>2, PTL DEF BookInv

(***************************************************************************)
(* No sequence of refunds, disputes and reversals repays more than the     *)
(* charge took.                                                            *)
(***************************************************************************)
THEOREM NeverRepaidTwice == BookSpec => []RepaidWithinCharge
<1>1. BookInv => RepaidWithinCharge
  <2> SUFFICES ASSUME BookInv, NEW c \in Charges PROVE charge[c].repaid <= charge[c].amount
    BY DEF RepaidWithinCharge
  <2>1. charge[c] \in ChargeRow /\ RowTellsTruth(charge[c])
    BY RowInv
  <2> QED
    BY <2>1 DEF ChargeRow, Statuses, RowTellsTruth, NoRow
<1>2. BookInv /\ [BookNext]_bookVars => BookInv'
  BY NextBookInv
<1> QED
  BY <1>1, <1>2, InitBookInv, PTL DEF BookSpec

(***************************************************************************)
(* Without marketplace rows the book implements the abstract wallet:       *)
(* charges spend money that is there, and each refund gives back part of   *)
(* what its charge still holds.                                            *)
(***************************************************************************)
LEMMA HeldChange ==
  ASSUME BookInv, NEW c \in Charges, NEW row \in ChargeRow,
         charge' = [charge EXCEPT ![c] = row]
  PROVE  HeldBy' = [HeldBy EXCEPT ![c] = row.amount - row.repaid]
  BY DEF BookInv, BookTypeOK, HeldBy

THEOREM BookImplementsFunds ==
  ASSUME MarketplaceCharges = {}
  PROVE  BookSpec => FundsSpec
<1>1. BookInit => Funds!Init
  BY DEF BookInit, Funds!Init, HeldBy, NoRow
<1>2. BookInv /\ [BookNext]_bookVars => [Funds!Next]_Funds!vars
  <2> SUFFICES ASSUME BookInv, [BookNext]_bookVars PROVE [Funds!Next]_Funds!vars
    OBVIOUS
  <2>1. ASSUME NEW c \in Charges, NEW a \in Nat \ {0}, NEW d \in Days, PayBack(a, d),
               NEW row \in ChargeRow, charge' = [charge EXCEPT ![c] = row],
               row.amount - row.repaid = (charge[c].amount - charge[c].repaid) - a,
               a <= charge[c].amount - charge[c].repaid
        PROVE  Funds!Next
    <3>1. HeldBy' = [HeldBy EXCEPT ![c] = HeldBy[c] - a]
      BY <2>1, HeldChange DEF HeldBy
    <3>2. HeldBy[c] = charge[c].amount - charge[c].repaid
      BY DEF HeldBy
    <3>3. charge[c] \in ChargeRow
      BY RowInv
    <3>4. a \in 1..HeldBy[c]
      BY <2>1, <3>2, <3>3 DEF ChargeRow
    <3>5. balance' = balance + a
      BY <2>1 DEF PayBack
    <3> QED
      BY <3>1, <3>4, <3>5 DEF Funds!Next, Funds!GiveBack
  <2>2. ASSUME UNCHANGED <<balance, charge>> PROVE UNCHANGED Funds!vars
    BY <2>2 DEF Funds!vars, HeldBy
  <2>3. CASE UNCHANGED bookVars
    BY <2>2, <2>3 DEF bookVars, moneyVars
  <2>4. CASE \/ Midnight \/ (\E b \in Budgets : SetDailyBudget(b))
            \/ \E d \in Days : CounterLapses(d)
    BY <2>2, <2>4 DEF Midnight, SetDailyBudget, moneyVars, CounterLapses
  <2>5. ASSUME NEW a \in Amounts, Credit(a) PROVE Funds!Next
    <3>1. HeldBy' = HeldBy
      BY <2>5 DEF Credit, HeldBy
    <3> QED
      BY <2>5, <3>1 DEF Credit, Funds!Next, Funds!Fund
  <2>6. ASSUME NEW c \in Charges, Freeze(c) \/ Unfreeze(c) PROVE UNCHANGED Funds!vars
    <3>1. charge[c] \in ChargeRow
      BY RowInv
    <3>2. PICK st \in {"disputed", "completed"} :
              charge' = [charge EXCEPT ![c] = WithStatus(charge[c], st)]
      BY <2>6 DEF Freeze, Unfreeze
    <3>3. /\ WithStatus(charge[c], st) \in ChargeRow
          /\ WithStatus(charge[c], st).amount = charge[c].amount
          /\ WithStatus(charge[c], st).repaid = charge[c].repaid
      BY <3>1 DEF WithStatus, ChargeRow, Statuses
    <3>4. HeldBy' = [HeldBy EXCEPT ![c] = HeldBy[c]]
      BY <3>2, <3>3, HeldChange DEF HeldBy
    <3>5. HeldBy' = HeldBy
      BY <3>4 DEF HeldBy
    <3> QED
      BY <2>6, <3>5 DEF Freeze, Unfreeze, Funds!vars
  <2>7. ASSUME NEW c \in Charges, NEW a \in Amounts, NEW d \in Days, PostCharge(c, a, d)
        PROVE  Funds!Next
    <3>1. Completed(a) \in ChargeRow /\ Completed(a).amount - Completed(a).repaid = a
      BY DEF Completed, ChargeRow, Statuses
    <3>2. charge[c] = NoRow
      BY <2>7, RowInv DEF PostCharge, Exists, RowTellsTruth
    <3>3. HeldBy[c] = 0
      BY <3>2 DEF HeldBy, NoRow
    <3>4. charge' = [charge EXCEPT ![c] = Completed(a)]
      BY <2>7 DEF PostCharge
    <3>5. HeldBy' = [HeldBy EXCEPT ![c] = a]
      BY <3>1, <3>4, HeldChange
    <3>6. a <= balance /\ balance' = balance - a
      BY <2>7 DEF PostCharge, Affordable
    <3> QED
      BY <3>3, <3>5, <3>6 DEF Funds!Next, Funds!Spend
  <2>8. ASSUME NEW c \in Charges, NEW d \in Days, Refund(c, d) PROVE Funds!Next
    <3>1. charge[c] \in ChargeRow /\ RowTellsTruth(charge[c])
      BY RowInv
    <3>2. AfterWhole(charge[c]) \in ChargeRow
      BY <2>8, <3>1, WholeRefundRow DEF Refund
    <3>3. charge[c].amount \in Nat \ {0} /\ charge[c].repaid = 0
      BY <2>8, <3>1 DEF Refund, ChargeRow, RowTellsTruth
    <3>4. AfterWhole(charge[c]).amount - AfterWhole(charge[c]).repaid
            = (charge[c].amount - charge[c].repaid) - charge[c].amount
      BY <3>3 DEF AfterWhole
    <3>5. charge[c].amount <= charge[c].amount - charge[c].repaid
      BY <3>3
    <3>6. PayBack(charge[c].amount, d) /\ charge' = [charge EXCEPT ![c] = AfterWhole(charge[c])]
      BY <2>8 DEF Refund
    <3> QED
      BY <2>1, <3>2, <3>3, <3>4, <3>5, <3>6
  <2>9. ASSUME NEW c \in Charges, NEW a \in Nat \ {0}, NEW d \in Days, Refundable(c),
               a <= Remaining(c), PayBack(a, d),
               charge' = [charge EXCEPT ![c] = AfterPartial(@, a)]
        PROVE  Funds!Next
    <3>1. charge[c] \in ChargeRow /\ RowTellsTruth(charge[c])
      BY RowInv
    <3>2. AfterPartial(charge[c], a) \in ChargeRow
      BY <2>9, <3>1, PartialRefundRow DEF Refundable, Remaining
    <3>3. charge[c].repaid = charge[c].refunded
      BY <2>9, <3>1 DEF Refundable, RowTellsTruth
    <3>4. a <= charge[c].amount - charge[c].repaid
      BY <2>9, <3>3 DEF Remaining
    <3>5. AfterPartial(charge[c], a).amount - AfterPartial(charge[c], a).repaid
            = (charge[c].amount - charge[c].repaid) - a
      BY <3>1 DEF AfterPartial, ChargeRow
    <3> QED
      BY <2>1, <2>9, <3>2, <3>4, <3>5
  <2>10. ASSUME NEW c \in Charges, NEW a \in Amounts, NEW d \in Days, DisputeRefund(c, a, d)
         PROVE  Funds!Next
    BY <2>9, <2>10 DEF DisputeRefund
  <2>11. ASSUME NEW c \in Charges, NEW a \in Amounts, NEW d \in Days, ReverseCharge(c, a, d)
         PROVE  Funds!Next
    <3>1. charge[c] \in ChargeRow
      BY RowInv
    <3>2. ReversalAmount(c, a) \in Nat \ {0} /\ ReversalAmount(c, a) <= Remaining(c)
      BY <2>11, <3>1 DEF ReverseCharge, ReversalAmount, Remaining, ChargeRow
    <3> QED
      BY <2>9, <2>11, <3>2 DEF ReverseCharge
  <2> QED
    BY MarketplaceCharges = {}, <2>3, <2>4, <2>5, <2>6, <2>7, <2>8, <2>10, <2>11
       DEF BookNext, HandlerDays
<1>3. BookInv /\ [BookNext]_bookVars => BookInv'
  BY NextBookInv
<1> QED
  BY <1>1, <1>2, <1>3, InitBookInv, PTL DEF BookSpec, FundsSpec, Funds!Spec
-----------------------------------------------------------------------------
(***************************************************************************)
(* The disputes desk, for any number of requests. A cascade that rolls back*)
(* takes the balance down again but not total_spent, so BookInv does not   *)
(* hold beside it; the rows tell the truth all the same. First, what one   *)
(* operation does to them.                                                 *)
(***************************************************************************)
TrueRows == BookTypeOK /\ StatusTellsTruth

\* A charge that exists stays, with its amount.
RowsKept == \A c \in Charges : Exists(c) => Exists(c)' /\ charge'[c].amount = charge[c].amount

LEMMA TrueRow == ASSUME TrueRows, NEW c \in Charges
                 PROVE  /\ charge[c] \in ChargeRow /\ RowTellsTruth(charge[c])
                        /\ charge[c].repaid \in Nat /\ charge[c].amount \in Nat
                        /\ charge[c].repaid <= charge[c].amount
                        /\ Exists(c) => charge[c].amount > 0
                        /\ ~Exists(c) => charge[c].repaid = 0
<1>1. charge[c] \in ChargeRow /\ RowTellsTruth(charge[c])
  BY DEF TrueRows, BookTypeOK, StatusTellsTruth
<1>. QED  BY <1>1 DEF ChargeRow, Statuses, RowTellsTruth, NoRow, Exists

\* One row takes the place of another.
LEMMA RowReplaced ==
  ASSUME TrueRows, NEW c \in Charges, NEW row \in ChargeRow, RowTellsTruth(row),
         charge' = [charge EXCEPT ![c] = row],
         balance' \in Int, DailyOK', totalSpent' \in Int,
         funded' = funded, dailyBudget' = dailyBudget, today' = today,
         Exists(c) => row.status # "none" /\ row.amount = charge[c].amount
  PROVE  /\ TrueRows' /\ RowsKept
         /\ charge'[c] = row /\ \A x \in Charges \ {c} : charge'[x] = charge[x]
<1>1. charge \in [Charges -> ChargeRow]
  BY DEF TrueRows, BookTypeOK
<1>2. charge'[c] = row /\ \A x \in Charges \ {c} : charge'[x] = charge[x]
  BY <1>1
<1>3. TrueRows'
  BY <1>1, <1>2 DEF TrueRows, BookTypeOK, StatusTellsTruth, DailyOK
<1>. QED  BY <1>2, <1>3 DEF RowsKept, Exists

LEMMA PaidBackTypes ==
  ASSUME TrueRows, NEW a \in Nat, NEW d \in Days, PayBack(a, d)
  PROVE  /\ balance' \in Int /\ totalSpent' \in Int /\ DailyOK'
         /\ funded' = funded /\ dailyBudget' = dailyBudget /\ today' = today
  BY DEF TrueRows, BookTypeOK, PayBack, DailyOK

LEMMA PartlyRepaid ==
  ASSUME TrueRows, NEW c \in Charges, NEW a \in Nat \ {0}, NEW d \in Days,
         Refundable(c), a <= Remaining(c), PayBack(a, d),
         charge' = [charge EXCEPT ![c] = AfterPartial(@, a)]
  PROVE  /\ TrueRows' /\ RowsKept
         /\ charge'[c].repaid = charge[c].repaid + a
         /\ \A x \in Charges \ {c} : charge'[x] = charge[x]
<1>1. charge[c] \in ChargeRow /\ RowTellsTruth(charge[c])
  BY TrueRow
<1>2. AfterPartial(charge[c], a) \in ChargeRow /\ RowTellsTruth(AfterPartial(charge[c], a))
  BY <1>1, PartialRefundRow DEF Refundable, Remaining
<1>3. /\ AfterPartial(charge[c], a).status # "none"
      /\ AfterPartial(charge[c], a).amount = charge[c].amount
      /\ AfterPartial(charge[c], a).repaid = charge[c].repaid + a
  BY DEF AfterPartial
<1>4. charge' = [charge EXCEPT ![c] = AfterPartial(charge[c], a)]
  OBVIOUS
<1>. QED  BY <1>2, <1>3, <1>4, PaidBackTypes, RowReplaced

LEMMA DeskRepays ==
  ASSUME TrueRows, NEW c \in Charges, NEW a \in Nat \ {0}, NEW d \in HandlerDays,
         DisputeRefund(c, a, d)
  PROVE  /\ TrueRows' /\ RowsKept
         /\ charge'[c].repaid = charge[c].repaid + a
         /\ \A x \in Charges \ {c} : charge'[x] = charge[x]
  BY PartlyRepaid DEF DisputeRefund, HandlerDays

\* A refund that is undone was the whole of it.
LEMMA DeskUnpays ==
  ASSUME TrueRows, NEW c \in Charges, NEW a, a = charge[c].amount, a <= charge[c].repaid,
         Exists(c), UndoRefund(c, a)
  PROVE  /\ TrueRows' /\ RowsKept
         /\ charge'[c].repaid = charge[c].repaid - a
         /\ \A x \in Charges \ {c} : charge'[x] = charge[x]
<1>1. /\ charge[c] \in ChargeRow /\ a \in Nat \ {0} /\ charge[c].repaid = a
      /\ charge[c].repaid - a = 0
  BY TrueRow
<1>2. UndoneRow(charge[c], a) \in ChargeRow /\ RowTellsTruth(UndoneRow(charge[c], a))
  BY <1>1 DEF UndoneRow, ChargeRow, Statuses, RowTellsTruth
<1>3. /\ UndoneRow(charge[c], a).status # "none"
      /\ UndoneRow(charge[c], a).amount = charge[c].amount
      /\ UndoneRow(charge[c], a).repaid = charge[c].repaid - a
  BY DEF UndoneRow
<1>4. charge' = [charge EXCEPT ![c] = UndoneRow(charge[c], a)]
  BY DEF UndoRefund
<1>5. /\ balance' \in Int /\ totalSpent' \in Int /\ DailyOK'
      /\ funded' = funded /\ dailyBudget' = dailyBudget /\ today' = today
  BY <1>1 DEF UndoRefund, TrueRows, BookTypeOK, DailyOK, dailyVars
<1>. QED  BY <1>2, <1>3, <1>4, <1>5, RowReplaced

LEMMA Restatused ==
  ASSUME TrueRows, NEW c \in Charges, Freeze(c) \/ Unfreeze(c)
  PROVE  /\ TrueRows' /\ RowsKept
         /\ \A x \in Charges : charge'[x].repaid = charge[x].repaid
<1>1. charge[c] \in ChargeRow /\ RowTellsTruth(charge[c])
      /\ charge[c].status \in {"completed", "disputed"}
  BY TrueRow DEF Freeze, Unfreeze
<1>2. PICK st \in {"disputed", "completed"} :
         charge' = [charge EXCEPT ![c] = WithStatus(charge[c], st)]
  BY DEF Freeze, Unfreeze
<1>3. WithStatus(charge[c], st) \in ChargeRow /\ RowTellsTruth(WithStatus(charge[c], st))
  BY <1>1, RestatusedRow
<1>4. /\ WithStatus(charge[c], st).status # "none"
      /\ WithStatus(charge[c], st).amount = charge[c].amount
      /\ WithStatus(charge[c], st).repaid = charge[c].repaid
  BY DEF WithStatus
<1>5. /\ balance' \in Int /\ totalSpent' \in Int /\ DailyOK'
      /\ funded' = funded /\ dailyBudget' = dailyBudget /\ today' = today
  BY DEF Freeze, Unfreeze, TrueRows, BookTypeOK, DailyOK, dailyVars
<1>6. /\ TrueRows' /\ RowsKept
      /\ charge'[c] = WithStatus(charge[c], st)
      /\ \A x \in Charges \ {c} : charge'[x] = charge[x]
  BY <1>2, <1>3, <1>4, <1>5, RowReplaced
<1>. QED  BY <1>4, <1>6

LEMMA BookUnchanged ==
  ASSUME TrueRows, UNCHANGED bookVars
  PROVE  TrueRows' /\ RowsKept /\ \A x \in Charges : charge'[x].repaid = charge[x].repaid
  BY DEF TrueRows, BookTypeOK, StatusTellsTruth, bookVars, moneyVars, dailyVars, RowsKept, Exists

\* What goes on elsewhere in the wallet only adds to what was repaid.
LEMMA WalletOnlyRepays ==
  ASSUME TrueRows, WalletGoesOn
  PROVE  TrueRows' /\ RowsKept /\ \A x \in Charges : charge'[x].repaid >= charge[x].repaid
<1>. USE DEF HandlerDays
<1>1. ASSUME NEW a \in Amounts, Credit(a)
      PROVE  TrueRows' /\ RowsKept /\ \A x \in Charges : charge'[x].repaid >= charge[x].repaid
  <2>1. TrueRows' /\ charge' = charge
    BY <1>1 DEF Credit, dailyVars, TrueRows, BookTypeOK, StatusTellsTruth
  <2>. QED  BY <2>1, TrueRow DEF RowsKept, Exists
<1>2. ASSUME NEW c \in Charges, NEW d \in Days, Refund(c, d)
      PROVE  TrueRows' /\ RowsKept /\ \A x \in Charges : charge'[x].repaid >= charge[x].repaid
  <2>1. charge[c] \in ChargeRow /\ RowTellsTruth(charge[c]) /\ charge[c].amount \in Nat
    BY TrueRow
  <2>2. AfterWhole(charge[c]) \in ChargeRow /\ RowTellsTruth(AfterWhole(charge[c]))
    BY <1>2, <2>1, WholeRefundRow DEF Refund
  <2>3. /\ AfterWhole(charge[c]).status # "none"
        /\ AfterWhole(charge[c]).amount = charge[c].amount
        /\ AfterWhole(charge[c]).repaid = charge[c].repaid + charge[c].amount
    BY DEF AfterWhole
  <2>4. charge' = [charge EXCEPT ![c] = AfterWhole(charge[c])] /\ PayBack(charge[c].amount, d)
    BY <1>2 DEF Refund
  <2>5. /\ TrueRows' /\ RowsKept /\ charge'[c] = AfterWhole(charge[c])
        /\ \A x \in Charges \ {c} : charge'[x] = charge[x]
    BY <2>1, <2>2, <2>3, <2>4, PaidBackTypes, RowReplaced
  <2>. QED  BY <2>3, <2>5, TrueRow
<1>3. ASSUME NEW c \in Charges, NEW a \in Amounts, NEW d \in Days, PostCharge(c, a, d)
      PROVE  TrueRows' /\ RowsKept /\ \A x \in Charges : charge'[x].repaid >= charge[x].repaid
  <2>1. Completed(a) \in ChargeRow /\ RowTellsTruth(Completed(a)) /\ Completed(a).repaid = 0
    BY FreshRow DEF Completed
  <2>2. /\ balance' \in Int /\ totalSpent' \in Int /\ DailyOK'
        /\ funded' = funded /\ dailyBudget' = dailyBudget /\ today' = today
        /\ charge' = [charge EXCEPT ![c] = Completed(a)] /\ ~Exists(c)
    BY <1>3 DEF PostCharge, TrueRows, BookTypeOK, DailyOK
  <2>3. /\ TrueRows' /\ RowsKept /\ charge'[c] = Completed(a)
        /\ \A x \in Charges \ {c} : charge'[x] = charge[x]
    BY <2>1, <2>2, RowReplaced
  <2>. QED  BY <2>1, <2>2, <2>3, TrueRow
<1>4. ASSUME NEW c \in Charges, NEW a \in Amounts, NEW d \in Days, ReverseCharge(c, a, d)
      PROVE  TrueRows' /\ RowsKept /\ \A x \in Charges : charge'[x].repaid >= charge[x].repaid
  <2>1. ReversalAmount(c, a) \in Nat \ {0} /\ ReversalAmount(c, a) <= Remaining(c)
    BY <1>4, TrueRow DEF ReverseCharge, ReversalAmount, Remaining, ChargeRow
  <2>2. /\ TrueRows' /\ RowsKept
        /\ charge'[c].repaid = charge[c].repaid + ReversalAmount(c, a)
        /\ \A x \in Charges \ {c} : charge'[x] = charge[x]
    BY <1>4, <2>1, PartlyRepaid DEF ReverseCharge
  <2>. QED  BY <2>1, <2>2, TrueRow
<1>. QED  BY <1>1, <1>2, <1>3, <1>4 DEF WalletGoesOn

(***************************************************************************)
(* Then the records and the requests. A request acts on what it read when  *)
(* it arrived, so CaseInv says what of that stays true: the dispute is     *)
(* still on record, on the same charge, and what would be refunded in full *)
(* is what the charge took. PaidInv is why no two requests claim the same  *)
(* refund: each refund has paid, in the charge row, before the record says *)
(* so, and until then the money stands to the account of the request.      *)
(***************************************************************************)
\* The stages at which a request has a recorded dispute before it.
Filing  == {"recorded", "listed", "queued", "indexed", "counted"}
HasCase == Filing \cup ResolverStages

\* A dispute that is on record names a charge and the sum it took.
DisputeOK(row) ==
    IF row.status = "none" THEN row = NoDispute
    ELSE /\ row.charge \in Charges /\ Exists(row.charge)
         /\ row.amount = charge[row.charge].amount
         /\ row.status = "resolved_refund_full" => row.refund = charge[row.charge].amount

\* What a request has in its local variables: a full refund is of all the charge took.
HandlerOK(h, r) ==
    /\ h.at \in {"idle", "checked", "frozen"} => dispute[r] = NoDispute
    /\ h.at \notin {"idle", "done"} =>
          h.case \in Handlers /\ h.charge \in Charges /\ Exists(h.charge)
    /\ h.at \in OpenerStages => h.kind = "open" /\ h.case = r
    /\ h.at \in {"looked", "refunding", "refunded", "rejected"} => h.kind # "open"
    /\ h.at \in Filing \cup {"frozen", "settled"} /\ h.kind = "open" =>
          h.cents = charge[h.charge].amount
    /\ h.at \in {"looked", "refunding", "settled"} /\ h.kind = "refund_full" =>
          h.cents = charge[h.charge].amount
    /\ h.at = "refunding" => h.kind = "refund_full"
    /\ h.at = "refunded" => h.kind = "refund_partial"
    /\ h.at = "rejected" => h.kind = "reject"
    /\ h.at = "settled" => h.kind \in {"open", "refund_full", "refund_partial", "withdraw"}
    /\ h.kind \in {"reject", "withdraw", "comment"} => h.cents = 0
    /\ h.at \in {"looked", "refunding", "refunded"} /\ h.kind = "refund_partial" => h.cents > 0
    /\ h.at \in HasCase => IsRecorded(h.case) /\ dispute[h.case].charge = h.charge

CaseInv == /\ \A d \in Handlers : DisputeOK(dispute[d])
           /\ \A r \in Handlers : HandlerOK(handler[r], r)

\* What a record claims was refunded on a charge, and what a request has paid out on it and
\* not put on record yet: together no more than what the rows have repaid.
Claims(d, c) == IF dispute[d].charge = c THEN dispute[d].refund ELSE 0
Pays(r, c)   == IF handler[r].at \in {"refunding", "refunded", "settled"} /\ handler[r].charge = c
                THEN handler[r].cents ELSE 0
Paying(c)    == SumFunctionOnSet([r \in Handlers |-> Pays(r, c)], Handlers)
PaidInv      == \A c \in Charges : ClaimedOn(c) + Paying(c) <= charge[c].repaid

HistoryOK == overlapped \in BOOLEAN /\ missed \subseteq Handlers

DeskTypes == /\ dispute \in [Handlers -> DisputeRow]
             /\ byCharge \in [Charges -> Handlers \cup {NoOne}]
             /\ pending \subseteq Handlers
             /\ totalOpen \in Int /\ totalResolved \in Int
             /\ handler \in [Handlers -> HandlerState]
             /\ HistoryOK

DeskInv == TrueRows /\ DeskTypes /\ CaseInv /\ PaidInv

USE DisputesAssumption

LEMMA DeskTyped == DeskInv => DeskTypeOK
  BY DEF DeskInv, TrueRows, DeskTypes, DeskTypeOK, HistoryOK

LEMMA ClaimsType ==
  ASSUME DeskTypes, NEW c
  PROVE  /\ \A d \in Handlers : Claims(d, c) \in Nat /\ Pays(d, c) \in Nat
         /\ ClaimedOn(c) \in Nat /\ Paying(c) \in Nat
<1>1. \A d \in Handlers : Claims(d, c) \in Nat /\ Pays(d, c) \in Nat
  BY DEF DeskTypes, DisputeRow, HandlerState, Claims, Pays
<1>2. ClaimedOn(c) \in Nat
  <2>. DEFINE f == [d \in Handlers |-> Claims(d, c)]
  <2>1. \A d \in Handlers : f[d] \in Nat
    BY <1>1
  <2>2. ClaimedOn(c) = SumFunctionOnSet(f, Handlers)
    BY DEF ClaimedOn, Claims
  <2>. HIDE DEF f
  <2>. QED  BY <2>1, <2>2, SumNat
<1>3. Paying(c) \in Nat
  <2>. DEFINE f == [d \in Handlers |-> Pays(d, c)]
  <2>1. \A d \in Handlers : f[d] \in Nat
    BY <1>1
  <2>2. Paying(c) = SumFunctionOnSet(f, Handlers)
    BY DEF Paying
  <2>. HIDE DEF f
  <2>. QED  BY <2>1, <2>2, SumNat
<1>. QED  BY <1>1, <1>2, <1>3

\* One row and one request change: the sums move by what they claim and pay.
LEMMA ClaimsChange ==
  ASSUME DeskTypes, DeskTypes', NEW d \in Handlers, NEW c,
         \A x \in Handlers \ {d} : dispute'[x] = dispute[x]
  PROVE  ClaimedOn(c)' = ClaimedOn(c) - Claims(d, c) + Claims(d, c)'
<1>. DEFINE f == [x \in Handlers |-> Claims(x, c)]
            g == [x \in Handlers |-> Claims(x, c)']
<1>1. ClaimedOn(c) = SumFunctionOnSet(f, Handlers)
      /\ ClaimedOn(c)' = SumFunctionOnSet(g, Handlers)
  BY DEF ClaimedOn, Claims
<1>2. \A x \in Handlers : f[x] \in Int /\ g[x] \in Int
  BY DEF DeskTypes, DisputeRow, Claims
<1>3. \A x \in Handlers \ {d} : g[x] = f[x]
  BY DEF Claims
<1>4. f[d] = Claims(d, c) /\ g[d] = Claims(d, c)'
  OBVIOUS
<1>. HIDE DEF f, g
<1>. QED  BY <1>1, <1>2, <1>3, <1>4, SumChange

LEMMA PayingChanges ==
  ASSUME DeskTypes, DeskTypes', NEW r \in Handlers, NEW c,
         \A x \in Handlers \ {r} : handler'[x] = handler[x]
  PROVE  Paying(c)' = Paying(c) - Pays(r, c) + Pays(r, c)'
<1>. DEFINE f == [x \in Handlers |-> Pays(x, c)]
            g == [x \in Handlers |-> Pays(x, c)']
<1>1. Paying(c) = SumFunctionOnSet(f, Handlers)
      /\ Paying(c)' = SumFunctionOnSet(g, Handlers)
  BY DEF Paying
<1>2. \A x \in Handlers : f[x] \in Int /\ g[x] \in Int
  BY DEF DeskTypes, HandlerState, Pays
<1>3. \A x \in Handlers \ {r} : g[x] = f[x]
  BY DEF Pays
<1>4. f[r] = Pays(r, c) /\ g[r] = Pays(r, c)'
  OBVIOUS
<1>. HIDE DEF f, g
<1>. QED  BY <1>1, <1>2, <1>3, <1>4, SumChange

\* A step of request r that touches at most the record d.
LEMMA Stepped ==
  ASSUME DeskInv, TrueRows', DeskTypes', RowsKept, NEW r \in Handlers, NEW d \in Handlers,
         \A x \in Handlers \ {r} : handler'[x] = handler[x],
         \A x \in Handlers \ {d} : dispute'[x] = dispute[x],
         DisputeOK(dispute[d])', HandlerOK(handler[r], r)',
         IsRecorded(d) => IsRecorded(d)' /\ dispute'[d].charge = dispute[d].charge,
         d # r => IsRecorded(d),
         \A c \in Charges : Claims(d, c)' + Pays(r, c)' - Claims(d, c) - Pays(r, c)
                               <= charge'[c].repaid - charge[c].repaid
  PROVE  DeskInv'
<1>1. CaseInv'
  <2>1. \A x \in Handlers : DisputeOK(dispute[x]) => DisputeOK(dispute[x])'
    <3>1. SUFFICES ASSUME NEW x \in Handlers \ {d}, DisputeOK(dispute[x])
                   PROVE  DisputeOK(dispute[x])'
      OBVIOUS
    <3>2. dispute'[x] = dispute[x]
      OBVIOUS
    <3>. QED  BY <3>1, <3>2 DEF DisputeOK, RowsKept
  <2>2. ASSUME NEW x \in Handlers \ {r} PROVE HandlerOK(handler[x], x)'
    <3>. PICK h : h = handler[x]
      OBVIOUS
    <3>1. handler'[x] = h /\ HandlerOK(h, x)
      BY DEF DeskInv, CaseInv
    <3>2. HandlerOK(h, x)'
      <4>1. dispute[x] = NoDispute => dispute'[x] = NoDispute
        BY DEF IsRecorded, NoDispute
      <4>2. \A y \in Handlers : IsRecorded(y) =>
                IsRecorded(y)' /\ dispute'[y].charge = dispute[y].charge
        BY DEF IsRecorded
      <4>3. \A c \in Charges : Exists(c) => Exists(c)' /\ charge'[c].amount = charge[c].amount
        BY DEF RowsKept
      <4>. QED  BY <3>1, <4>1, <4>2, <4>3 DEF HandlerOK, HasCase, Filing, OpenerStages, ResolverStages
    <3>. QED  BY <3>1, <3>2
  <2>. QED  BY <2>1, <2>2 DEF DeskInv, CaseInv
<1>2. PaidInv'
  <2>. SUFFICES ASSUME NEW c \in Charges PROVE (ClaimedOn(c) + Paying(c) <= charge[c].repaid)'
    BY DEF PaidInv
  <2>1. ClaimedOn(c)' = ClaimedOn(c) - Claims(d, c) + Claims(d, c)'
        /\ Paying(c)' = Paying(c) - Pays(r, c) + Pays(r, c)'
    BY ClaimsChange, PayingChanges DEF DeskInv
  <2>2. /\ ClaimedOn(c) \in Nat /\ Paying(c) \in Nat
        /\ Claims(d, c) \in Nat /\ Pays(r, c) \in Nat
    BY ClaimsType DEF DeskInv
  <2>3. Claims(d, c)' \in Nat /\ Pays(r, c)' \in Nat
    BY DEF DeskTypes, DisputeRow, HandlerState, Claims, Pays
  <2>4. charge[c].repaid \in Nat /\ charge'[c].repaid \in Nat
    BY TrueRow DEF DeskInv, TrueRows, BookTypeOK, ChargeRow
  <2>5. ClaimedOn(c) + Paying(c) <= charge[c].repaid
    BY DEF DeskInv, PaidInv
  <2>. QED  BY <2>1, <2>2, <2>3, <2>4, <2>5
<1>. QED  BY <1>1, <1>2 DEF DeskInv

\* A request goes from one stage to another, and keeps its variables.
LEMMA Went ==
  ASSUME DeskTypes, NEW r \in Handlers, NEW st \in HandlerStages, HandlerGoto(r, st)
  PROVE  /\ handler' \in [Handlers -> HandlerState]
         /\ \A x \in Handlers \ {r} : handler'[x] = handler[x]
         /\ handler'[r].at = st /\ handler'[r].kind = handler[r].kind
         /\ handler'[r].case = handler[r].case /\ handler'[r].charge = handler[r].charge
         /\ handler'[r].cents = handler[r].cents
<1>1. handler \in [Handlers -> HandlerState] /\ handler' = [handler EXCEPT ![r].at = st]
  BY DEF DeskTypes, HandlerGoto
<1>. QED  BY <1>1 DEF HandlerState

LEMMA Known ==
  ASSUME DeskInv, NEW r \in Handlers
  PROVE  /\ HandlerOK(handler[r], r) /\ handler[r] \in HandlerState
         /\ handler[r].at \notin {"idle", "done"} =>
               /\ OnCharge(r) \in Charges /\ Exists(OnCharge(r)) /\ Case(r) \in Handlers
               /\ charge[OnCharge(r)].amount \in Nat \ {0}
         /\ handler[r].cents \in Nat
<1>1. HandlerOK(handler[r], r) /\ handler[r] \in HandlerState
  BY DEF DeskInv, CaseInv, DeskTypes
<1>2. handler[r].at \notin {"idle", "done"} =>
         OnCharge(r) \in Charges /\ Exists(OnCharge(r)) /\ Case(r) \in Handlers
  BY <1>1 DEF HandlerOK, OnCharge, Case
<1>3. handler[r].cents \in Nat
  BY <1>1 DEF HandlerState
<1>. QED  BY <1>1, <1>2, <1>3, TrueRow DEF DeskInv

\* A step of request r that touches no record.
LEMMA Moved ==
  ASSUME DeskInv, TrueRows', RowsKept, NEW r \in Handlers,
         handler' \in [Handlers -> HandlerState],
         \A x \in Handlers \ {r} : handler'[x] = handler[x],
         dispute' = dispute, HandlerOK(handler[r], r)',
         byCharge' \in [Charges -> Handlers \cup {NoOne}], pending' \subseteq Handlers,
         totalOpen' \in Int, totalResolved' \in Int, HistoryOK',
         \A c \in Charges : Pays(r, c)' - Pays(r, c) <= charge'[c].repaid - charge[c].repaid
  PROVE  DeskInv'
<1>1. DeskTypes'
  BY DEF DeskInv, DeskTypes
<1>2. DisputeOK(dispute[r])'
  <2>1. DisputeOK(dispute[r])
    BY DEF DeskInv, CaseInv
  <2>. QED  BY <2>1 DEF DisputeOK, RowsKept
<1>3. \A c \in Charges : Claims(r, c) \in Nat /\ Claims(r, c)' = Claims(r, c)
                         /\ Pays(r, c) \in Nat /\ Pays(r, c)' \in Nat
                         /\ charge[c].repaid \in Nat /\ charge'[c].repaid \in Nat
  BY <1>1, ClaimsType, TrueRow
     DEF DeskInv, Claims, Pays, DeskTypes, HandlerState, TrueRows, BookTypeOK, ChargeRow
<1>4. \A c \in Charges : Claims(r, c)' + Pays(r, c)' - Claims(r, c) - Pays(r, c)
                            <= charge'[c].repaid - charge[c].repaid
  BY <1>3
<1>. QED  BY <1>1, <1>2, <1>4, Stepped DEF IsRecorded

\* What a step that neither pays nor records needs.
LEMMA PaysSame ==
  ASSUME DeskInv, TrueRows', NEW r \in Handlers, handler'[r] \in HandlerState,
         \A c \in Charges : charge'[c].repaid = charge[c].repaid,
         handler'[r].at \in {"refunding", "refunded", "settled"} =>
            handler[r].at \in {"refunding", "refunded", "settled"} \/ handler'[r].cents = 0,
         handler[r].at \in {"refunding", "refunded", "settled"} =>
            handler'[r].charge = handler[r].charge /\ handler'[r].cents = handler[r].cents
  PROVE  \A c \in Charges : Pays(r, c)' - Pays(r, c) <= charge'[c].repaid - charge[c].repaid
<1>1. handler[r].cents \in Nat /\ handler'[r].cents \in Nat
  BY Known DEF HandlerState
<1>2. \A c \in Charges : charge[c].repaid \in Nat
  BY TrueRow DEF DeskInv
<1>. QED  BY <1>1, <1>2 DEF Pays

LEMMA OpenKeeps == ASSUME DeskInv, NEW r \in Handlers, NEW c \in Charges, Exists(c), Open(r, c)
                   PROVE  DeskInv'
<1>. DEFINE h == [at |-> IF byCharge[c] = NoOne THEN "checked" ELSE "done",
                  kind |-> "open", case |-> r, charge |-> c, cents |-> 0]
<1>1. /\ handler[r].at = "idle" /\ handler' = [handler EXCEPT ![r] = h]
      /\ UNCHANGED bookVars /\ dispute' = dispute /\ byCharge' = byCharge
      /\ pending' = pending /\ totalOpen' = totalOpen /\ totalResolved' = totalResolved
      /\ HistoryOK'
  BY DEF Open, Arrives, HandlerAt, deskVars, HistoryOK, DeskInv, DeskTypes
<1>2. TrueRows' /\ RowsKept /\ \A x \in Charges : charge'[x].repaid = charge[x].repaid
  BY <1>1, BookUnchanged DEF DeskInv
<1>3. h \in HandlerState
  BY DEF HandlerState, HandlerStages, OpenerStages, ResolverStages, Kinds
<1>4. /\ handler' \in [Handlers -> HandlerState] /\ handler'[r] = h
      /\ \A x \in Handlers \ {r} : handler'[x] = handler[x]
  BY <1>1, <1>3 DEF DeskInv, DeskTypes
<1>5. dispute[r] = NoDispute
  BY <1>1, Known DEF HandlerOK
<1>6. HandlerOK(handler[r], r)'
  <2>. PICK g : g = h
    OBVIOUS
  <2>1. g.at \in {"checked", "done"} /\ g.kind = "open" /\ g.case = r /\ g.charge = c
    OBVIOUS
  <2>2. Exists(c)' /\ dispute'[r] = NoDispute
    BY <1>1, <1>2, <1>5 DEF RowsKept
  <2>3. HandlerOK(g, r)'
    BY <2>1, <2>2 DEF HandlerOK, HasCase, Filing, OpenerStages, ResolverStages
  <2>. QED  BY <1>4, <2>3
<1>7. \A x \in Charges : Pays(r, x)' - Pays(r, x) <= charge'[x].repaid - charge[x].repaid
  BY <1>1, <1>2, <1>3, <1>4, PaysSame
<1>. QED  BY <1>1, <1>2, <1>4, <1>6, <1>7, Moved DEF DeskInv, DeskTypes

LEMMA LookKeeps ==
  ASSUME DeskInv, NEW r \in Handlers, NEW d \in Handlers, NEW kind \in Kinds \ {"open"},
         NEW cents \in Amounts, Look(r, d, kind, cents)
  PROVE  DeskInv'
<1>. DEFINE h == [at |-> IF WantsToAct(d, kind, cents) THEN "looked" ELSE "done",
                  kind |-> kind, case |-> d, charge |-> dispute[d].charge,
                  cents |-> IF kind = "refund_partial" THEN cents
                            ELSE IF kind = "refund_full" THEN dispute[d].amount ELSE 0]
<1>1. /\ handler[r].at = "idle" /\ handler' = [handler EXCEPT ![r] = h]
      /\ UNCHANGED bookVars /\ dispute' = dispute /\ byCharge' = byCharge
      /\ pending' = pending /\ totalOpen' = totalOpen /\ totalResolved' = totalResolved
      /\ HistoryOK' /\ IsRecorded(d)
  BY DEF Look, Arrives, HandlerAt, deskVars, IsListed, HistoryOK, DeskInv, DeskTypes
<1>2. TrueRows' /\ RowsKept /\ \A x \in Charges : charge'[x].repaid = charge[x].repaid
  BY <1>1, BookUnchanged DEF DeskInv
<1>3. h \in HandlerState
  BY DEF HandlerState, HandlerStages, OpenerStages, ResolverStages, Kinds, DeskInv, DeskTypes, DisputeRow
<1>4. /\ handler' \in [Handlers -> HandlerState] /\ handler'[r] = h
      /\ \A x \in Handlers \ {r} : handler'[x] = handler[x]
  BY <1>1, <1>3 DEF DeskInv, DeskTypes
<1>5. /\ dispute[d].charge \in Charges /\ Exists(dispute[d].charge)
      /\ dispute[d].amount = charge[dispute[d].charge].amount
  BY <1>1 DEF DeskInv, CaseInv, DisputeOK, IsRecorded
<1>6. HandlerOK(handler[r], r)'
  <2>. PICK g : g = h
    OBVIOUS
  <2>1. /\ g.at \in {"looked", "done"} /\ g.kind = kind /\ g.case = d
        /\ g.charge = dispute[d].charge
        /\ kind = "refund_full" => g.cents = dispute[d].amount
        /\ kind = "refund_partial" => g.cents > 0
        /\ kind \notin {"refund_full", "refund_partial"} => g.cents = 0
    OBVIOUS
  <2>2. charge'[dispute[d].charge].amount = dispute[d].amount /\ Exists(dispute[d].charge)'
    BY <1>1, <1>2, <1>5 DEF RowsKept
  <2>3. HandlerOK(g, r)'
    BY <1>1, <1>5, <2>1, <2>2 DEF HandlerOK, HasCase, Filing, OpenerStages, ResolverStages, IsRecorded
  <2>. QED  BY <1>4, <2>3
<1>7. \A x \in Charges : Pays(r, x)' - Pays(r, x) <= charge'[x].repaid - charge[x].repaid
  BY <1>1, <1>2, <1>3, <1>4, PaysSame
<1>. QED  BY <1>1, <1>2, <1>4, <1>6, <1>7, Moved DEF DeskInv, DeskTypes

\* A request goes on: nothing is put on record, and its payments follow the rows.
LEMMA GoesOn ==
  ASSUME DeskInv, TrueRows', RowsKept, NEW r \in Handlers, NEW st \in HandlerStages,
         HandlerGoto(r, st), dispute' = dispute,
         handler[r].at \notin {"idle", "done"},
         HandlerOK([handler[r] EXCEPT !.at = st], r),
         byCharge' \in [Charges -> Handlers \cup {NoOne}], pending' \subseteq Handlers,
         totalOpen' \in Int, totalResolved' \in Int, HistoryOK',
         \A c \in Charges : Pays(r, c)' - Pays(r, c) <= charge'[c].repaid - charge[c].repaid
  PROVE  DeskInv'
<1>1. /\ handler' \in [Handlers -> HandlerState]
      /\ \A x \in Handlers \ {r} : handler'[x] = handler[x]
      /\ handler'[r] = [handler[r] EXCEPT !.at = st]
  <2>1. handler \in [Handlers -> HandlerState]
    BY DEF DeskInv, DeskTypes
  <2>. QED  BY <2>1, Went DEF DeskInv, HandlerGoto
<1>2. HandlerOK(handler[r], r)'
  <2>. PICK g : g = [handler[r] EXCEPT !.at = st]
    OBVIOUS
  <2>1. HandlerOK(g, r)
    OBVIOUS
  <2>2. \A c \in Charges : Exists(c) => Exists(c)' /\ charge'[c].amount = charge[c].amount
    BY DEF RowsKept
  <2>3. \A y : IsRecorded(y)' <=> IsRecorded(y)
    BY DEF IsRecorded
  <2>4. HandlerOK(g, r)'
    BY <2>1, <2>2, <2>3 DEF HandlerOK, HasCase, Filing, OpenerStages, ResolverStages
  <2>. QED  BY <1>1, <2>4
<1>. QED  BY <1>1, <1>2, Moved DEF DeskInv, DeskTypes

\* The new stage asks for no more than the old one gave.
LEMMA Allowed ==
  ASSUME DeskInv, NEW r \in Handlers, NEW st \in HandlerStages,
         \/ st = "done"
         \/ handler[r].at = "recorded" /\ st = "listed"
         \/ handler[r].at = "listed" /\ st = "queued"
         \/ handler[r].at = "queued" /\ st = "indexed"
         \/ handler[r].at = "indexed" /\ st = "counted"
         \/ handler[r].at = "counted" /\ st = "settled"
         \/ handler[r].at = "resolved" /\ st = "dequeued"
         \/ handler[r].at = "dequeued" /\ st = "uncounted"
         \/ handler[r].at = "uncounted" /\ handler[r].kind = "reject" /\ st = "rejected"
         \/ handler[r].at = "uncounted" /\ st = "closing"
         \/ handler[r].at = "looked" /\ handler[r].kind = "refund_full" /\ st = "refunding"
         \/ handler[r].at = "looked" /\ handler[r].kind = "refund_partial" /\ st = "refunded"
         \/ handler[r].at = "looked" /\ handler[r].kind = "withdraw" /\ st = "settled"
         \/ handler[r].at \in {"refunding", "refunded"} /\ st = "settled"
         \/ handler[r].at = "rejected" /\ st = "closing"
  PROVE  HandlerOK([handler[r] EXCEPT !.at = st], r)
<1>. PICK g : g = handler[r]
  OBVIOUS
<1>1. HandlerOK(g, r) /\ g \in HandlerState
  BY Known
<1>. PICK h : h = [g EXCEPT !.at = st]
  OBVIOUS
<1>2. h.at = st /\ h.kind = g.kind /\ h.case = g.case /\ h.charge = g.charge /\ h.cents = g.cents
  BY <1>1 DEF HandlerState
<1>3. HandlerOK(h, r)
  BY <1>1, <1>2 DEF HandlerOK, HasCase, Filing, OpenerStages, ResolverStages
<1>. QED  BY <1>3

\* The steps that write only the desk's index, queue or counters.
LEMMA DeskWritesKeep ==
  ASSUME DeskInv, NEW r \in Handlers, HistoryOK',
         Queue(r) \/ Index(r) \/ Count(r) \/ Dequeue(r) \/ CountNoLongerOpen(r)
         \/ CountResolved(r) \/ Close(r)
  PROVE  DeskInv'
<1>. DEFINE StageAllows(st) ==
               \/ handler[r].at = "listed" /\ st = "queued"
               \/ handler[r].at = "queued" /\ st = "indexed"
               \/ handler[r].at = "indexed" /\ st = "counted"
               \/ handler[r].at = "resolved" /\ st = "dequeued"
               \/ handler[r].at = "dequeued" /\ st = "uncounted"
               \/ handler[r].at = "uncounted" /\ handler[r].kind = "reject" /\ st = "rejected"
               \/ handler[r].at = "uncounted" /\ st = "closing"
               \/ handler[r].at = "closing" /\ st = "done"
<1>1. PICK st \in HandlerStages : HandlerGoto(r, st) /\ StageAllows(st)
  <2>. USE DEF HandlerAt, HandlerStages, OpenerStages, ResolverStages
  <2>1. CASE Queue(r) \/ Index(r) \/ Count(r)
    BY <2>1 DEF Queue, Index, Count
  <2>2. CASE Dequeue(r) \/ CountNoLongerOpen(r)
    BY <2>2 DEF Dequeue, CountNoLongerOpen
  <2>3. CASE CountResolved(r)
    <3>1. HandlerAt(r, "uncounted")
          /\ HandlerGoto(r, IF handler[r].kind = "reject" THEN "rejected" ELSE "closing")
      BY <2>3 DEF CountResolved
    <3>2. CASE handler[r].kind = "reject"
      BY <3>1, <3>2
    <3>3. CASE handler[r].kind # "reject"
      BY <3>1, <3>3
    <3>. QED  BY <3>2, <3>3
  <2>4. CASE Close(r)
    BY <2>4 DEF Close
  <2>. QED  BY <2>1, <2>2, <2>3, <2>4
<1>2. UNCHANGED bookVars /\ dispute' = dispute
  BY DEF Queue, Index, Count, Dequeue, CountNoLongerOpen, CountResolved, Close
<1>3. TrueRows' /\ RowsKept /\ \A x \in Charges : charge'[x].repaid = charge[x].repaid
  BY <1>2, BookUnchanged DEF DeskInv
<1>4. \A c \in Charges : Pays(r, c)' - Pays(r, c) <= charge'[c].repaid - charge[c].repaid
  BY <1>1, <1>3, PaysSame, Went DEF DeskInv
<1>5. byCharge' \in [Charges -> Handlers \cup {NoOne}] /\ pending' \subseteq Handlers
      /\ totalOpen' \in Int /\ totalResolved' \in Int
  <2>1. /\ byCharge \in [Charges -> Handlers \cup {NoOne}] /\ pending \subseteq Handlers
        /\ totalOpen \in Int /\ totalResolved \in Int
    BY DEF DeskInv, DeskTypes
  <2>2. totalOpen' \in Int /\ totalResolved' \in Int
    BY <2>1 DEF Queue, Index, Count, Dequeue, CountNoLongerOpen, CountResolved, Close
  <2>3. byCharge' \in [Charges -> Handlers \cup {NoOne}] /\ pending' \subseteq Handlers
    BY <2>1 DEF Queue, Index, Count, Dequeue, CountNoLongerOpen, CountResolved, Close
  <2>. QED  BY <2>2, <2>3
<1>6. HandlerOK([handler[r] EXCEPT !.at = st], r)
  BY <1>1, Allowed
<1>. QED  BY <1>1, <1>2, <1>3, <1>4, <1>5, <1>6, GoesOn

\* The steps that leave the desk's own keys alone, the rows' sums too.
LEMMA QuietKeeps ==
  ASSUME DeskInv, NEW r \in Handlers, NEW st \in HandlerStages, HandlerGoto(r, st),
         handler[r].at \notin {"idle", "done"},
         HandlerOK([handler[r] EXCEPT !.at = st], r),
         UNCHANGED deskVars, HistoryOK',
         TrueRows', RowsKept, \A x \in Charges : charge'[x].repaid = charge[x].repaid,
         st \in {"refunding", "refunded", "settled"} =>
            handler[r].at \in {"refunding", "refunded", "settled"} \/ handler[r].cents = 0
  PROVE  DeskInv'
<1>1. \A c \in Charges : Pays(r, c)' - Pays(r, c) <= charge'[c].repaid - charge[c].repaid
  BY PaysSame, Went DEF DeskInv
<1>2. /\ byCharge' \in [Charges -> Handlers \cup {NoOne}] /\ pending' \subseteq Handlers
      /\ totalOpen' \in Int /\ totalResolved' \in Int /\ dispute' = dispute
  BY DEF DeskInv, DeskTypes, deskVars
<1>. QED  BY <1>1, <1>2, GoesOn

LEMMA QuietStepsKeep ==
  ASSUME DeskInv, NEW r \in Handlers, HistoryOK',
         List(r) \/ LeaveToAdmin(r) \/ CascadeSucceeds(r) \/ RefundRefused(r)
         \/ UnfreezeBefore(r) \/ UnfreezeAfter(r)
  PROVE  DeskInv'
<1>. USE DEF HandlerAt, HandlerStages, OpenerStages, ResolverStages
<1>1. ASSUME UNCHANGED bookVars
      PROVE  TrueRows' /\ RowsKept /\ \A x \in Charges : charge'[x].repaid = charge[x].repaid
  BY <1>1, BookUnchanged DEF DeskInv
<1>2. CASE List(r) \/ LeaveToAdmin(r)
  BY <1>1, <1>2, Allowed, QuietKeeps DEF List, LeaveToAdmin
<1>3. CASE CascadeSucceeds(r)
  BY <1>1, <1>3, Allowed, QuietKeeps DEF CascadeSucceeds
<1>4. CASE RefundRefused(r)
  BY <1>1, <1>4, Allowed, QuietKeeps DEF RefundRefused, Acts
<1>5. ASSUME handler[r].at \notin {"idle", "done"}, UnfreezeIfFrozen(OnCharge(r))
      PROVE  TrueRows' /\ RowsKept /\ \A x \in Charges : charge'[x].repaid = charge[x].repaid
  BY <1>1, <1>5, Known, Restatused DEF UnfreezeIfFrozen, DeskInv
<1>6. CASE UnfreezeBefore(r)
  <2>1. /\ \/ handler[r].at = "refunded"
           \/ handler[r].at = "looked" /\ handler[r].kind = "withdraw" /\ handler[r].cents = 0
        /\ UnfreezeIfFrozen(OnCharge(r)) /\ HandlerGoto(r, "settled") /\ UNCHANGED deskVars
    BY <1>6, Known DEF UnfreezeBefore, Acts, HandlerOK
  <2>. QED  BY <1>5, <2>1, Allowed, QuietKeeps
<1>7. CASE UnfreezeAfter(r)
  BY <1>5, <1>7, Allowed, QuietKeeps DEF UnfreezeAfter
<1>. QED  BY <1>2, <1>3, <1>4, <1>6, <1>7


\* The wallet pays what the request then holds as paid.
LEMMA RefundsKeep ==
  ASSUME DeskInv, NEW r \in Handlers, NEW d \in HandlerDays, HistoryOK',
         AutoRefund(r, d) \/ RefundFull(r, d) \/ RefundPartial(r, d)
  PROVE  DeskInv'
<1>1. /\ DisputeRefund(OnCharge(r), handler[r].cents, d) /\ UNCHANGED deskVars
      /\ handler[r].at \in {"counted", "looked"}
      /\ handler[r].cents > 0
      /\ \E st \in {"settled", "refunding", "refunded"} :
            HandlerGoto(r, st) /\ HandlerOK([handler[r] EXCEPT !.at = st], r)
  <2>1. CASE AutoRefund(r, d)
    BY <2>1, Known, Allowed DEF AutoRefund, HandlerAt, HandlerOK, Filing, HandlerStages, OpenerStages,
         ResolverStages, OnCharge
  <2>2. CASE RefundFull(r, d)
    BY <2>2, Known, Allowed DEF RefundFull, HandlerAt, HandlerOK, HandlerStages, OpenerStages,
         ResolverStages, OnCharge, Acts
  <2>3. CASE RefundPartial(r, d)
    BY <2>3, Known, Allowed DEF RefundPartial, HandlerAt, HandlerOK, HandlerStages, OpenerStages,
         ResolverStages, OnCharge, Acts
  <2>. QED  BY <2>1, <2>2, <2>3
<1>2. PICK st \in {"settled", "refunding", "refunded"} :
         HandlerGoto(r, st) /\ HandlerOK([handler[r] EXCEPT !.at = st], r)
  BY <1>1
<1>. PICK c : c = OnCharge(r)
  OBVIOUS
<1>3. c \in Charges /\ handler[r].cents \in Nat \ {0}
  BY <1>1, Known
<1>4. /\ TrueRows' /\ RowsKept
      /\ charge'[c].repaid = charge[c].repaid + handler[r].cents
      /\ \A x \in Charges \ {c} : charge'[x] = charge[x]
  BY <1>1, <1>3, DeskRepays DEF DeskInv
<1>5. /\ handler'[r].at = st /\ handler'[r].charge = c /\ handler'[r].cents = handler[r].cents
  BY <1>2, Went DEF DeskInv, HandlerStages, OpenerStages, ResolverStages, OnCharge
<1>6. \A x \in Charges : charge[x].repaid \in Nat
  BY TrueRow DEF DeskInv
<1>7. \A x \in Charges : Pays(r, x)' - Pays(r, x) <= charge'[x].repaid - charge[x].repaid
  <2>1. \A x \in Charges : Pays(r, x) = 0
    BY <1>1 DEF Pays
  <2>2. \A x \in Charges : Pays(r, x)' = IF x = c THEN handler[r].cents ELSE 0
    BY <1>5 DEF Pays
  <2>. QED  BY <1>3, <1>4, <1>6, <2>1, <2>2
<1>8. /\ byCharge' \in [Charges -> Handlers \cup {NoOne}] /\ pending' \subseteq Handlers
      /\ totalOpen' \in Int /\ totalResolved' \in Int /\ dispute' = dispute
  BY <1>1 DEF DeskInv, DeskTypes, deskVars
<1>. QED  BY <1>1, <1>2, <1>4, <1>7, <1>8, GoesOn DEF HandlerStages, OpenerStages, ResolverStages

\* A rolled-back cascade takes back what it paid: all the charge took, and all it repaid.
LEMMA RollBackKeeps ==
  ASSUME DeskInv, NEW r \in Handlers, HistoryOK', CascadeRollsBack(r)
  PROVE  DeskInv'
<1>. PICK c : c = OnCharge(r)
  OBVIOUS
<1>1. /\ handler[r].at = "refunding" /\ UndoRefund(c, handler[r].cents)
      /\ HandlerGoto(r, "done") /\ UNCHANGED deskVars
  BY DEF CascadeRollsBack, HandlerAt
<1>2. /\ c \in Charges /\ Exists(c) /\ handler[r].cents \in Nat
      /\ handler[r].cents = charge[c].amount
  BY <1>1, Known DEF HandlerOK, OnCharge
<1>3. handler[r].cents <= charge[c].repaid
  <2>1. Pays(r, c) = handler[r].cents
    BY <1>1 DEF Pays, OnCharge
  <2>2. Pays(r, c) <= Paying(c)
    <3>. DEFINE f == [x \in Handlers |-> Pays(x, c)]
    <3>1. \A x \in Handlers : f[x] \in Nat
      BY ClaimsType DEF DeskInv
    <3>2. Paying(c) = SumFunctionOnSet(f, Handlers) /\ f[r] = Pays(r, c)
      BY DEF Paying
    <3>. HIDE DEF f
    <3>3. SumFunctionOnSet(f, Handlers) = f[r] + SumFunctionOnSet(f, Handlers \ {r})
      BY <3>1, SumStep
    <3>4. SumFunctionOnSet(f, Handlers \ {r}) \in Nat
      BY <3>1, SumNat, FS_Subset
    <3>. QED  BY <3>1, <3>2, <3>3, <3>4
  <2>3. ClaimedOn(c) \in Nat /\ Paying(c) \in Nat /\ charge[c].repaid \in Nat
        /\ ClaimedOn(c) + Paying(c) <= charge[c].repaid
    BY <1>2, ClaimsType, TrueRow DEF DeskInv, PaidInv
  <2>. QED  BY <1>2, <2>1, <2>2, <2>3
<1>4. /\ TrueRows' /\ RowsKept
      /\ charge'[c].repaid = charge[c].repaid - handler[r].cents
      /\ \A x \in Charges \ {c} : charge'[x] = charge[x]
  BY <1>1, <1>2, <1>3, DeskUnpays DEF DeskInv
<1>5. \A x \in Charges : Pays(r, x)' - Pays(r, x) <= charge'[x].repaid - charge[x].repaid
  <2>1. handler'[r].at = "done"
    BY <1>1, Went DEF DeskInv, HandlerStages, OpenerStages, ResolverStages
  <2>2. \A x \in Charges : Pays(r, x)' = 0 /\ charge[x].repaid \in Nat
    BY <2>1, TrueRow DEF Pays, DeskInv
  <2>3. \A x \in Charges : Pays(r, x) = IF x = c THEN handler[r].cents ELSE 0
    BY <1>1 DEF Pays, OnCharge
  <2>. QED  BY <1>2, <1>4, <2>2, <2>3
<1>6. /\ byCharge' \in [Charges -> Handlers \cup {NoOne}] /\ pending' \subseteq Handlers
      /\ totalOpen' \in Int /\ totalResolved' \in Int /\ dispute' = dispute
  BY <1>1 DEF DeskInv, DeskTypes, deskVars
<1>. QED  BY <1>1, <1>4, <1>5, <1>6, Allowed, GoesOn DEF HandlerStages, OpenerStages, ResolverStages

\* A charge is frozen, or was, and the request remembers what it took.
LEMMA FreezeKeeps == ASSUME DeskInv, NEW r \in Handlers, FreezeOrFind(r), HistoryOK'
                     PROVE  DeskInv'
<1>. PICK c : c = OnCharge(r)
  OBVIOUS
<1>. PICK st : st = IF charge'[c].status = "disputed" THEN "frozen" ELSE "done"
  OBVIOUS
<1>1. /\ handler[r].at = "checked" /\ UNCHANGED deskVars
      /\ IF charge[c].status = "completed" THEN Freeze(c) ELSE UNCHANGED bookVars
      /\ handler' = [handler EXCEPT ![r].at = st, ![r].cents = charge[c].amount]
  BY DEF FreezeOrFind, HandlerAt
<1>2. c \in Charges /\ Exists(c) /\ charge[c].amount \in Nat \ {0} /\ st \in {"frozen", "done"}
  BY <1>1, Known
<1>3. TrueRows' /\ RowsKept /\ \A x \in Charges : charge'[x].repaid = charge[x].repaid
  BY <1>1, <1>2, BookUnchanged, Restatused DEF DeskInv
<1>4. /\ handler' \in [Handlers -> HandlerState]
      /\ \A x \in Handlers \ {r} : handler'[x] = handler[x]
      /\ handler'[r].at = st /\ handler'[r].kind = handler[r].kind
      /\ handler'[r].case = handler[r].case /\ handler'[r].charge = handler[r].charge
      /\ handler'[r].cents = charge[c].amount
  <2>1. handler \in [Handlers -> HandlerState]
    BY DEF DeskInv, DeskTypes
  <2>. QED  BY <1>1, <1>2, <2>1 DEF HandlerState, HandlerStages, OpenerStages, ResolverStages
<1>5. HandlerOK(handler[r], r)'
  <2>. PICK g : g = handler'[r]
    OBVIOUS
  <2>1. /\ HandlerOK(handler[r], r) /\ dispute' = dispute /\ handler[r].charge = c
        /\ Exists(c)' /\ charge'[c].amount = charge[c].amount
    BY <1>1, <1>2, <1>3, Known DEF deskVars, RowsKept, OnCharge
  <2>2. /\ g.at = st /\ g.kind = "open" /\ g.case = r /\ g.charge = c
        /\ g.cents = charge[c].amount /\ dispute[r] = NoDispute
    BY <1>1, <1>4, <2>1 DEF HandlerOK, OpenerStages
  <2>3. HandlerOK(g, r)'
    BY <1>2, <2>1, <2>2 DEF HandlerOK, HasCase, Filing, OpenerStages, ResolverStages
  <2>. QED  BY <2>3
<1>6. \A x \in Charges : Pays(r, x)' - Pays(r, x) <= charge'[x].repaid - charge[x].repaid
  BY <1>1, <1>2, <1>3, <1>4, PaysSame
<1>. QED  BY <1>1, <1>3, <1>4, <1>5, <1>6, Moved DEF DeskInv, DeskTypes, deskVars


\* The steps of request r that write the record d: its new row, and what the row claims.
LEMMA Recorded ==
  ASSUME DeskInv, NEW r \in Handlers, NEW d \in Handlers, NEW row \in DisputeRow,
         NEW st \in HandlerStages, HandlerGoto(r, st), handler[r].at \notin {"idle", "done"},
         UNCHANGED bookVars, HistoryOK', byCharge' = byCharge,
         dispute' = [dispute EXCEPT ![d] = row],
         row.status # "none", row.charge \in Charges, Exists(row.charge),
         row.amount = charge[row.charge].amount,
         row.status = "resolved_refund_full" => row.refund = charge[row.charge].amount,
         IsRecorded(d) => row.charge = dispute[d].charge,
         d # r => IsRecorded(d),
         d = r => st \notin {"idle", "checked", "frozen"},
         pending' \subseteq Handlers, totalOpen' \in Int, totalResolved' \in Int,
         \/ HandlerOK([handler[r] EXCEPT !.at = st], r)
         \/ st = "recorded" /\ handler[r].at = "frozen" /\ d = r /\ row.charge = OnCharge(r),
         \A c \in Charges : (IF row.charge = c THEN row.refund ELSE 0) + Pays(r, c)'
                               <= Claims(d, c) + Pays(r, c)
  PROVE  DeskInv'
<1>1. TrueRows' /\ RowsKept /\ charge' = charge
  BY BookUnchanged DEF DeskInv, bookVars, moneyVars
<1>2. /\ handler' \in [Handlers -> HandlerState]
      /\ \A x \in Handlers \ {r} : handler'[x] = handler[x]
      /\ handler'[r] = [handler[r] EXCEPT !.at = st]
  <2>1. handler \in [Handlers -> HandlerState]
    BY DEF DeskInv, DeskTypes
  <2>. QED  BY <2>1, Went DEF DeskInv, HandlerGoto
<1>3. /\ dispute' \in [Handlers -> DisputeRow] /\ dispute'[d] = row
      /\ \A x \in Handlers \ {d} : dispute'[x] = dispute[x]
  BY DEF DeskInv, DeskTypes
<1>4. DeskTypes'
  BY <1>2, <1>3 DEF DeskInv, DeskTypes
<1>5. DisputeOK(dispute[d])' /\ IsRecorded(d)'
  BY <1>1, <1>3 DEF DisputeOK, IsRecorded, Exists
<1>6. HandlerOK(handler[r], r)'
  <2>. PICK g : g = [handler[r] EXCEPT !.at = st]
    OBVIOUS
  <2>1. \A y \in Handlers : IsRecorded(y) =>
            IsRecorded(y)' /\ dispute'[y].charge = dispute[y].charge
    BY <1>3, <1>5 DEF IsRecorded
  <2>2. CASE HandlerOK(g, r)
    <3>1. \A c : Exists(c)' <=> Exists(c)
      BY <1>1 DEF Exists
    <3>2. g.at \in {"idle", "checked", "frozen"} => dispute'[r] = NoDispute
      <4>1. g.at = st
        BY Known DEF HandlerState
      <4>. QED  BY <1>3, <2>2, <4>1 DEF HandlerOK
    <3>3. HandlerOK(g, r)'
      BY <1>1, <2>1, <2>2, <3>1, <3>2 DEF HandlerOK, HasCase, Filing, OpenerStages, ResolverStages
    <3>. QED  BY <1>2, <3>3
  <2>3. CASE st = "recorded" /\ handler[r].at = "frozen" /\ d = r /\ row.charge = OnCharge(r)
    <3>1. /\ g.at = "recorded" /\ g.kind = handler[r].kind /\ g.case = handler[r].case
          /\ g.charge = handler[r].charge /\ g.cents = handler[r].cents
      BY <2>3, Known DEF HandlerState
    <3>2. /\ g.kind = "open" /\ g.case = r /\ g.charge \in Charges /\ Exists(g.charge)
          /\ g.cents = charge[g.charge].amount /\ row.charge = g.charge
      BY <2>3, <3>1, Known DEF HandlerOK, Filing, OpenerStages, OnCharge
    <3>3. HandlerOK(g, r)'
      BY <1>1, <1>3, <1>5, <2>3, <3>1, <3>2 DEF HandlerOK, HasCase, Filing, OpenerStages, ResolverStages, Exists
    <3>. QED  BY <1>2, <3>3
  <2>. QED  BY <2>2, <2>3
<1>7. \A c \in Charges : Claims(d, c)' + Pays(r, c)' - Claims(d, c) - Pays(r, c)
                            <= charge'[c].repaid - charge[c].repaid
  <2>. SUFFICES ASSUME NEW c \in Charges
                PROVE  Claims(d, c)' + Pays(r, c)' - Claims(d, c) - Pays(r, c)
                          <= charge'[c].repaid - charge[c].repaid
    OBVIOUS
  <2>1. Claims(d, c)' = IF row.charge = c THEN row.refund ELSE 0
    BY <1>3 DEF Claims
  <2>2. charge[c].repaid \in Nat /\ charge'[c].repaid = charge[c].repaid
    BY <1>1, TrueRow DEF DeskInv
  <2>3. Claims(d, c) \in Nat /\ Pays(r, c) \in Nat
    BY ClaimsType DEF DeskInv
  <2>4. Claims(d, c)' \in Nat /\ Pays(r, c)' \in Nat
    BY <1>4 DEF DeskTypes, DisputeRow, HandlerState, Claims, Pays
  <2>. QED  BY <2>1, <2>2, <2>3, <2>4
<1>. QED  BY <1>1, <1>2, <1>3, <1>4, <1>5, <1>6, <1>7, Stepped

\* A row that claims what the old one did, in a step that leaves the request with nothing paid.
LEMMA NoMoreClaimed ==
  ASSUME DeskInv, NEW r \in Handlers, NEW d \in Handlers, NEW row \in DisputeRow,
         handler'[r].at \notin {"refunding", "refunded", "settled"},
         \A c \in Charges : row.charge = c => row.refund <= Claims(d, c)
  PROVE  \A c \in Charges : (IF row.charge = c THEN row.refund ELSE 0) + Pays(r, c)'
                                <= Claims(d, c) + Pays(r, c)
<1>1. \A c \in Charges : Pays(r, c)' = 0
  BY DEF Pays
<1>2. row.refund \in Nat /\ \A c \in Charges : Claims(d, c) \in Nat /\ Pays(r, c) \in Nat
  BY ClaimsType DEF DeskInv, DisputeRow
<1>. TAKE c \in Charges
<1>3. (IF row.charge = c THEN row.refund ELSE 0) <= Claims(d, c)
  BY <1>2
<1>4. CASE row.charge = c
  BY <1>1, <1>2, <1>3, <1>4
<1>5. CASE row.charge # c
  BY <1>1, <1>2, <1>5
<1>. QED  BY <1>4, <1>5

LEMMA RecordKeeps == ASSUME DeskInv, NEW r \in Handlers, Record(r), HistoryOK'
                     PROVE  DeskInv'
<1>. PICK row : row = [status |-> "pending_review", charge |-> OnCharge(r),
                       amount |-> handler[r].cents, refund |-> 0]
  OBVIOUS
<1>1. /\ handler[r].at = "frozen" /\ HandlerGoto(r, "recorded") /\ UNCHANGED bookVars
      /\ dispute' = [dispute EXCEPT ![r] = row] /\ pending' = pending
      /\ byCharge' = byCharge /\ totalOpen' = totalOpen /\ totalResolved' = totalResolved
  BY DEF Record, HandlerAt
<1>2. /\ OnCharge(r) \in Charges /\ Exists(OnCharge(r)) /\ handler[r].cents \in Nat
      /\ handler[r].cents = charge[OnCharge(r)].amount /\ dispute[r] = NoDispute
  <2>1. OnCharge(r) \in Charges /\ Exists(OnCharge(r)) /\ handler[r].cents \in Nat
    BY <1>1, Known
  <2>2. HandlerOK(handler[r], r)
    BY Known
  <2>3. handler[r].kind = "open" /\ dispute[r] = NoDispute
    BY <1>1, <2>2 DEF HandlerOK, OpenerStages
  <2>4. handler[r].cents = charge[OnCharge(r)].amount
    BY <1>1, <2>2, <2>3 DEF HandlerOK, OnCharge
  <2>. QED  BY <2>1, <2>3, <2>4
<1>3. row \in DisputeRow /\ "recorded" \in HandlerStages
  BY <1>2 DEF DisputeRow, OpenStates, HandlerStages, OpenerStages, ResolverStages
<1>4. handler'[r].at = "recorded"
  BY <1>1, <1>3, Went DEF DeskInv
<1>5. \A c \in Charges : (IF row.charge = c THEN row.refund ELSE 0) + Pays(r, c)'
                            <= Claims(r, c) + Pays(r, c)
  <2>1. row.refund = 0 /\ \A c \in Charges : Claims(r, c) \in Nat
    BY ClaimsType DEF DeskInv
  <2>. QED  BY <1>3, <1>4, <2>1, NoMoreClaimed
<1>6. ~IsRecorded(r)
  BY <1>2 DEF IsRecorded, NoDispute
<1>7. pending' \subseteq Handlers /\ totalOpen' \in Int /\ totalResolved' \in Int
  BY <1>1 DEF DeskInv, DeskTypes
<1>. QED  BY <1>1, <1>2, <1>3, <1>5, <1>6, <1>7, Recorded

LEMMA CommentKeeps == ASSUME DeskInv, NEW r \in Handlers, Comment(r), HistoryOK'
                      PROVE  DeskInv'
<1>. PICK d : d = Case(r)
  OBVIOUS
<1>. PICK row : row = [dispute[d] EXCEPT !.status = "under_investigation"]
  OBVIOUS
<1>1. /\ handler[r].at = "looked" /\ HandlerGoto(r, "done") /\ UNCHANGED bookVars
      /\ dispute' = [dispute EXCEPT ![d].status = "under_investigation"] /\ pending' = pending
      /\ byCharge' = byCharge /\ totalOpen' = totalOpen /\ totalResolved' = totalResolved
  BY DEF Comment, Acts, HandlerAt
<1>2. d \in Handlers /\ IsRecorded(d) /\ dispute[d] \in DisputeRow /\ DisputeOK(dispute[d])
  BY <1>1, Known DEF HandlerOK, HasCase, Filing, OpenerStages, ResolverStages, Case, DeskInv, DeskTypes, CaseInv
<1>3. /\ row \in DisputeRow /\ row.status = "under_investigation"
      /\ row.charge = dispute[d].charge /\ row.amount = dispute[d].amount
      /\ row.refund = dispute[d].refund
  BY <1>2 DEF DisputeRow, OpenStates
<1>4. dispute' = [dispute EXCEPT ![d] = row] /\ "done" \in HandlerStages
  BY <1>1 DEF HandlerStages, OpenerStages, ResolverStages
<1>5. handler'[r].at = "done"
  BY <1>1, <1>4, Went DEF DeskInv
<1>6. \A c \in Charges : (IF row.charge = c THEN row.refund ELSE 0) + Pays(r, c)'
                            <= Claims(d, c) + Pays(r, c)
  <2>1. dispute[d].refund \in Nat
    BY <1>2 DEF DisputeRow
  <2>2. \A c \in Charges : row.charge = c => row.refund <= Claims(d, c)
    BY <1>3, <2>1 DEF Claims
  <2>. QED  BY <1>2, <1>3, <1>5, <2>2, NoMoreClaimed
<1>7. pending' \subseteq Handlers /\ totalOpen' \in Int /\ totalResolved' \in Int
  BY <1>1 DEF DeskInv, DeskTypes
<1>8. HandlerOK([handler[r] EXCEPT !.at = "done"], r)
  BY <1>4, Allowed
<1>9. /\ row.charge \in Charges /\ Exists(row.charge)
      /\ row.amount = charge[row.charge].amount
  BY <1>2, <1>3 DEF DisputeOK, IsRecorded
<1>. QED  BY <1>1, <1>2, <1>3, <1>4, <1>6, <1>7, <1>8, <1>9, Recorded

LEMMA ResolveKeeps == ASSUME DeskInv, NEW r \in Handlers, Resolve(r), HistoryOK'
                       PROVE  DeskInv'
<1>. PICK d : d = Case(r)
  OBVIOUS
<1>. PICK h : h = handler[r]
  OBVIOUS
<1>. PICK row : row = Resolved(dispute[d], h.kind, h.cents)
  OBVIOUS
<1>. PICK st : st = "resolved"
  OBVIOUS
<1>1. /\ (h.at = "settled") \/ (h.at = "looked" /\ h.kind = "reject")
      /\ HandlerGoto(r, st) /\ UNCHANGED bookVars
      /\ dispute' = [dispute EXCEPT ![d] = row] /\ pending' = pending
      /\ byCharge' = byCharge /\ totalOpen' = totalOpen /\ totalResolved' = totalResolved
  <2>1. dispute' = [dispute EXCEPT ![d] = row]
    BY DEF Resolve
  <2>2. HandlerGoto(r, st)
    BY DEF Resolve
  <2>. QED  BY <2>1, <2>2 DEF Resolve, Acts, HandlerAt
<1>2. /\ d \in Handlers /\ IsRecorded(d) /\ dispute[d] \in DisputeRow /\ DisputeOK(dispute[d])
      /\ dispute[d].charge = h.charge /\ HandlerOK(h, r) /\ h \in HandlerState
      /\ h.cents \in Nat
  BY <1>1, Known DEF HandlerOK, HasCase, Filing, OpenerStages, ResolverStages, Case, DeskInv, DeskTypes, CaseInv
<1>3. h.kind \in {"open", "refund_full", "refund_partial", "withdraw", "reject"}
  BY <1>1, <1>2 DEF HandlerOK
<1>4. /\ dispute[d].charge \in Charges /\ Exists(dispute[d].charge)
      /\ dispute[d].amount = charge[dispute[d].charge].amount
      /\ charge[dispute[d].charge].amount \in Nat \ {0}
  BY <1>2, TrueRow DEF DisputeOK, IsRecorded, DeskInv
<1>5. /\ row.status \in TerminalStates /\ row.charge = dispute[d].charge
      /\ row.amount = dispute[d].amount
      /\ row.refund = IF h.cents > 0 THEN h.cents ELSE dispute[d].refund
      /\ row.status = "resolved_refund_full" => h.kind \in {"open", "refund_full"}
  BY <1>3 DEF Resolved, Outcome, TerminalStates
<1>6. row \in DisputeRow
  BY <1>2, <1>5 DEF Resolved, DisputeRow
<1>7. row.status # "none"
  BY <1>5 DEF TerminalStates
<1>8. row.status = "resolved_refund_full" => row.refund = charge[row.charge].amount
  BY <1>1, <1>2, <1>4, <1>5 DEF HandlerOK
<1>9. st \in HandlerStages /\ st = "resolved"
  BY DEF HandlerStages, OpenerStages, ResolverStages
<1>10. handler'[r].at = st
  BY <1>1, <1>9, Went DEF DeskInv
<1>11. \A c \in Charges : (IF row.charge = c THEN row.refund ELSE 0) + Pays(r, c)'
                            <= Claims(d, c) + Pays(r, c)
  <2>1. \A c \in Charges : Pays(r, c)' = 0
    BY <1>9, <1>10 DEF Pays
  <2>2. \A c \in Charges : Claims(d, c) \in Nat /\ Pays(r, c) \in Nat
    BY <1>2, ClaimsType DEF DeskInv
  <2>3. h.cents > 0 => Pays(r, row.charge) = h.cents
    BY <1>1, <1>2, <1>5 DEF Pays, HandlerOK
  <2>4. \A c \in Charges : row.charge = c => Claims(d, c) = dispute[d].refund
    BY <1>5 DEF Claims
  <2>5. /\ dispute[d].refund \in Nat
        /\ row.refund = (IF h.cents > 0 THEN h.cents ELSE dispute[d].refund)
    BY <1>2, <1>5 DEF DisputeRow
  <2>. TAKE c \in Charges
  <2>6. CASE row.charge # c
    BY <2>1, <2>2, <2>6
  <2>7. CASE row.charge = c
    BY <1>2, <2>1, <2>2, <2>3, <2>4, <2>5, <2>7
  <2>. QED  BY <2>6, <2>7
<1>12. pending' \subseteq Handlers /\ totalOpen' \in Int /\ totalResolved' \in Int
  <2>1. pending \subseteq Handlers /\ totalOpen \in Int /\ totalResolved \in Int
    BY DEF DeskInv, DeskTypes
  <2>. QED  BY <1>1, <2>1
<1>13. HandlerOK([handler[r] EXCEPT !.at = st], r)
  <2>. PICK g : g = [h EXCEPT !.at = st]
    OBVIOUS
  <2>1. g.at = st /\ g.kind = h.kind /\ g.case = h.case /\ g.charge = h.charge /\ g.cents = h.cents
    BY <1>2 DEF HandlerState
  <2>2. HandlerOK(g, r)
    BY <1>1, <1>2, <1>3, <2>1 DEF HandlerOK, HasCase, Filing, OpenerStages, ResolverStages
  <2>. QED  BY <2>2
<1>14. handler[r].at \notin {"idle", "done"}
  BY <1>1
<1>15. d \in Handlers /\ IsRecorded(d)
  BY <1>2
<1>16. row.status # "none" /\ row.charge = dispute[d].charge
  BY <1>5, <1>7
<1>17. row.charge \in Charges /\ Exists(row.charge) /\ row.amount = charge[row.charge].amount
  BY <1>4, <1>5
<1>18. UNCHANGED bookVars /\ byCharge' = byCharge /\ dispute' = [dispute EXCEPT ![d] = row]
       /\ HandlerGoto(r, st) /\ st \notin {"idle", "checked", "frozen"}
  BY <1>1, <1>9
<1>19. \A c \in Charges : (IF row.charge = c THEN row.refund ELSE 0) + Pays(r, c)'
                             <= Claims(d, c) + Pays(r, c)
  BY <1>11
<1>. QED  BY <1>6, <1>8, <1>9, <1>12, <1>13, <1>14, <1>15, <1>17,
             <1>18, <1>19, <1>16, Recorded, ZenonT(60)

LEMMA WalletKeeps == ASSUME DeskInv, WalletGoesOn PROVE DeskInv'
<1>1. TrueRows' /\ RowsKept /\ \A c \in Charges : charge'[c].repaid >= charge[c].repaid
  BY WalletOnlyRepays DEF DeskInv
<1>2. dispute' = dispute /\ handler' = handler /\ DeskTypes'
  BY DEF WalletGoesOn, deskVars, history, HistoryOK, DeskInv, DeskTypes
<1>3. CaseInv'
  <2>1. \A c \in Charges : Exists(c) => Exists(c)' /\ charge'[c].amount = charge[c].amount
    BY <1>1 DEF RowsKept
  <2>2. \A d \in Handlers : DisputeOK(dispute[d])'
    BY <1>2, <2>1 DEF DeskInv, CaseInv, DisputeOK
  <2>3. ASSUME NEW r \in Handlers PROVE HandlerOK(handler[r], r)'
    <3>1. HandlerOK(handler[r], r) /\ \A y : IsRecorded(y)' <=> IsRecorded(y)
      BY <1>2 DEF DeskInv, CaseInv, IsRecorded
    <3>. QED  BY <1>2, <2>1, <3>1 DEF HandlerOK, HasCase, Filing, OpenerStages, ResolverStages
  <2>. QED  BY <2>2, <2>3 DEF CaseInv
<1>4. PaidInv'
  <2>. SUFFICES ASSUME NEW c \in Charges PROVE (ClaimedOn(c) + Paying(c) <= charge[c].repaid)'
    BY DEF PaidInv
  <2>1. ClaimedOn(c)' = ClaimedOn(c) /\ Paying(c)' = Paying(c)
    BY <1>2 DEF ClaimedOn, Paying, Pays
  <2>2. ClaimedOn(c) \in Nat /\ Paying(c) \in Nat /\ charge[c].repaid \in Nat
        /\ charge'[c].repaid \in Nat
    BY <1>1, ClaimsType, TrueRow DEF DeskInv, TrueRows, BookTypeOK, ChargeRow
  <2>3. ClaimedOn(c) + Paying(c) <= charge[c].repaid
    BY DEF DeskInv, PaidInv
  <2>. QED  BY <1>1, <2>1, <2>2, <2>3
<1>. QED  BY <1>1, <1>2, <1>3, <1>4 DEF DeskInv

LEMMA DeskBegins == DeskInit => DeskInv
<1>. SUFFICES ASSUME DeskInit PROVE DeskInv
  OBVIOUS
<1>1. TrueRows
  BY DEF TrueRows, DeskInit, BookInit, BookTypeOK, StatusTellsTruth, RowTellsTruth, Days,
         ChargeRow, Statuses, NoRow
<1>2. DeskTypes
  <2>1. NoDispute \in DisputeRow /\ IdleHandler \in HandlerState
    BY DEF DisputeRow, NoDispute, HandlerState, HandlerStages, IdleHandler, Kinds
  <2>2. /\ dispute \in [Handlers -> DisputeRow] /\ handler \in [Handlers -> HandlerState]
        /\ byCharge \in [Charges -> Handlers \cup {NoOne}]
    BY <2>1 DEF DeskInit
  <2>3. pending \subseteq Handlers /\ totalOpen \in Int /\ totalResolved \in Int
    BY DEF DeskInit
  <2>4. HistoryOK
    BY DEF DeskInit, HistoryOK
  <2>. QED  BY <2>2, <2>3, <2>4 DEF DeskTypes
<1>3. CaseInv
  BY DEF CaseInv, DeskInit, DisputeOK, HandlerOK, NoDispute, IdleHandler, HasCase,
         Filing, OpenerStages, ResolverStages
<1>4. PaidInv
  <2>. SUFFICES ASSUME NEW c \in Charges PROVE ClaimedOn(c) + Paying(c) <= charge[c].repaid
    BY DEF PaidInv
  <2>1. ClaimedOn(c) = 0
    <3>. DEFINE f == [d \in Handlers |-> Claims(d, c)]
    <3>1. \A d \in Handlers : f[d] = 0
      BY DEF DeskInit, Claims, NoDispute
    <3>2. ClaimedOn(c) = SumFunctionOnSet(f, Handlers)
      BY DEF ClaimedOn, Claims
    <3>. HIDE DEF f
    <3>. QED  BY <3>1, <3>2, SumZero
  <2>2. Paying(c) = 0
    <3>. DEFINE f == [r \in Handlers |-> Pays(r, c)]
    <3>1. \A d \in Handlers : f[d] = 0
      BY DEF DeskInit, Pays, IdleHandler
    <3>2. Paying(c) = SumFunctionOnSet(f, Handlers)
      BY DEF Paying
    <3>. HIDE DEF f
    <3>. QED  BY <3>1, <3>2, SumZero
  <2>3. charge[c].repaid = 0
    BY DEF DeskInit, BookInit, NoRow
  <2>. QED  BY <2>1, <2>2, <2>3
<1>. QED  BY <1>1, <1>2, <1>3, <1>4 DEF DeskInv

LEMMA DeskRests == ASSUME DeskInv, UNCHANGED disputeVars PROVE DeskInv'
<1>1. TrueRows' /\ UNCHANGED <<charge, dispute, byCharge, pending, totalOpen, totalResolved,
                               handler, overlapped, missed>>
  BY BookUnchanged DEF DeskInv, disputeVars, deskVars, history, bookVars, moneyVars
<1>2. DeskTypes'
  BY <1>1 DEF DeskInv, DeskTypes, HistoryOK
<1>3. CaseInv'
  BY <1>1 DEF DeskInv, CaseInv, DisputeOK, HandlerOK, IsRecorded, Exists
<1>4. PaidInv'
  BY <1>1 DEF DeskInv, PaidInv, ClaimedOn, Paying, Pays
<1>. QED  BY <1>1, <1>2, <1>3, <1>4 DEF DeskInv

LEMMA DeskStepKeeps == ASSUME DeskInv, [DeskNext]_disputeVars PROVE DeskInv'
<1>1. CASE WalletGoesOn
  BY <1>1, WalletKeeps
<1>2. ASSUME NEW r \in Handlers, Begin(r) PROVE DeskInv'
  <2>1. ASSUME NEW c \in Charges, Exists(c), Open(r, c) PROVE DeskInv'
    BY <2>1, OpenKeeps
  <2>2. ASSUME NEW d \in Handlers, NEW kind \in Kinds \ {"open"}, NEW cents \in Amounts,
               Look(r, d, kind, cents)
        PROVE  DeskInv'
    BY <2>2, LookKeeps
  <2>. QED  BY <1>2, <2>1, <2>2 DEF Begin
<1>3. ASSUME NEW r \in Handlers, GoOn(r) \/ Dequeue(r), HistoryOK' PROVE DeskInv'
  <2>1. CASE FreezeOrFind(r)
    BY <1>3, <2>1, FreezeKeeps
  <2>2. CASE Record(r)
    BY <1>3, <2>2, RecordKeeps
  <2>3. CASE Queue(r) \/ Index(r) \/ Count(r) \/ Dequeue(r) \/ CountNoLongerOpen(r)
             \/ CountResolved(r) \/ Close(r)
    BY <1>3, <2>3, DeskWritesKeep
  <2>4. CASE \E d \in HandlerDays : AutoRefund(r, d) \/ RefundFull(r, d) \/ RefundPartial(r, d)
    BY <1>3, <2>4, RefundsKeep
  <2>5. CASE CascadeRollsBack(r)
    BY <1>3, <2>5, RollBackKeeps
  <2>6. CASE Comment(r)
    BY <1>3, <2>6, CommentKeeps
  <2>7. CASE Resolve(r)
    BY <1>3, <2>7, ResolveKeeps
  <2>8. CASE List(r) \/ LeaveToAdmin(r) \/ CascadeSucceeds(r) \/ RefundRefused(r)
             \/ UnfreezeBefore(r) \/ UnfreezeAfter(r)
    BY <1>3, <2>8, QuietStepsKeep
  <2>. QED  BY <1>3, <2>1, <2>2, <2>3, <2>4, <2>5, <2>6, <2>7, <2>8 DEF GoOn
<1>4. CASE UNCHANGED disputeVars
  BY <1>4, DeskRests
<1>5. ASSUME NEW r \in Handlers, (GoOn(r) /\ UNCHANGED history) \/ (Dequeue(r) /\ UNCHANGED overlapped)
      PROVE  HistoryOK'
  <2>1. HistoryOK
    BY DEF DeskInv, DeskTypes
  <2>2. Dequeue(r) => Case(r) \in Handlers
    BY Known DEF Dequeue, HandlerAt
  <2>. QED  BY <1>5, <2>1, <2>2 DEF HistoryOK, history, Dequeue
<1>. QED  BY <1>1, <1>2, <1>3, <1>4, <1>5 DEF DeskNext

LEMMA DeskInvHolds == DeskSpec => []DeskInv
<1>1. DeskInv /\ [DeskNext]_disputeVars => DeskInv'
  BY DeskStepKeeps
<1>. QED  BY <1>1, DeskBegins, PTL DEF DeskSpec

\* In every state the dispute router's keys, its requests and the wallet rows under it have
\* their types.
THEOREM DeskTypeCorrect == DeskSpec => []DeskTypeOK
BY DeskInvHolds, DeskTyped, PTL

\* A charge is never repaid more than it took: also when disputes, a cascade that rolls back,
\* and the wallet's own refunds meet on it in any order.
THEOREM DeskRepaysWithinCharge == DeskSpec => []RepaidWithinCharge
<1>1. DeskInv => RepaidWithinCharge
  BY TrueRow DEF DeskInv, RepaidWithinCharge
<1>. QED  BY <1>1, DeskInvHolds, PTL

\* The claims on a charge are within what it repaid; one for all of it leaves nothing unpaid.
LEMMA InvPaid == ASSUME DeskInv PROVE RecordedRefundsArePaid
<1>1. \A c \in Charges : /\ ClaimedOn(c) \in Nat /\ Paying(c) \in Nat
                         /\ charge[c].repaid \in Nat /\ charge[c].amount \in Nat
                         /\ charge[c].repaid <= charge[c].amount
                         /\ ClaimedOn(c) + Paying(c) <= charge[c].repaid
  BY ClaimsType, TrueRow DEF DeskInv, PaidInv
<1>2. ASSUME NEW c \in Charges PROVE ClaimedOn(c) <= charge[c].repaid
  <2>. PICK x, y, z : x = ClaimedOn(c) /\ y = Paying(c) /\ z = charge[c].repaid
    OBVIOUS
  <2>1. x \in Nat /\ y \in Nat /\ z \in Nat /\ x + y <= z
    BY <1>1
  <2>. QED  BY <2>1
<1>3. ASSUME NEW d \in Handlers, dispute[d].status = "resolved_refund_full"
      PROVE  charge[dispute[d].charge].repaid = charge[dispute[d].charge].amount
  <2>. PICK c : c = dispute[d].charge
    OBVIOUS
  <2>1. c \in Charges /\ dispute[d].refund = charge[c].amount
    BY <1>3 DEF DeskInv, CaseInv, DisputeOK
  <2>2. Claims(d, c) <= ClaimedOn(c)
    <3>. DEFINE f == [x \in Handlers |-> Claims(x, c)]
    <3>1. \A x \in Handlers : f[x] \in Nat
      BY ClaimsType DEF DeskInv
    <3>2. ClaimedOn(c) = SumFunctionOnSet(f, Handlers) /\ f[d] = Claims(d, c)
      BY DEF ClaimedOn, Claims
    <3>. HIDE DEF f
    <3>3. SumFunctionOnSet(f, Handlers) = f[d] + SumFunctionOnSet(f, Handlers \ {d})
      BY <3>1, SumStep
    <3>4. SumFunctionOnSet(f, Handlers \ {d}) \in Nat
      BY <3>1, SumNat, FS_Subset
    <3>. QED  BY <3>1, <3>2, <3>3, <3>4
  <2>3. Claims(d, c) = charge[c].amount
    BY <2>1 DEF Claims
  <2>. QED  BY <1>1, <1>2, <2>1, <2>2, <2>3
<1>. QED  BY <1>2, <1>3 DEF RecordedRefundsArePaid

\* A dispute recorded as refunded in full is on a charge repaid in full, and what the records
\* claim on a charge was paid out on it, whichever requests race.
THEOREM DeskRecordsWhatWasPaid == DeskSpec => []RecordedRefundsArePaid
<1>1. DeskInv => RecordedRefundsArePaid
  BY InvPaid
<1>. QED  BY <1>1, DeskInvHolds, PTL

(***************************************************************************)
(* The queue, the index and the counters. Two parts: QueueInv, which every *)
(* race keeps, and SerialInv, which holds while no two requests have been  *)
(* in flight at once. Then the only request in flight, r with the variables*)
(* h, has found its charge free, or its dispute open, and nothing has      *)
(* changed that since; and the index, the queue and the counters are those *)
(* of the open disputes, less what r has not entered there yet or with what*)
(* it has not taken off yet.                                               *)
(***************************************************************************)
OffQueue(d) == IsOpen(d) \/ Dequeuing(d) \/ d \in missed

QueueInv == /\ \A d \in Handlers : d \in pending \/ NotQueuedYet(d) => OffQueue(d)
            /\ totalOpen + totalResolved + Cardinality(UncountedOnes) = Cardinality(CountedOnes)

Opened == {d \in Handlers : IsOpen(d)}
Ended  == {d \in Handlers : dispute[d].status \in TerminalStates}

Unqueued  == {"recorded", "listed"}
Unindexed == {"recorded", "listed", "queued"}
Uncounted == {"recorded", "listed", "queued", "indexed"}
Resolving == {"resolved", "dequeued", "uncounted", "rejected", "closing"}

QueuedBy(h, r)  == IF h.at \in Unqueued THEN Opened \ {r}
                   ELSE IF h.at = "resolved" THEN Opened \cup {h.case} ELSE Opened
IndexedBy(h, r) == IF h.at \in Unindexed THEN Opened \ {r}
                   ELSE IF h.at \in Resolving THEN Opened \cup {h.case} ELSE Opened
CountedBy(h, r) == IF h.at \in Uncounted THEN Opened \ {r}
                   ELSE IF h.at \in {"resolved", "dequeued"} THEN Opened \cup {h.case} ELSE Opened
EndedBy(h)      == IF h.at \in {"resolved", "dequeued", "uncounted"} THEN Ended \ {h.case} ELSE Ended

StageOK(h) ==
    /\ h.at \in {"checked", "frozen"} \cup Unindexed => byCharge[h.charge] = NoOne
    /\ h.at \in Filing \cup {"looked", "refunding", "refunded", "settled"} => IsOpen(h.case)
    /\ h.at \in Resolving => h.case \in Ended

Tidy(h, r) ==
    /\ StageOK(h)
    /\ \A c \in Charges, d \in Handlers :
          byCharge[c] = d <=> dispute[d].charge = c /\ d \in IndexedBy(h, r)
    /\ pending = QueuedBy(h, r)
    /\ totalOpen = Cardinality(CountedBy(h, r))
    /\ totalResolved = Cardinality(EndedBy(h))

SerialInv == /\ \A r, s \in Handling : r = s
             /\ \A r \in Handlers : Handling \subseteq {r} => Tidy(handler[r], r)

LEMMA DeskSets ==
  /\ \A S : S \subseteq Handlers => IsFiniteSet(S) /\ Cardinality(S) \in Nat
  /\ Opened \subseteq Handlers /\ Ended \subseteq Handlers
  /\ CountedOnes \subseteq Handlers /\ UncountedOnes \subseteq Handlers
<1>1. \A S : S \subseteq Handlers => IsFiniteSet(S) /\ Cardinality(S) \in Nat
  BY FS_Subset, FS_CardinalityType
<1>. QED  BY <1>1 DEF Opened, Ended, CountedOnes, UncountedOnes

\* Which steps write what. The open and the resolved disputes change in three of them.
LEMMA OpenedStay ==
  ASSUME dispute' = dispute
  PROVE  /\ Opened' = Opened /\ Ended' = Ended
         /\ \A d : IsOpen(d)' <=> IsOpen(d)
         /\ \A d : IsRecorded(d)' <=> IsRecorded(d)
  BY DEF Opened, Ended, IsOpen, IsRecorded

\* A request that goes on, and is not the one that takes a dispute off the queue.
LEMMA QueueStays ==
  ASSUME QueueInv, NEW r \in Handlers, \A x \in Handlers \ {r} : handler'[x] = handler[x],
         handler[r].at # "resolved", missed' = missed,
         \A d \in Handlers : OffQueue(d) => IsOpen(d)' \/ Dequeuing(d) \/ d \in missed,
         \A d \in pending' : d \in pending \/ NotQueuedYet(d),
         NotQueuedYet(r)' => NotQueuedYet(r) \/ IsOpen(r)'
  PROVE  \A d \in Handlers : d \in pending' \/ NotQueuedYet(d)' => OffQueue(d)'
<1>1. ASSUME NEW d \in Handlers, Dequeuing(d) PROVE Dequeuing(d)'
  BY <1>1 DEF Dequeuing, HandlerAt, Case
<1>2. ASSUME NEW d \in Handlers, OffQueue(d) PROVE OffQueue(d)'
  BY <1>1, <1>2 DEF OffQueue
<1>3. ASSUME NEW d \in Handlers, d # r PROVE NotQueuedYet(d)' <=> NotQueuedYet(d)
  BY <1>3 DEF NotQueuedYet
<1>. SUFFICES ASSUME NEW d \in Handlers, d \in pending' \/ NotQueuedYet(d)' PROVE OffQueue(d)'
  OBVIOUS
<1>4. CASE d \in pending \/ NotQueuedYet(d)
  BY <1>2, <1>4 DEF QueueInv
<1>5. CASE ~(d \in pending \/ NotQueuedYet(d))
  BY <1>3, <1>5 DEF OffQueue
<1>. QED  BY <1>4, <1>5

LEMMA CountsStay ==
  ASSUME QueueInv, NEW r \in Handlers, \A x \in Handlers \ {r} : handler'[x] = handler[x],
         \A x \in Handlers \ {r} : IsRecorded(x)' <=> IsRecorded(x),
         (IsRecorded(r) /\ ~NotCountedYet(r))' <=> IsRecorded(r) /\ ~NotCountedYet(r),
         handler'[r].at = "uncounted" <=> handler[r].at = "uncounted",
         totalOpen' = totalOpen, totalResolved' = totalResolved
  PROVE  totalOpen' + totalResolved' + Cardinality(UncountedOnes') = Cardinality(CountedOnes')
<1>1. CountedOnes' = CountedOnes
  BY DEF CountedOnes, NotCountedYet
<1>2. UncountedOnes' = UncountedOnes
  BY DEF UncountedOnes, HandlerAt
<1>. QED  BY <1>1, <1>2 DEF QueueInv

\* A step of the only request in flight, when it leaves the desk tidy.
LEMMA SerialStep ==
  ASSUME DeskInv', NEW r \in Handlers, Handling \subseteq {r},
         \A x \in Handlers \ {r} : handler'[x] = handler[x], Tidy(handler[r], r)'
  PROVE  SerialInv'
<1>1. \A x \in Handlers \ {r} : handler'[x].at \in {"idle", "done"}
  BY DEF Handling
<1>2. \A x, y \in Handling' : x = y
  BY <1>1 DEF Handling
<1>3. ASSUME NEW s \in Handlers, Handling' \subseteq {s} PROVE Tidy(handler[s], s)'
  <2>1. CASE s = r
    BY <2>1
  <2>2. CASE s # r
    <3>. PICK h, g : h = handler'[r] /\ g = handler'[s]
      OBVIOUS
    <3>1. h.at \in {"idle", "done"} /\ g.at \in {"idle", "done"}
      BY <1>1, <1>3, <2>2 DEF Handling
    <3>2. Tidy(h, r)'
      OBVIOUS
    <3>3. Tidy(g, s)'
      BY <3>1, <3>2 DEF Tidy, StageOK, QueuedBy, IndexedBy, CountedBy, EndedBy, Filing, Unqueued,
         Unindexed, Uncounted, Resolving
    <3>. QED  BY <3>3
  <2>. QED  BY <2>1, <2>2
<1>. QED  BY <1>2, <1>3 DEF SerialInv

\* The steps of a request that write none of the desk's keys.
Quiet(r) ==
    /\ UNCHANGED <<deskVars, missed>>
    /\ \A x \in Handlers \ {r} : handler'[x] = handler[x]
    /\ handler'[r].case = handler[r].case /\ handler'[r].charge = handler[r].charge
    /\ \/ handler[r].at = "checked" /\ handler'[r].at \in {"frozen", "done"}
       \/ handler[r].at = "recorded" /\ handler'[r].at = "listed"
       \/ handler[r].at \in {"counted", "looked", "refunding", "refunded"}
          /\ handler'[r].at \in {"refunding", "refunded", "settled", "done"}
       \/ handler[r].at = "rejected" /\ handler'[r].at = "closing"

LEMMA QuietSteps ==
  ASSUME DeskInv, NEW r \in Handlers, missed' = missed,
         \/ FreezeOrFind(r) \/ List(r) \/ LeaveToAdmin(r)
         \/ \E d \in HandlerDays : AutoRefund(r, d) \/ RefundFull(r, d) \/ RefundPartial(r, d)
         \/ CascadeSucceeds(r) \/ CascadeRollsBack(r) \/ RefundRefused(r)
         \/ UnfreezeBefore(r) \/ UnfreezeAfter(r)
  PROVE  Quiet(r)
<1>1. handler \in [Handlers -> HandlerState]
  BY DEF DeskInv, DeskTypes
<1>2. \A st \in HandlerStages : HandlerGoto(r, st) =>
         /\ \A x \in Handlers \ {r} : handler'[x] = handler[x]
         /\ handler'[r].at = st /\ handler'[r].case = handler[r].case
         /\ handler'[r].charge = handler[r].charge
  BY Went DEF DeskInv
<1>3. CASE FreezeOrFind(r)
  <2>. PICK c : c = OnCharge(r)
    OBVIOUS
  <2>. PICK st : st = IF charge'[c].status = "disputed" THEN "frozen" ELSE "done"
    OBVIOUS
  <2>1. /\ handler[r].at = "checked" /\ UNCHANGED deskVars
        /\ handler' = [handler EXCEPT ![r].at = st, ![r].cents = charge[c].amount]
    BY <1>3 DEF FreezeOrFind, HandlerAt
  <2>2. /\ \A x \in Handlers \ {r} : handler'[x] = handler[x]
        /\ handler'[r].at = st
        /\ handler'[r].case = handler[r].case /\ handler'[r].charge = handler[r].charge
    BY <1>1, <2>1 DEF HandlerState
  <2>. QED  BY <2>1, <2>2 DEF Quiet
<1>4. ASSUME NEW st \in HandlerStages, HandlerGoto(r, st), UNCHANGED deskVars,
             \/ handler[r].at = "recorded" /\ st = "listed"
             \/ handler[r].at \in {"counted", "looked", "refunding", "refunded"}
                /\ st \in {"refunding", "refunded", "settled", "done"}
             \/ handler[r].at = "rejected" /\ st = "closing"
      PROVE  Quiet(r)
  BY <1>2, <1>4 DEF Quiet
<1>. USE DEF HandlerAt, HandlerStages, OpenerStages, ResolverStages, Acts
<1>5. CASE \/ List(r) \/ LeaveToAdmin(r) \/ CascadeSucceeds(r) \/ CascadeRollsBack(r)
           \/ RefundRefused(r)
  BY <1>4, <1>5 DEF List, LeaveToAdmin, CascadeSucceeds, CascadeRollsBack, RefundRefused
<1>6. CASE UnfreezeBefore(r) \/ UnfreezeAfter(r)
  BY <1>4, <1>6 DEF UnfreezeBefore, UnfreezeAfter
<1>7. ASSUME NEW d \in HandlerDays, AutoRefund(r, d) \/ RefundFull(r, d) \/ RefundPartial(r, d)
      PROVE  Quiet(r)
  BY <1>4, <1>7 DEF AutoRefund, RefundFull, RefundPartial
<1>. QED  BY <1>3, <1>5, <1>6, <1>7

LEMMA QuietServes ==
  ASSUME DeskInv, DeskInv', QueueInv, NEW r \in Handlers, Quiet(r)
  PROVE  QueueInv' /\ (SerialInv /\ Handling \subseteq {r} => SerialInv')
<1>. PICK h, g : h = handler[r] /\ g = handler'[r]
  OBVIOUS
<1>1. /\ dispute' = dispute /\ byCharge' = byCharge /\ pending' = pending
      /\ totalOpen' = totalOpen /\ totalResolved' = totalResolved /\ missed' = missed
      /\ \A x \in Handlers \ {r} : handler'[x] = handler[x]
      /\ g.case = h.case /\ g.charge = h.charge
      /\ \/ h.at = "checked" /\ g.at \in {"frozen", "done"}
         \/ h.at = "recorded" /\ g.at = "listed"
         \/ h.at \in {"counted", "looked", "refunding", "refunded"}
            /\ g.at \in {"refunding", "refunded", "settled", "done"}
         \/ h.at = "rejected" /\ g.at = "closing"
  BY DEF Quiet, deskVars
<1>2. h.at = "checked" => ~IsRecorded(r)
  BY Known DEF HandlerOK, IsRecorded, NoDispute
<1>3. \A d \in Handlers : d \in pending' \/ NotQueuedYet(d)' => OffQueue(d)'
  BY <1>1, OpenedStay, QueueStays DEF OffQueue, NotQueuedYet
<1>4. totalOpen' + totalResolved' + Cardinality(UncountedOnes') = Cardinality(CountedOnes')
  BY <1>1, <1>2, OpenedStay, CountsStay DEF NotCountedYet
<1>5. ASSUME SerialInv, Handling \subseteq {r} PROVE SerialInv'
  <2>1. Tidy(h, r)
    BY <1>5 DEF SerialInv
  <2>2. StageOK(g)'
    BY <1>1, <2>1, OpenedStay DEF Tidy, StageOK, Filing, Unindexed, Resolving
  <2>3. /\ QueuedBy(g, r)' = QueuedBy(h, r) /\ IndexedBy(g, r)' = IndexedBy(h, r)
        /\ CountedBy(g, r)' = CountedBy(h, r) /\ EndedBy(g)' = EndedBy(h)
    BY <1>1, OpenedStay DEF QueuedBy, IndexedBy, CountedBy, EndedBy, Unqueued, Unindexed,
       Uncounted, Resolving
  <2>4. Tidy(g, r)'
    BY <1>1, <2>1, <2>2, <2>3 DEF Tidy
  <2>. QED  BY <1>1, <1>5, <2>4, SerialStep
<1>. QED  BY <1>3, <1>4, <1>5 DEF QueueInv

LEMMA RecordServes ==
  ASSUME DeskInv, DeskInv', QueueInv, NEW r \in Handlers, Record(r), missed' = missed
  PROVE  QueueInv' /\ (SerialInv /\ Handling \subseteq {r} => SerialInv')
<1>. PICK h, g, c : h = handler[r] /\ g = handler'[r] /\ c = OnCharge(r)
  OBVIOUS
<1>1. /\ h.at = "frozen" /\ HandlerGoto(r, "recorded")
      /\ \A x \in Handlers \ {r} : dispute'[x] = dispute[x]
      /\ dispute'[r].status = "pending_review" /\ dispute'[r].charge = c
      /\ pending' = pending
      /\ byCharge' = byCharge /\ totalOpen' = totalOpen /\ totalResolved' = totalResolved
  BY DEF Record, HandlerAt, DeskInv, DeskTypes
<1>2. /\ h.case = r /\ dispute[r].status = "none" /\ c \in Charges /\ h.charge = c
  BY <1>1, Known DEF HandlerOK, OpenerStages, NoDispute, OnCharge
<1>3. /\ \A x \in Handlers \ {r} : handler'[x] = handler[x]
      /\ g.at = "recorded" /\ g.case = r /\ g.charge = c
  BY <1>1, <1>2, Went DEF DeskInv, HandlerStages, OpenerStages
<1>4. /\ \A x \in Handlers : IsOpen(x)' <=> IsOpen(x) \/ x = r
      /\ \A x \in Handlers \ {r} : IsRecorded(x)' <=> IsRecorded(x)
      /\ ~IsRecorded(r) /\ ~IsOpen(r)
  BY <1>1, <1>2 DEF IsOpen, IsRecorded, OpenStates
<1>5. \A d \in Handlers : d \in pending' \/ NotQueuedYet(d)' => OffQueue(d)'
  BY <1>1, <1>3, <1>4, QueueStays DEF OffQueue
<1>6. totalOpen' + totalResolved' + Cardinality(UncountedOnes') = Cardinality(CountedOnes')
  BY <1>1, <1>3, <1>4, CountsStay DEF NotCountedYet
<1>7. ASSUME SerialInv, Handling \subseteq {r} PROVE SerialInv'
  <2>1. Tidy(h, r)
    BY <1>7 DEF SerialInv
  <2>2. Opened' = Opened \cup {r} /\ r \notin Opened /\ Ended' = Ended
    BY <1>1, <1>2, <1>4 DEF Opened, Ended, TerminalStates
  <2>3. /\ QueuedBy(h, r) = Opened /\ IndexedBy(h, r) = Opened /\ CountedBy(h, r) = Opened
        /\ EndedBy(h) = Ended
    BY <1>1 DEF QueuedBy, IndexedBy, CountedBy, EndedBy, Unqueued, Unindexed, Uncounted, Resolving
  <2>4. /\ QueuedBy(g, r)' = Opened /\ IndexedBy(g, r)' = Opened /\ CountedBy(g, r)' = Opened
        /\ EndedBy(g)' = Ended
    BY <1>3, <2>2 DEF QueuedBy, IndexedBy, CountedBy, EndedBy, Unqueued, Unindexed, Uncounted,
       Resolving
  <2>5. StageOK(g)'
    BY <1>1, <1>2, <1>3, <1>4, <2>1 DEF Tidy, StageOK, Filing, Unindexed, Resolving
  <2>6. \A x \in Charges, d \in Handlers :
           byCharge'[x] = d <=> dispute'[d].charge = x /\ d \in IndexedBy(g, r)'
    BY <1>1, <2>1, <2>2, <2>3, <2>4 DEF Tidy
  <2>7. Tidy(g, r)'
    BY <1>1, <2>1, <2>3, <2>4, <2>5, <2>6 DEF Tidy
  <2>. QED  BY <1>3, <1>7, <2>7, SerialStep
<1>. QED  BY <1>5, <1>6, <1>7 DEF QueueInv

LEMMA QueueServes ==
  ASSUME DeskInv, DeskInv', QueueInv, NEW r \in Handlers, Queue(r), missed' = missed
  PROVE  QueueInv' /\ (SerialInv /\ Handling \subseteq {r} => SerialInv')
<1>. PICK h, g : h = handler[r] /\ g = handler'[r]
  OBVIOUS
<1>1. /\ h.at = "listed" /\ HandlerGoto(r, "queued") /\ dispute' = dispute
      /\ pending' = pending \cup {r}
      /\ byCharge' = byCharge /\ totalOpen' = totalOpen /\ totalResolved' = totalResolved
  BY DEF Queue, HandlerAt
<1>2. h.case = r
  BY <1>1, Known DEF HandlerOK, OpenerStages
<1>3. /\ \A x \in Handlers \ {r} : handler'[x] = handler[x]
      /\ g.at = "queued" /\ g.case = r /\ g.charge = h.charge
  BY <1>1, <1>2, Went DEF DeskInv, HandlerStages, OpenerStages
<1>4. \A d \in Handlers : d \in pending' \/ NotQueuedYet(d)' => OffQueue(d)'
  BY <1>1, <1>3, OpenedStay, QueueStays DEF OffQueue, NotQueuedYet, DeskInv, DeskTypes
<1>5. totalOpen' + totalResolved' + Cardinality(UncountedOnes') = Cardinality(CountedOnes')
  BY <1>1, <1>3, OpenedStay, CountsStay DEF NotCountedYet
<1>6. ASSUME SerialInv, Handling \subseteq {r} PROVE SerialInv'
  <2>1. Tidy(h, r)
    BY <1>6 DEF SerialInv
  <2>2. r \in Opened
    BY <1>1, <1>2, <2>1 DEF Tidy, StageOK, Filing, Opened
  <2>3. /\ QueuedBy(h, r) = Opened \ {r} /\ QueuedBy(g, r)' = Opened
        /\ IndexedBy(g, r)' = IndexedBy(h, r) /\ CountedBy(g, r)' = CountedBy(h, r)
        /\ EndedBy(g)' = EndedBy(h)
    BY <1>1, <1>3, OpenedStay DEF QueuedBy, IndexedBy, CountedBy, EndedBy, Unqueued, Unindexed,
       Uncounted, Resolving
  <2>4. StageOK(g)'
    BY <1>1, <1>2, <1>3, <2>1, OpenedStay DEF Tidy, StageOK, Filing, Unindexed, Resolving
  <2>5. pending' = QueuedBy(g, r)'
    BY <1>1, <2>1, <2>2, <2>3 DEF Tidy
  <2>6. Tidy(g, r)'
    BY <1>1, <2>1, <2>3, <2>4, <2>5 DEF Tidy
  <2>. QED  BY <1>3, <1>6, <2>6, SerialStep
<1>. QED  BY <1>4, <1>5, <1>6 DEF QueueInv

LEMMA IndexServes ==
  ASSUME DeskInv, DeskInv', QueueInv, NEW r \in Handlers, Index(r), missed' = missed
  PROVE  QueueInv' /\ (SerialInv /\ Handling \subseteq {r} => SerialInv')
<1>. PICK h, g, c : h = handler[r] /\ g = handler'[r] /\ c = OnCharge(r)
  OBVIOUS
<1>1. /\ h.at = "queued" /\ HandlerGoto(r, "indexed") /\ dispute' = dispute
      /\ byCharge' = [byCharge EXCEPT ![c] = r]
      /\ pending' = pending /\ totalOpen' = totalOpen /\ totalResolved' = totalResolved
  BY DEF Index, HandlerAt
<1>2. h.case = r /\ c \in Charges /\ h.charge = c /\ dispute[r].charge = c
  BY <1>1, Known DEF HandlerOK, OpenerStages, HasCase, Filing, OnCharge
<1>3. /\ \A x \in Handlers \ {r} : handler'[x] = handler[x]
      /\ g.at = "indexed" /\ g.case = r /\ g.charge = c
  BY <1>1, <1>2, Went DEF DeskInv, HandlerStages, OpenerStages
<1>4. \A d \in Handlers : d \in pending' \/ NotQueuedYet(d)' => OffQueue(d)'
  BY <1>1, <1>3, OpenedStay, QueueStays DEF OffQueue, NotQueuedYet
<1>5. totalOpen' + totalResolved' + Cardinality(UncountedOnes') = Cardinality(CountedOnes')
  BY <1>1, <1>3, OpenedStay, CountsStay DEF NotCountedYet
<1>6. ASSUME SerialInv, Handling \subseteq {r} PROVE SerialInv'
  <2>1. Tidy(h, r)
    BY <1>6 DEF SerialInv
  <2>2. r \in Opened /\ byCharge[c] = NoOne
    BY <1>1, <1>2, <2>1 DEF Tidy, StageOK, Filing, Unindexed, Opened
  <2>3. /\ IndexedBy(h, r) = Opened \ {r} /\ IndexedBy(g, r)' = Opened
        /\ QueuedBy(g, r)' = QueuedBy(h, r) /\ CountedBy(g, r)' = CountedBy(h, r)
        /\ EndedBy(g)' = EndedBy(h)
    BY <1>1, <1>3, OpenedStay DEF QueuedBy, IndexedBy, CountedBy, EndedBy, Unqueued, Unindexed,
       Uncounted, Resolving
  <2>4. StageOK(g)'
    BY <1>1, <1>2, <1>3, <2>1, OpenedStay DEF Tidy, StageOK, Filing, Unindexed, Resolving
  <2>5. \A x \in Charges, d \in Handlers :
           byCharge'[x] = d <=> dispute'[d].charge = x /\ d \in IndexedBy(g, r)'
    <3>1. \A x \in Charges, d \in Handlers :
             byCharge[x] = d <=> dispute[d].charge = x /\ d \in Opened \ {r}
      BY <2>1, <2>3 DEF Tidy
    <3>2. byCharge'[c] = r /\ \A x \in Charges \ {c} : byCharge'[x] = byCharge[x]
      BY <1>1, <1>2 DEF DeskInv, DeskTypes
    <3>3. \A d \in Handlers : ~(dispute[d].charge = c /\ d \in Opened \ {r})
      BY <1>2, <2>2, <3>1
    <3>. QED  BY <1>1, <1>2, <2>2, <2>3, <3>1, <3>2, <3>3
  <2>6. Tidy(g, r)'
    BY <1>1, <2>1, <2>3, <2>4, <2>5 DEF Tidy
  <2>. QED  BY <1>3, <1>6, <2>6, SerialStep
<1>. QED  BY <1>4, <1>5, <1>6 DEF QueueInv

LEMMA CountServes ==
  ASSUME DeskInv, DeskInv', QueueInv, NEW r \in Handlers, Count(r), missed' = missed
  PROVE  QueueInv' /\ (SerialInv /\ Handling \subseteq {r} => SerialInv')
<1>. PICK h, g : h = handler[r] /\ g = handler'[r]
  OBVIOUS
<1>1. /\ h.at = "indexed" /\ HandlerGoto(r, "counted") /\ dispute' = dispute
      /\ byCharge' = byCharge /\ pending' = pending /\ totalOpen' = totalOpen + 1
      /\ totalResolved' = totalResolved
  BY DEF Count, HandlerAt
<1>2. h.case = r /\ IsRecorded(r)
  BY <1>1, Known DEF HandlerOK, OpenerStages, HasCase, Filing
<1>3. /\ \A x \in Handlers \ {r} : handler'[x] = handler[x]
      /\ g.at = "counted" /\ g.case = r /\ g.charge = h.charge
  BY <1>1, <1>2, Went DEF DeskInv, HandlerStages, OpenerStages
<1>4. \A d \in Handlers : d \in pending' \/ NotQueuedYet(d)' => OffQueue(d)'
  BY <1>1, <1>3, OpenedStay, QueueStays DEF OffQueue, NotQueuedYet
<1>5. totalOpen \in Int /\ totalResolved \in Int
  BY DEF DeskInv, DeskTypes
<1>6. totalOpen' + totalResolved' + Cardinality(UncountedOnes') = Cardinality(CountedOnes')
  <2>1. CountedOnes' = CountedOnes \cup {r} /\ r \notin CountedOnes
    BY <1>1, <1>2, <1>3, OpenedStay DEF CountedOnes, NotCountedYet
  <2>2. UncountedOnes' = UncountedOnes
    BY <1>1, <1>3 DEF UncountedOnes, HandlerAt
  <2>3. Cardinality(CountedOnes') = Cardinality(CountedOnes) + 1
    BY <2>1, DeskSets, FS_AddElement
  <2>. QED  BY <1>1, <1>5, <2>2, <2>3, DeskSets DEF QueueInv
<1>7. ASSUME SerialInv, Handling \subseteq {r} PROVE SerialInv'
  <2>1. Tidy(h, r)
    BY <1>7 DEF SerialInv
  <2>2. r \in Opened
    BY <1>1, <1>2, <2>1 DEF Tidy, StageOK, Filing, Opened
  <2>3. /\ CountedBy(h, r) = Opened \ {r} /\ CountedBy(g, r)' = Opened
        /\ QueuedBy(g, r)' = QueuedBy(h, r) /\ IndexedBy(g, r)' = IndexedBy(h, r)
        /\ EndedBy(g)' = EndedBy(h)
    BY <1>1, <1>3, OpenedStay DEF QueuedBy, IndexedBy, CountedBy, EndedBy, Unqueued, Unindexed,
       Uncounted, Resolving
  <2>4. StageOK(g)'
    BY <1>1, <1>2, <1>3, <2>1, OpenedStay DEF Tidy, StageOK, Filing, Unindexed, Resolving
  <2>5. totalOpen' = Cardinality(CountedBy(g, r)')
    <3>1. Cardinality(Opened \ {r}) = Cardinality(Opened) - 1
      BY <2>2, DeskSets, FS_RemoveElement
    <3>. QED  BY <1>1, <2>1, <2>3, <3>1, DeskSets DEF Tidy
  <2>6. Tidy(g, r)'
    BY <1>1, <2>1, <2>3, <2>4, <2>5 DEF Tidy
  <2>. QED  BY <1>3, <1>7, <2>6, SerialStep
<1>. QED  BY <1>4, <1>6, <1>7 DEF QueueInv

LEMMA CommentServes ==
  ASSUME DeskInv, DeskInv', QueueInv, NEW r \in Handlers, Comment(r), missed' = missed
  PROVE  QueueInv' /\ (SerialInv /\ Handling \subseteq {r} => SerialInv')
<1>. PICK h, g, d : h = handler[r] /\ g = handler'[r] /\ d = Case(r)
  OBVIOUS
<1>1. /\ h.at = "looked" /\ HandlerGoto(r, "done")
      /\ dispute' = [dispute EXCEPT ![d].status = "under_investigation"]
      /\ byCharge' = byCharge /\ pending' = pending /\ totalOpen' = totalOpen
      /\ totalResolved' = totalResolved
  BY DEF Comment, Acts, HandlerAt
<1>2. d \in Handlers /\ IsRecorded(d) /\ d = h.case
  BY <1>1, Known DEF HandlerOK, HasCase, ResolverStages, Case
<1>3. /\ \A x \in Handlers \ {r} : handler'[x] = handler[x]
      /\ g.at = "done"
  BY <1>1, Went DEF DeskInv, HandlerStages
<1>4. /\ dispute'[d].status = "under_investigation" /\ dispute'[d].charge = dispute[d].charge
      /\ \A x \in Handlers \ {d} : dispute'[x] = dispute[x]
  BY <1>1, <1>2 DEF DeskInv, DeskTypes, DisputeRow
<1>5. /\ \A x \in Handlers : IsOpen(x)' <=> IsOpen(x) \/ x = d
      /\ \A x \in Handlers : IsRecorded(x)' <=> IsRecorded(x)
  BY <1>2, <1>4 DEF IsOpen, IsRecorded, OpenStates
<1>6. \A x \in Handlers : x \in pending' \/ NotQueuedYet(x)' => OffQueue(x)'
  BY <1>1, <1>3, <1>5, QueueStays DEF OffQueue, NotQueuedYet
<1>7. totalOpen' + totalResolved' + Cardinality(UncountedOnes') = Cardinality(CountedOnes')
  BY <1>1, <1>3, <1>5, CountsStay DEF NotCountedYet
<1>8. ASSUME SerialInv, Handling \subseteq {r} PROVE SerialInv'
  <2>1. Tidy(h, r)
    BY <1>8 DEF SerialInv
  <2>2. IsOpen(d)
    BY <1>1, <1>2, <2>1 DEF Tidy, StageOK
  <2>3. Opened' = Opened /\ Ended' = Ended
    BY <1>4, <1>5, <2>2 DEF Opened, Ended, IsOpen, OpenStates, TerminalStates
  <2>4. /\ QueuedBy(g, r)' = QueuedBy(h, r) /\ IndexedBy(g, r)' = IndexedBy(h, r)
        /\ CountedBy(g, r)' = CountedBy(h, r) /\ EndedBy(g)' = EndedBy(h)
    BY <1>1, <1>3, <2>3 DEF QueuedBy, IndexedBy, CountedBy, EndedBy, Unqueued, Unindexed,
       Uncounted, Resolving
  <2>5. StageOK(g)'
    BY <1>3 DEF StageOK, Filing, Unindexed, Resolving
  <2>6. \A x \in Handlers : dispute'[x].charge = dispute[x].charge
    BY <1>4
  <2>7. Tidy(g, r)'
    BY <1>1, <2>1, <2>4, <2>5, <2>6 DEF Tidy
  <2>. QED  BY <1>3, <1>8, <2>7, SerialStep
<1>. QED  BY <1>6, <1>7, <1>8 DEF QueueInv

LEMMA ResolveServes ==
  ASSUME DeskInv, DeskInv', QueueInv, NEW r \in Handlers, Resolve(r), missed' = missed
  PROVE  QueueInv' /\ (SerialInv /\ Handling \subseteq {r} => SerialInv')
<1>. PICK h, g, d : h = handler[r] /\ g = handler'[r] /\ d = Case(r)
  OBVIOUS
<1>. PICK row : row = Resolved(dispute[d], h.kind, h.cents)
  OBVIOUS
<1>1. /\ h.at = "settled" \/ (h.at = "looked" /\ h.kind = "reject")
      /\ HandlerGoto(r, "resolved") /\ pending' = pending /\ byCharge' = byCharge
      /\ dispute' = [dispute EXCEPT ![d] = row]
      /\ totalOpen' = totalOpen /\ totalResolved' = totalResolved
  <2>1. dispute' = [dispute EXCEPT ![d] = row]
    BY DEF Resolve
  <2>. QED  BY <2>1 DEF Resolve, Acts, HandlerAt
<1>2. /\ d \in Handlers /\ IsRecorded(d) /\ d = h.case
      /\ h.kind \in {"open", "refund_full", "refund_partial", "withdraw", "reject"}
  BY <1>1, Known DEF HandlerOK, HasCase, ResolverStages, Case
<1>3. /\ \A x \in Handlers \ {r} : handler'[x] = handler[x]
      /\ g.at = "resolved" /\ g.case = d
  BY <1>1, <1>2, Went DEF DeskInv, HandlerStages, ResolverStages
<1>4. row.status \in TerminalStates /\ row.charge = dispute[d].charge
  BY <1>2 DEF Resolved, Outcome, TerminalStates
<1>5. /\ dispute'[d].status \in TerminalStates /\ dispute'[d].charge = dispute[d].charge
      /\ \A x \in Handlers \ {d} : dispute'[x] = dispute[x]
  BY <1>1, <1>2, <1>4 DEF DeskInv, DeskTypes
<1>6. /\ \A x \in Handlers : IsOpen(x)' <=> IsOpen(x) /\ x # d
      /\ \A x \in Handlers : IsRecorded(x)' <=> IsRecorded(x)
  BY <1>2, <1>5 DEF IsOpen, IsRecorded, OpenStates, TerminalStates
<1>7. \A x \in Handlers : x \in pending' \/ NotQueuedYet(x)' => OffQueue(x)'
  <2>1. Dequeuing(d)'
    BY <1>2, <1>3 DEF Dequeuing, HandlerAt, Case
  <2>2. ASSUME NEW x \in Handlers, Dequeuing(x) PROVE Dequeuing(x)'
    BY <1>1, <1>3, <2>2 DEF Dequeuing, HandlerAt, Case
  <2>3. \A x \in Handlers : NotQueuedYet(x)' => NotQueuedYet(x)
    BY <1>3 DEF NotQueuedYet
  <2>. QED  BY <1>1, <1>6, <2>1, <2>2, <2>3 DEF QueueInv, OffQueue
<1>8. totalOpen' + totalResolved' + Cardinality(UncountedOnes') = Cardinality(CountedOnes')
  BY <1>1, <1>3, <1>6, CountsStay DEF NotCountedYet
<1>9. ASSUME SerialInv, Handling \subseteq {r} PROVE SerialInv'
  <2>1. Tidy(h, r)
    BY <1>9 DEF SerialInv
  <2>2. d \in Opened /\ d \notin Ended
    BY <1>1, <1>2, <2>1 DEF Tidy, StageOK, Opened, Ended, IsOpen, OpenStates, TerminalStates
  <2>3. Opened' = Opened \ {d} /\ Ended' = Ended \cup {d}
    BY <1>2, <1>5, <1>6 DEF Opened, Ended
  <2>4. /\ QueuedBy(h, r) = Opened /\ IndexedBy(h, r) = Opened /\ CountedBy(h, r) = Opened
        /\ EndedBy(h) = Ended
    BY <1>1 DEF QueuedBy, IndexedBy, CountedBy, EndedBy, Unqueued, Unindexed, Uncounted, Resolving
  <2>5. /\ QueuedBy(g, r)' = Opened /\ IndexedBy(g, r)' = Opened /\ CountedBy(g, r)' = Opened
        /\ EndedBy(g)' = Ended
    BY <1>3, <2>2, <2>3 DEF QueuedBy, IndexedBy, CountedBy, EndedBy, Unqueued, Unindexed,
       Uncounted, Resolving
  <2>6. StageOK(g)'
    BY <1>3, <2>3 DEF StageOK, Filing, Unindexed, Resolving
  <2>7. \A x \in Handlers : dispute'[x].charge = dispute[x].charge
    BY <1>5
  <2>8. Tidy(g, r)'
    BY <1>1, <2>1, <2>4, <2>5, <2>6, <2>7 DEF Tidy
  <2>. QED  BY <1>3, <1>9, <2>8, SerialStep
<1>. QED  BY <1>7, <1>8, <1>9 DEF QueueInv

\* Off the queue, or never on it.
LEMMA DequeueServes ==
  ASSUME DeskInv, DeskInv', QueueInv, NEW r \in Handlers, Dequeue(r)
  PROVE  QueueInv' /\ (SerialInv /\ Handling \subseteq {r} => SerialInv')
<1>. PICK h, g, d : h = handler[r] /\ g = handler'[r] /\ d = Case(r)
  OBVIOUS
<1>1. /\ h.at = "resolved" /\ HandlerGoto(r, "dequeued") /\ dispute' = dispute
      /\ pending' = pending \ {d} /\ byCharge' = byCharge
      /\ missed' = (IF NotQueuedYet(d) THEN missed \cup {d} ELSE missed)
      /\ totalOpen' = totalOpen /\ totalResolved' = totalResolved
  BY DEF Dequeue, HandlerAt
<1>2. d \in Handlers /\ d = h.case
  BY <1>1, Known DEF Case
<1>3. /\ \A x \in Handlers \ {r} : handler'[x] = handler[x]
      /\ g.at = "dequeued" /\ g.case = d
  BY <1>1, <1>2, Went DEF DeskInv, HandlerStages, ResolverStages
<1>4. \A x \in Handlers : x \in pending' \/ NotQueuedYet(x)' => OffQueue(x)'
  <2>1. ASSUME NEW x \in Handlers, Dequeuing(x), x # d PROVE Dequeuing(x)'
    BY <1>2, <1>3, <2>1 DEF Dequeuing, HandlerAt, Case
  <2>2. \A x \in Handlers : NotQueuedYet(x)' => NotQueuedYet(x)
    BY <1>3 DEF NotQueuedYet
  <2>. QED  BY <1>1, <2>1, <2>2, OpenedStay DEF QueueInv, OffQueue
<1>5. totalOpen' + totalResolved' + Cardinality(UncountedOnes') = Cardinality(CountedOnes')
  BY <1>1, <1>3, OpenedStay, CountsStay DEF NotCountedYet
<1>6. ASSUME SerialInv, Handling \subseteq {r} PROVE SerialInv'
  <2>1. Tidy(h, r)
    BY <1>6 DEF SerialInv
  <2>2. d \notin Opened
    BY <1>1, <1>2, <2>1 DEF Tidy, StageOK, Resolving, Opened, Ended, IsOpen, OpenStates,
       TerminalStates
  <2>3. /\ QueuedBy(h, r) = Opened \cup {d} /\ QueuedBy(g, r)' = Opened
        /\ IndexedBy(g, r)' = IndexedBy(h, r) /\ CountedBy(g, r)' = CountedBy(h, r)
        /\ EndedBy(g)' = EndedBy(h)
    BY <1>1, <1>2, <1>3, OpenedStay DEF QueuedBy, IndexedBy, CountedBy, EndedBy, Unqueued,
       Unindexed, Uncounted, Resolving
  <2>4. StageOK(g)'
    BY <1>1, <1>2, <1>3, <2>1, OpenedStay DEF Tidy, StageOK, Filing, Unindexed, Resolving
  <2>5. pending' = QueuedBy(g, r)'
    BY <1>1, <2>1, <2>2, <2>3 DEF Tidy
  <2>6. Tidy(g, r)'
    BY <1>1, <2>1, <2>3, <2>4, <2>5 DEF Tidy
  <2>. QED  BY <1>3, <1>6, <2>6, SerialStep
<1>. QED  BY <1>4, <1>5, <1>6 DEF QueueInv

LEMMA NoLongerOpenServes ==
  ASSUME DeskInv, DeskInv', QueueInv, NEW r \in Handlers, CountNoLongerOpen(r), missed' = missed
  PROVE  QueueInv' /\ (SerialInv /\ Handling \subseteq {r} => SerialInv')
<1>. PICK h, g, d : h = handler[r] /\ g = handler'[r] /\ d = Case(r)
  OBVIOUS
<1>1. /\ h.at = "dequeued" /\ HandlerGoto(r, "uncounted") /\ dispute' = dispute
      /\ pending' = pending /\ byCharge' = byCharge
      /\ totalOpen' = totalOpen - 1 /\ totalResolved' = totalResolved
  BY DEF CountNoLongerOpen, HandlerAt
<1>2. d \in Handlers /\ d = h.case
  BY <1>1, Known DEF Case
<1>3. /\ \A x \in Handlers \ {r} : handler'[x] = handler[x]
      /\ g.at = "uncounted" /\ g.case = d
  BY <1>1, <1>2, Went DEF DeskInv, HandlerStages, ResolverStages
<1>4. \A x \in Handlers : x \in pending' \/ NotQueuedYet(x)' => OffQueue(x)'
  BY <1>1, <1>3, OpenedStay, QueueStays DEF OffQueue, NotQueuedYet
<1>5. totalOpen \in Int /\ totalResolved \in Int
  BY DEF DeskInv, DeskTypes
<1>6. totalOpen' + totalResolved' + Cardinality(UncountedOnes') = Cardinality(CountedOnes')
  <2>1. CountedOnes' = CountedOnes
    BY <1>1, <1>3, OpenedStay DEF CountedOnes, NotCountedYet
  <2>2. UncountedOnes' = UncountedOnes \cup {r} /\ r \notin UncountedOnes
    BY <1>1, <1>3 DEF UncountedOnes, HandlerAt
  <2>3. Cardinality(UncountedOnes') = Cardinality(UncountedOnes) + 1
    BY <2>2, DeskSets, FS_AddElement
  <2>. QED  BY <1>1, <1>5, <2>1, <2>3, DeskSets DEF QueueInv
<1>7. ASSUME SerialInv, Handling \subseteq {r} PROVE SerialInv'
  <2>1. Tidy(h, r)
    BY <1>7 DEF SerialInv
  <2>2. d \notin Opened
    BY <1>1, <1>2, <2>1 DEF Tidy, StageOK, Resolving, Opened, Ended, IsOpen, OpenStates,
       TerminalStates
  <2>3. /\ CountedBy(h, r) = Opened \cup {d} /\ CountedBy(g, r)' = Opened
        /\ QueuedBy(g, r)' = QueuedBy(h, r) /\ IndexedBy(g, r)' = IndexedBy(h, r)
        /\ EndedBy(g)' = EndedBy(h)
    BY <1>1, <1>2, <1>3, OpenedStay DEF QueuedBy, IndexedBy, CountedBy, EndedBy, Unqueued,
       Unindexed, Uncounted, Resolving
  <2>4. StageOK(g)'
    BY <1>1, <1>2, <1>3, <2>1, OpenedStay DEF Tidy, StageOK, Filing, Unindexed, Resolving
  <2>5. totalOpen' = Cardinality(CountedBy(g, r)')
    <3>1. Cardinality(Opened \cup {d}) = Cardinality(Opened) + 1
      BY <2>2, DeskSets, FS_AddElement
    <3>. QED  BY <1>1, <2>1, <2>3, <3>1, DeskSets DEF Tidy
  <2>6. Tidy(g, r)'
    BY <1>1, <2>1, <2>3, <2>4, <2>5 DEF Tidy
  <2>. QED  BY <1>3, <1>7, <2>6, SerialStep
<1>. QED  BY <1>4, <1>6, <1>7 DEF QueueInv

LEMMA CountResolvedServes ==
  ASSUME DeskInv, DeskInv', QueueInv, NEW r \in Handlers, CountResolved(r), missed' = missed
  PROVE  QueueInv' /\ (SerialInv /\ Handling \subseteq {r} => SerialInv')
<1>. PICK h, g, d : h = handler[r] /\ g = handler'[r] /\ d = Case(r)
  OBVIOUS
<1>. PICK st : st = IF h.kind = "reject" THEN "rejected" ELSE "closing"
  OBVIOUS
<1>1. /\ h.at = "uncounted" /\ HandlerGoto(r, st) /\ dispute' = dispute
      /\ pending' = pending /\ byCharge' = byCharge
      /\ totalOpen' = totalOpen /\ totalResolved' = totalResolved + 1
  <2>1. HandlerGoto(r, st)
    BY DEF CountResolved
  <2>. QED  BY <2>1 DEF CountResolved, HandlerAt
<1>2. d \in Handlers /\ d = h.case
  BY <1>1, Known DEF Case
<1>3. /\ \A x \in Handlers \ {r} : handler'[x] = handler[x]
      /\ g.at \in {"rejected", "closing"} /\ g.case = d
  BY <1>1, <1>2, Went DEF DeskInv, HandlerStages, ResolverStages
<1>4. \A x \in Handlers : x \in pending' \/ NotQueuedYet(x)' => OffQueue(x)'
  BY <1>1, <1>3, OpenedStay, QueueStays DEF OffQueue, NotQueuedYet
<1>5. totalOpen \in Int /\ totalResolved \in Int
  BY DEF DeskInv, DeskTypes
<1>6. totalOpen' + totalResolved' + Cardinality(UncountedOnes') = Cardinality(CountedOnes')
  <2>1. CountedOnes' = CountedOnes
    BY <1>1, <1>3, OpenedStay DEF CountedOnes, NotCountedYet
  <2>2. UncountedOnes' = UncountedOnes \ {r} /\ r \in UncountedOnes
    BY <1>1, <1>3 DEF UncountedOnes, HandlerAt
  <2>3. Cardinality(UncountedOnes') = Cardinality(UncountedOnes) - 1
    BY <2>2, DeskSets, FS_RemoveElement
  <2>. QED  BY <1>1, <1>5, <2>1, <2>3, DeskSets DEF QueueInv
<1>7. ASSUME SerialInv, Handling \subseteq {r} PROVE SerialInv'
  <2>1. Tidy(h, r)
    BY <1>7 DEF SerialInv
  <2>2. d \in Ended
    BY <1>1, <1>2, <2>1 DEF Tidy, StageOK, Resolving
  <2>3. /\ EndedBy(h) = Ended \ {d} /\ EndedBy(g)' = Ended
        /\ QueuedBy(g, r)' = QueuedBy(h, r) /\ IndexedBy(g, r)' = IndexedBy(h, r)
        /\ CountedBy(g, r)' = CountedBy(h, r)
    BY <1>1, <1>2, <1>3, OpenedStay DEF QueuedBy, IndexedBy, CountedBy, EndedBy, Unqueued,
       Unindexed, Uncounted, Resolving
  <2>4. StageOK(g)'
    BY <1>1, <1>3, <2>2, OpenedStay DEF StageOK, Filing, Unindexed, Resolving
  <2>5. totalResolved' = Cardinality(EndedBy(g)')
    <3>1. Cardinality(Ended \ {d}) = Cardinality(Ended) - 1
      BY <2>2, DeskSets, FS_RemoveElement
    <3>. QED  BY <1>1, <2>1, <2>3, <3>1, DeskSets DEF Tidy
  <2>6. Tidy(g, r)'
    BY <1>1, <2>1, <2>3, <2>4, <2>5 DEF Tidy
  <2>. QED  BY <1>3, <1>7, <2>6, SerialStep
<1>. QED  BY <1>4, <1>6, <1>7 DEF QueueInv

LEMMA CloseServes ==
  ASSUME DeskInv, DeskInv', QueueInv, NEW r \in Handlers, Close(r), missed' = missed
  PROVE  QueueInv' /\ (SerialInv /\ Handling \subseteq {r} => SerialInv')
<1>. PICK h, g, c, d : h = handler[r] /\ g = handler'[r] /\ c = OnCharge(r) /\ d = Case(r)
  OBVIOUS
<1>1. /\ h.at = "closing" /\ HandlerGoto(r, "done") /\ dispute' = dispute
      /\ byCharge' = [byCharge EXCEPT ![c] = NoOne] /\ pending' = pending
      /\ totalOpen' = totalOpen /\ totalResolved' = totalResolved
  BY DEF Close, HandlerAt
<1>2. /\ d \in Handlers /\ d = h.case /\ c \in Charges /\ dispute[d].charge = c
  BY <1>1, Known DEF HandlerOK, HasCase, ResolverStages, OnCharge, Case
<1>3. (\A x \in Handlers \ {r} : handler'[x] = handler[x]) /\ g.at = "done"
  BY <1>1, Went DEF DeskInv, HandlerStages
<1>4. \A x \in Handlers : x \in pending' \/ NotQueuedYet(x)' => OffQueue(x)'
  BY <1>1, <1>3, OpenedStay, QueueStays DEF OffQueue, NotQueuedYet
<1>5. totalOpen' + totalResolved' + Cardinality(UncountedOnes') = Cardinality(CountedOnes')
  BY <1>1, <1>3, OpenedStay, CountsStay DEF NotCountedYet
<1>6. ASSUME SerialInv, Handling \subseteq {r} PROVE SerialInv'
  <2>1. Tidy(h, r)
    BY <1>6 DEF SerialInv
  <2>2. d \notin Opened
    BY <1>1, <1>2, <2>1 DEF Tidy, StageOK, Resolving, Opened, Ended, IsOpen, OpenStates,
       TerminalStates
  <2>3. /\ IndexedBy(h, r) = Opened \cup {d} /\ IndexedBy(g, r)' = Opened
        /\ QueuedBy(g, r)' = QueuedBy(h, r) /\ CountedBy(g, r)' = CountedBy(h, r)
        /\ EndedBy(g)' = EndedBy(h)
    BY <1>1, <1>2, <1>3, OpenedStay DEF QueuedBy, IndexedBy, CountedBy, EndedBy, Unqueued,
       Unindexed, Uncounted, Resolving
  <2>4. StageOK(g)'
    BY <1>3 DEF StageOK, Filing, Unindexed, Resolving
  <2>5. \A x \in Charges, y \in Handlers :
           byCharge'[x] = y <=> dispute'[y].charge = x /\ y \in IndexedBy(g, r)'
    <3>1. \A x \in Charges, y \in Handlers :
             byCharge[x] = y <=> dispute[y].charge = x /\ y \in Opened \cup {d}
      BY <2>1, <2>3 DEF Tidy
    <3>2. byCharge'[c] = NoOne /\ \A x \in Charges \ {c} : byCharge'[x] = byCharge[x]
      BY <1>1, <1>2 DEF DeskInv, DeskTypes
    <3>3. byCharge[c] = d
      BY <1>2, <3>1
    <3>. QED  BY <1>1, <1>2, <2>2, <2>3, <3>1, <3>2, <3>3
  <2>6. Tidy(g, r)'
    BY <1>1, <2>1, <2>3, <2>4, <2>5 DEF Tidy
  <2>. QED  BY <1>3, <1>6, <2>6, SerialStep
<1>. QED  BY <1>4, <1>5, <1>6 DEF QueueInv

\* A request that begins alone finds the desk at rest.
LEMMA BeginServes ==
  ASSUME DeskInv, DeskInv', QueueInv, NEW r \in Handlers, Begin(r)
  PROVE  /\ QueueInv'
         /\ ~overlapped' => ~overlapped /\ Handling = {}
         /\ SerialInv /\ Handling = {} => SerialInv'
<1>. DEFINE Began(h) == /\ handler[r].at = "idle" /\ handler' = [handler EXCEPT ![r] = h]
                        /\ overlapped' = (overlapped \/ Handling # {})
                        /\ UNCHANGED <<deskVars, missed>>
                        /\ \/ h.at = "checked" /\ byCharge[h.charge] = NoOne
                           \/ h.at = "looked" /\ IsOpen(h.case)
                           \/ h.at = "done"
<1>1. PICK g : Began(g)
  <2>1. ASSUME NEW c \in Charges, Open(r, c) PROVE \E h : Began(h)
    <3>. PICK h : h = [at |-> IF byCharge[c] = NoOne THEN "checked" ELSE "done",
                       kind |-> "open", case |-> r, charge |-> c, cents |-> 0]
      OBVIOUS
    <3>1. (h.at = "checked" /\ byCharge[h.charge] = NoOne) \/ h.at = "done"
      OBVIOUS
    <3>2. Began(h)
      BY <2>1, <3>1 DEF Open, Arrives, HandlerAt
    <3>. QED  BY <3>2
  <2>2. ASSUME NEW d \in Handlers, NEW kind \in Kinds \ {"open"}, NEW cents \in Amounts,
               Look(r, d, kind, cents)
        PROVE  \E h : Began(h)
    <3>. PICK h : h = [at |-> IF WantsToAct(d, kind, cents) THEN "looked" ELSE "done",
                       kind |-> kind, case |-> d, charge |-> dispute[d].charge,
                       cents |-> IF kind = "refund_partial" THEN cents
                                 ELSE IF kind = "refund_full" THEN dispute[d].amount ELSE 0]
      OBVIOUS
    <3>1. WantsToAct(d, kind, cents) => IsOpen(d)
      BY DEF WantsToAct, IsOpen, OpenStates
    <3>2. (h.at = "looked" /\ IsOpen(h.case)) \/ h.at = "done"
      BY <3>1
    <3>3. Began(h)
      BY <2>2, <3>2 DEF Look, Arrives, HandlerAt
    <3>. QED  BY <3>3
  <2>. QED  BY <2>1, <2>2 DEF Begin
<1>. PICK h : h = handler[r]
  OBVIOUS
<1>2. /\ h.at = "idle" /\ handler'[r] = g /\ \A x \in Handlers \ {r} : handler'[x] = handler[x]
      /\ dispute' = dispute /\ byCharge' = byCharge /\ pending' = pending
      /\ totalOpen' = totalOpen /\ totalResolved' = totalResolved /\ missed' = missed
      /\ g.at \in {"checked", "looked", "done"}
  BY <1>1 DEF DeskInv, DeskTypes, deskVars
<1>3. ~IsRecorded(r)
  BY <1>2, Known DEF HandlerOK, IsRecorded, NoDispute
<1>4. \A x \in Handlers : x \in pending' \/ NotQueuedYet(x)' => OffQueue(x)'
  BY <1>2, OpenedStay, QueueStays DEF OffQueue, NotQueuedYet
<1>5. totalOpen' + totalResolved' + Cardinality(UncountedOnes') = Cardinality(CountedOnes')
  BY <1>2, <1>3, OpenedStay, CountsStay DEF NotCountedYet
<1>6. ASSUME SerialInv, Handling = {} PROVE SerialInv'
  <2>1. Tidy(h, r)
    BY <1>6 DEF SerialInv
  <2>2. /\ QueuedBy(g, r)' = QueuedBy(h, r) /\ IndexedBy(g, r)' = IndexedBy(h, r)
        /\ CountedBy(g, r)' = CountedBy(h, r) /\ EndedBy(g)' = EndedBy(h)
    BY <1>2, OpenedStay DEF QueuedBy, IndexedBy, CountedBy, EndedBy, Unqueued, Unindexed,
       Uncounted, Resolving
  <2>3. StageOK(g)'
    BY <1>1, <1>2, OpenedStay DEF StageOK, Filing, Unindexed, Resolving
  <2>4. Tidy(g, r)'
    BY <1>2, <2>1, <2>2, <2>3 DEF Tidy
  <2>. QED  BY <1>2, <1>6, <2>4, SerialStep
<1>7. ~overlapped' => ~overlapped /\ Handling = {}
  BY <1>1
<1>. QED  BY <1>4, <1>5, <1>6, <1>7 DEF QueueInv

LEMMA RestServes ==
  ASSUME QueueInv, UNCHANGED <<deskVars, handler, missed>>
  PROVE  QueueInv' /\ (SerialInv => SerialInv')
<1>1. /\ dispute' = dispute /\ byCharge' = byCharge /\ pending' = pending
      /\ totalOpen' = totalOpen /\ totalResolved' = totalResolved /\ missed' = missed
      /\ handler' = handler
  BY DEF deskVars
<1>2. QueueInv'
  BY <1>1 DEF QueueInv, OffQueue, Dequeuing, NotQueuedYet, UncountedOnes, CountedOnes,
     NotCountedYet, IsOpen, IsRecorded, HandlerAt, Case
<1>3. ASSUME SerialInv PROVE SerialInv'
  <2>1. Handling' = Handling
    BY <1>1 DEF Handling
  <2>2. \A h, r : Tidy(h, r) => Tidy(h, r)'
    BY <1>1, OpenedStay DEF Tidy, StageOK, QueuedBy, IndexedBy, CountedBy, EndedBy
  <2>. QED  BY <1>1, <1>3, <2>1, <2>2 DEF SerialInv
<1>. QED  BY <1>2, <1>3

ServedInv == QueueInv /\ (~overlapped => SerialInv)

LEMMA ServedKeeps ==
  ASSUME DeskInv, DeskInv', ServedInv, [DeskNext]_disputeVars PROVE ServedInv'
<1>1. ASSUME UNCHANGED <<deskVars, handler, history>> PROVE ServedInv'
  BY <1>1, RestServes DEF ServedInv, history
<1>2. CASE WalletGoesOn
  BY <1>1, <1>2 DEF WalletGoesOn
<1>3. CASE UNCHANGED disputeVars
  BY <1>1, <1>3 DEF disputeVars
<1>4. ASSUME NEW r \in Handlers, Begin(r) PROVE ServedInv'
  BY <1>4, BeginServes DEF ServedInv
<1>5. ASSUME NEW r \in Handlers,
             (GoOn(r) /\ UNCHANGED history) \/ (Dequeue(r) /\ UNCHANGED overlapped)
      PROVE  ServedInv'
  <2>1. QueueInv' /\ (SerialInv /\ Handling \subseteq {r} => SerialInv')
    <3>. USE DEF ServedInv, history
    <3>1. CASE Dequeue(r)
      BY <3>1, DequeueServes
    <3>. SUFFICES ASSUME GoOn(r), missed' = missed
                  PROVE  QueueInv' /\ (SerialInv /\ Handling \subseteq {r} => SerialInv')
      BY <1>5, <3>1
    <3>2. CASE Record(r)
      BY <3>2, RecordServes
    <3>3. CASE Queue(r)
      BY <3>3, QueueServes
    <3>4. CASE Index(r)
      BY <3>4, IndexServes
    <3>5. CASE Count(r)
      BY <3>5, CountServes
    <3>6. CASE Comment(r)
      BY <3>6, CommentServes
    <3>7. CASE Resolve(r)
      BY <3>7, ResolveServes
    <3>8. CASE CountNoLongerOpen(r)
      BY <3>8, NoLongerOpenServes
    <3>9. CASE CountResolved(r)
      BY <3>9, CountResolvedServes
    <3>10. CASE Close(r)
      BY <3>10, CloseServes
    <3>11. ASSUME Quiet(r) PROVE QueueInv' /\ (SerialInv /\ Handling \subseteq {r} => SerialInv')
      BY <3>11, QuietServes
    <3>. QED  BY <3>2, <3>3, <3>4, <3>5, <3>6, <3>7, <3>8, <3>9, <3>10, <3>11, QuietSteps DEF GoOn
  <2>2. SerialInv => Handling \subseteq {r}
    <3>1. r \in Handling
      BY <1>5 DEF GoOn, Dequeue, FreezeOrFind, Record, List, Queue, Index, Count, LeaveToAdmin,
         AutoRefund, RefundFull, RefundPartial, CascadeSucceeds, CascadeRollsBack, RefundRefused,
         Comment, UnfreezeBefore, Resolve, CountNoLongerOpen, CountResolved, UnfreezeAfter, Close,
         Acts, HandlerAt, Handling
    <3>. QED  BY <3>1 DEF SerialInv
  <2>. QED  BY <1>5, <2>1, <2>2 DEF ServedInv, history
<1>. QED  BY <1>2, <1>3, <1>4, <1>5 DEF DeskNext

LEMMA ServedBegins == DeskInit => ServedInv
<1>. SUFFICES ASSUME DeskInit PROVE ServedInv
  OBVIOUS
<1>1. /\ \A d \in Handlers : dispute[d].status = "none" /\ handler[d].at = "idle"
      /\ \A c \in Charges : byCharge[c] = NoOne
      /\ pending = {} /\ totalOpen = 0 /\ totalResolved = 0
  BY DEF DeskInit, NoDispute, IdleHandler
<1>2. CountedOnes = {} /\ UncountedOnes = {} /\ Opened = {} /\ Ended = {} /\ Handling = {}
  BY <1>1 DEF CountedOnes, UncountedOnes, Opened, Ended, IsRecorded, IsOpen, HandlerAt,
     OpenStates, TerminalStates, Handling
<1>3. Cardinality({}) = 0
  BY FS_EmptySet
<1>4. QueueInv
  BY <1>1, <1>2, <1>3 DEF QueueInv, NotQueuedYet
<1>5. SerialInv
  <2>1. ASSUME NEW r \in Handlers PROVE Tidy(handler[r], r)
    <3>. PICK h : h = handler[r]
      OBVIOUS
    <3>1. h.at = "idle"
      BY <1>1
    <3>2. Tidy(h, r)
      BY <1>1, <1>2, <1>3, <3>1 DEF Tidy, StageOK, QueuedBy, IndexedBy, CountedBy, EndedBy, Filing,
         Unqueued, Unindexed, Uncounted, Resolving
    <3>. QED  BY <3>2
  <2>. QED  BY <1>2, <2>1 DEF SerialInv
<1>. QED  BY <1>4, <1>5 DEF ServedInv

LEMMA ServedAddsUp == ASSUME DeskInv, ServedInv PROVE DeskAddsUp
<1>1. \A d \in pending : IsOpen(d) \/ Dequeuing(d) \/ d \in missed
  BY DEF ServedInv, QueueInv, OffQueue, DeskInv, DeskTypes
<1>2. totalOpen + totalResolved + Cardinality(UncountedOnes) = Cardinality(CountedOnes)
  BY DEF ServedInv, QueueInv
<1>3. ASSUME ~overlapped, Handling = {}
      PROVE  /\ \A c \in Charges, d \in Handlers :
                   byCharge[c] = d <=> IsOpen(d) /\ dispute[d].charge = c
             /\ pending = {d \in Handlers : IsOpen(d)}
             /\ totalOpen = Cardinality(pending)
             /\ totalResolved
                  = Cardinality({d \in Handlers : dispute[d].status \in TerminalStates})
  <2>. PICK r \in Handlers : TRUE
    OBVIOUS
  <2>. PICK h : h = handler[r]
    OBVIOUS
  <2>1. Tidy(h, r) /\ h.at \in {"idle", "done"}
    BY <1>3 DEF ServedInv, SerialInv, Handling
  <2>2. /\ QueuedBy(h, r) = Opened /\ IndexedBy(h, r) = Opened /\ CountedBy(h, r) = Opened
        /\ EndedBy(h) = Ended
    BY <2>1 DEF QueuedBy, IndexedBy, CountedBy, EndedBy, Unqueued, Unindexed, Uncounted, Resolving
  <2>. QED  BY <2>1, <2>2 DEF Tidy, Opened, Ended
<1>. QED  BY <1>1, <1>2, <1>3 DEF DeskAddsUp

\* A resolved dispute is on the queue only while it is being taken off, or when it was taken
\* off too early, and each counted one is counted once, whatever races; and requests that
\* never overlap leave the index, the queue and the counters exact.
THEOREM DeskKeepsItsBooks == DeskSpec => []DeskAddsUp
<1>1. DeskInv /\ DeskInv' /\ ServedInv /\ [DeskNext]_disputeVars => ServedInv'
  BY ServedKeeps
<1>2. DeskSpec => []ServedInv
  BY <1>1, DeskInvHolds, ServedBegins, PTL DEF DeskSpec
<1>3. DeskInv /\ ServedInv => DeskAddsUp
  BY ServedAddsUp
<1>. QED  BY <1>2, <1>3, DeskInvHolds, PTL

HIDE DisputesAssumption
-----------------------------------------------------------------------------
USE WalletAssumption

Running(r) == req[r].at \notin {"idle", "done", "crashed"}

\* What a request may assume between its round trips: it started today or
\* yesterday, and the amounts it and the pending top-ups carry are legal.
LocalInv == /\ today \in Days
            /\ req \in [Requests -> ReqState]
            /\ topup \in [Topups -> TopupRow]
            /\ \A r \in Requests : Running(r) => req[r].day \in HandlerDays
            /\ \A r \in Requests : At(r, "looked") => req[r].amount \in Amounts
            /\ \A t \in Topups : topup[t].status = "pending" => topup[t].amount \in Amounts

LEMMA InitLocal == Init => LocalInv
  BY DEF Init, BookInit, LocalInv, Days, IdleReq, ReqState, Stages, TopupRow, Running, At

\* A request that moves from one stage to a later one keeps its locals.
LEMMA GotoKeepsLocal ==
  ASSUME LocalInv, NEW r \in Requests, Running(r), NEW stage \in Stages \ {"looked"},
         Goto(r, stage), UNCHANGED <<today, topup>>
  PROVE  LocalInv'
  BY DEF LocalInv, Goto, Running, At, ReqState, Stages, HandlerDays, Days

LEMMA LocalUnchanged ==
  ASSUME LocalInv, UNCHANGED <<today, req, topup>>
  PROVE  LocalInv'
  BY DEF LocalInv, Running, At, HandlerDays, Days

\* A request's own steps.
LEMMA ContinueStep ==
  ASSUME LocalInv, BookInv, NEW r \in Requests, Continue(r)
  PROVE  LocalInv' /\ [BookNext]_bookVars
<1>1. ASSUME NEW stage \in Stages \ {"looked"}, Running(r), Goto(r, stage),
             UNCHANGED topup, UNCHANGED bookVars
      PROVE  LocalInv' /\ [BookNext]_bookVars
  BY <1>1, GotoKeepsLocal DEF bookVars
<1>2. CASE Post(r)
  <2>1. /\ r \in Charges /\ r \notin MarketplaceCharges
        /\ req[r].amount \in Amounts
        /\ req[r].day \in HandlerDays
        /\ Running(r)
    BY <1>2 DEF Post, LocalInv, At, Running, Requests, ForMarketplace
  <2>2. PostCharge(r, req[r].amount, req[r].day) /\ UNCHANGED topup
    BY <1>2 DEF Post
  <2>3. BookNext
    BY <2>1, <2>2 DEF BookNext
  <2>4. UNCHANGED today /\ balance' \in Int
    <3>1. balance' = balance - req[r].amount /\ UNCHANGED today
      BY <2>2 DEF PostCharge
    <3>2. req[r].amount \in Int
      BY <2>1, AmountsAreInts, Zenon
    <3>3. balance \in Int
      BY DEF BookInv, BookTypeOK
    <3> QED
      BY <3>1, <3>2, <3>3
  <2>5. req' = [req EXCEPT ![r] = Posted(req[r], balance')]
    BY <1>2 DEF Post
  <2>6. req' \in [Requests -> ReqState]
    <3>1. req \in [Requests -> ReqState] /\ req[r] \in ReqState
      BY DEF LocalInv
    <3>2. Posted(req[r], balance') \in ReqState
      BY <2>4, <3>1 DEF Posted, ReqState, Stages
    <3> QED
      BY <2>5, <3>1, <3>2
  <2>7. /\ \A q \in Requests \ {r} : req'[q] = req[q]
        /\ req'[r].at = "posted" /\ req'[r].day = req[r].day
    BY <2>5 DEF LocalInv, ReqState, Posted
  <2> QED
    BY <2>1, <2>2, <2>3, <2>4, <2>6, <2>7 DEF LocalInv, At, Running, HandlerDays
<1>3. CASE PostMarketplace(r)
  <2>1. /\ r \in MarketplaceCharges /\ r \in Charges /\ req[r].amount \in Amounts /\ Running(r)
    BY <1>3 DEF PostMarketplace, LocalInv, At, Running, Requests, ForMarketplace
  <2>2. PostMarketplaceCharge(r, req[r].amount) /\ Goto(r, "posted") /\ UNCHANGED topup
    BY <1>3 DEF PostMarketplace
  <2>3. BookNext
    BY <2>1, <2>2 DEF BookNext
  <2>4. LocalInv'
    BY <2>1, <2>2, GotoKeepsLocal DEF Stages, PostMarketplaceCharge
  <2> QED
    BY <2>3, <2>4
<1>4. CASE CreditRecharge(r)
  <2>1. Credit(Recharge) /\ Goto(r, "done") /\ UNCHANGED topup /\ Running(r)
    BY <1>4 DEF CreditRecharge, At, Running
  <2>2. LocalInv'
    BY <2>1, GotoKeepsLocal DEF Stages, Credit
  <2> QED
    BY <2>1, <2>2 DEF BookNext
<1>5. CASE Refuse(r) \/ HitCap(r) \/ SetBudgetBlocked(r) \/ ClaimIdem(r) \/ AskRecharge(r)
           \/ ConsiderRecharge(r) \/ ClaimBucket(r) \/ GatewayTakes(r)
           \/ GatewayDeclines(r) \/ PauseRecharge(r)
  <2>1. UNCHANGED topup /\ UNCHANGED bookVars /\ Running(r)
    BY <1>5 DEF Refuse, HitCap, SetBudgetBlocked, ClaimIdem, AskRecharge, ConsiderRecharge,
                ClaimBucket, GatewayTakes, GatewayDeclines, PauseRecharge, At, Running
  <2>2. PICK stage \in Stages \ {"looked"} : Goto(r, stage)
    BY <1>5 DEF Refuse, HitCap, SetBudgetBlocked, ClaimIdem, AskRecharge, ConsiderRecharge,
                ClaimBucket, GatewayTakes, GatewayDeclines, PauseRecharge, Stages
  <2> QED
    BY <1>1, <2>1, <2>2
<1> QED
  BY <1>2, <1>3, <1>4, <1>5 DEF Continue

\* Every other step of the wallet.
LEMMA WalletStep ==
  ASSUME LocalInv, BookInv, [Next]_vars
  PROVE  LocalInv' /\ [BookNext]_bookVars
<1>1. CASE UNCHANGED vars
  BY <1>1, LocalUnchanged DEF vars, bookVars
<1>13. ASSUME NEW d \in Days, CounterExpires(d) PROVE LocalInv' /\ [BookNext]_bookVars
  <2>1. UNCHANGED <<today, req, topup>>
    BY <1>13 DEF CounterExpires, CounterLapses
  <2>. QED  BY <1>13, <2>1, LocalUnchanged DEF CounterExpires, BookNext
<1>2. CASE NewDay
  <2>1. Midnight /\ UNCHANGED <<req, topup>>
        /\ \A r \in Requests : Running(r) => req[r].day = today
    BY <1>2 DEF NewDay, Running
  <2>2. today' \in Days /\ \A r \in Requests : Running(r) => req[r].day \in HandlerDays'
    BY <2>1 DEF Midnight, HandlerDays, LocalInv, Days
  <2> QED
    BY <2>1, <2>2 DEF BookNext, LocalInv, Running, At
<1>3. ASSUME UNCHANGED <<bookVars, req, topup>> PROVE LocalInv' /\ [BookNext]_bookVars
  BY <1>3, LocalUnchanged DEF bookVars
<1>4. CASE FlagsExpire \/ (\E k \in IdemKeys : ForgetRef(k)) \/ (\E on \in Settings : SetEnabled(on))
  BY <1>3, <1>4 DEF FlagsExpire, ForgetRef, SetEnabled
<1>5. ASSUME NEW r \in Requests, NEW ref \in Refs \cup {NoRef}, NEW a \in Amounts, Arrive(r, ref, a)
      PROVE  LocalInv' /\ [BookNext]_bookVars
  <2>1. PICK stage \in {"done", "looked"} :
            req' = [req EXCEPT ![r] = [at |-> stage, ref |-> ref, amount |-> a,
                                       day |-> today, seen |-> 0]]
    BY <1>5 DEF Arrive
  <2>2. UNCHANGED bookVars /\ UNCHANGED <<today, topup>>
    BY <1>5 DEF Arrive, bookVars
  <2> QED
    BY <2>1, <2>2 DEF LocalInv, At, Running, ReqState, Stages, HandlerDays, Days
<1>6. ASSUME NEW r \in Requests, TestTrigger(r) PROVE LocalInv' /\ [BookNext]_bookVars
  <2>1. req' = [req EXCEPT ![r] = [at |-> "asked", ref |-> NoRef, amount |-> 0,
                                   day |-> today, seen |-> -1]]
        /\ UNCHANGED bookVars /\ UNCHANGED <<today, topup>>
    BY <1>6 DEF TestTrigger, bookVars
  <2> QED
    BY <2>1 DEF LocalInv, At, Running, ReqState, Stages, HandlerDays, Days
<1>7. ASSUME NEW r \in Requests, Fail(r) PROVE LocalInv' /\ [BookNext]_bookVars
  <2>1. UNCHANGED <<bookVars, today, topup>> /\ Running(r)
    BY <1>7 DEF Fail, ClaimFails, GatewayAnswerLost, RechargeRaises, Crash, At, Running, bookVars
  <2>2. PICK stage \in Stages \ {"looked"} : Goto(r, stage)
    BY <1>7 DEF Fail, ClaimFails, GatewayAnswerLost, RechargeRaises, Crash, Stages
  <2>. QED  BY <2>1, <2>2, GotoKeepsLocal
<1>8. ASSUME NEW t \in Topups, NEW a \in Amounts, CreateTopup(t, a)
      PROVE  LocalInv' /\ [BookNext]_bookVars
  BY <1>8 DEF CreateTopup, bookVars, LocalInv, TopupRow, At, Running, HandlerDays
<1>9. ASSUME NEW t \in Topups, ConfirmTopup(t) PROVE LocalInv' /\ [BookNext]_bookVars
  <2>1. topup[t].amount \in Amounts /\ Credit(topup[t].amount) /\ UNCHANGED req
        /\ topup' = [topup EXCEPT ![t].status = "confirmed"]
    BY <1>9 DEF ConfirmTopup, LocalInv
  <2>2. UNCHANGED today
    BY <2>1 DEF Credit
  <2>3. LocalInv'
    BY <2>1, <2>2 DEF LocalInv, TopupRow, At, Running, HandlerDays
  <2> QED
    BY <2>1, <2>3 DEF BookNext
<1>10. ASSUME NEW c \in Charges, FreezeSome(c) PROVE LocalInv' /\ [BookNext]_bookVars
  <2>1. UNCHANGED <<today, req, topup>>
    BY <1>10 DEF FreezeSome, Freeze, Unfreeze
  <2> QED
    BY <1>10, <2>1, LocalUnchanged DEF FreezeSome, BookNext
<1>11. ASSUME NEW c \in Charges, NEW d \in HandlerDays, RefundSome(c, d)
       PROVE  LocalInv' /\ [BookNext]_bookVars
  <2>1. UNCHANGED <<today, req, topup>>
    BY <1>11 DEF RefundSome, Refund, DisputeRefund, ReverseCharge, PayBack
  <2>2. BookNext
    BY <1>11 DEF RefundSome, BookNext
  <2> QED
    BY <2>1, <2>2, LocalUnchanged
<1>12. ASSUME NEW b \in Budgets, SetBudget(b) PROVE LocalInv' /\ [BookNext]_bookVars
  <2>1. UNCHANGED <<today, req, topup>>
    BY <1>12 DEF SetBudget, SetDailyBudget
  <2> QED
    BY <1>12, <2>1, LocalUnchanged DEF SetBudget, BookNext
<1> QED
  BY <1>1, <1>2, <1>4, <1>5, <1>6, <1>7, <1>8, <1>9, <1>10, <1>11, <1>12, <1>13, ContinueStep
     DEF Next

(***************************************************************************)
(* The wallet implements the charge book.                                  *)
(***************************************************************************)
THEOREM WalletImplementsBook == Spec => BookSpec
<1>1. Init => LocalInv /\ BookInv
  BY InitLocal, InitBookInv DEF Init
<1>2. LocalInv /\ BookInv /\ [Next]_vars => (LocalInv /\ BookInv)' /\ [BookNext]_bookVars
  BY WalletStep, NextBookInv
<1>3. Init => BookInit
  BY DEF Init
<1> QED
  BY <1>1, <1>2, <1>3, PTL DEF Spec, BookSpec

(***************************************************************************)
(* Whatever the requests do, the balance accounts for every cent and no    *)
(* charge is repaid twice; without marketplace rows the wallet implements  *)
(* the abstract wallet.                                                    *)
(***************************************************************************)
THEOREM WalletBalances == Spec => [](BalanceAccountsForAll /\ RepaidWithinCharge)
  BY WalletImplementsBook, BookSafe, NeverRepaidTwice, PTL

THEOREM WalletImplementsFunds ==
  ASSUME MarketplaceCharges = {}
  PROVE  Spec => FundsSpec
  BY WalletImplementsBook, BookImplementsFunds, PTL
-----------------------------------------------------------------------------
\* For the properties that follow: what is proved of the book and of the locals
\* above, as one inductive invariant of the wallet.
WalletInv == LocalInv /\ BookInv

LEMMA WalletInvariant == Init => WalletInv
  BY InitLocal, InitBookInv DEF Init, WalletInv

LEMMA WalletInvStep ==
  ASSUME WalletInv, [Next]_vars
  PROVE  WalletInv' /\ [BookNext]_bookVars
  BY WalletStep, NextBookInv DEF WalletInv

(***************************************************************************)
(* The status of every charge row tells what was repaid of it.             *)
(***************************************************************************)
THEOREM RowsTellTruth == Spec => []StatusTellsTruth
<1>1. WalletInv => StatusTellsTruth
  BY DEF WalletInv, BookInv
<1>. QED  BY <1>1, WalletInvariant, WalletInvStep, PTL DEF Spec
-----------------------------------------------------------------------------
(***************************************************************************)
(* Counters. One row changes in a step, so each sum over the rows changes  *)
(* by what that row changes.                                               *)
(***************************************************************************)
Charged == SumFunction([c \in Charges \ MarketplaceCharges |-> charge[c].amount])
Repaid  == SumFunction([c \in Charges |-> charge[c].repaid])
Part(c, n) == IF c \in MarketplaceCharges THEN n ELSE 0
Rest(c, n) == IF c \in MarketplaceCharges THEN 0 ELSE n

LEMMA RowChangesSums ==
  ASSUME IsFiniteSet(Charges), charge \in [Charges -> ChargeRow],
         NEW c \in Charges, NEW row \in ChargeRow, charge' = [charge EXCEPT ![c] = row]
  PROVE  /\ Charged \in Int /\ Repaid \in Int /\ TakenFees \in Int
         /\ Charged'   = Charged - Rest(c, charge[c].amount) + Rest(c, row.amount)
         /\ TakenFees' = TakenFees - Part(c, charge[c].amount) + Part(c, row.amount)
         /\ Repaid'    = Repaid - charge[c].repaid + row.repaid
<1>. DEFINE M == MarketplaceCharges
            N == Charges \ M
            f == [x \in Charges |-> charge[x].repaid]
            g == [x \in Charges |-> charge'[x].repaid]
            u == [x \in N |-> charge[x].amount]
            v == [x \in N |-> charge'[x].amount]
            m == [x \in M |-> charge[x].amount]
            n == [x \in M |-> charge'[x].amount]
<1>1. /\ \A x \in Charges : /\ charge[x].repaid \in Int /\ charge[x].amount \in Int
                            /\ charge'[x] = IF x = c THEN row ELSE charge[x]
      /\ row.repaid \in Int /\ row.amount \in Int
  BY DEF ChargeRow
<1>2. IsFiniteSet(N) /\ IsFiniteSet(M)
  BY FS_Subset
<1>3. /\ Repaid = SumFunctionOnSet(f, Charges) /\ Repaid' = SumFunctionOnSet(g, Charges)
      /\ Charged = SumFunctionOnSet(u, N) /\ Charged' = SumFunctionOnSet(v, N)
      /\ TakenFees = SumFunctionOnSet(m, M) /\ TakenFees' = SumFunctionOnSet(n, M)
  BY DEF Repaid, Charged, TakenFees, SumFunction
<1>4. /\ \A x \in Charges : f[x] \in Int /\ g[x] \in Int
      /\ \A x \in Charges \ {c} : g[x] = f[x]
      /\ f[c] = charge[c].repaid /\ g[c] = row.repaid
  BY <1>1
<1>5. /\ \A x \in N : u[x] \in Int /\ v[x] \in Int
      /\ \A x \in N \ {c} : v[x] = u[x]
      /\ c \in N => u[c] = charge[c].amount /\ v[c] = row.amount
  BY <1>1
<1>6. /\ \A x \in M : m[x] \in Int /\ n[x] \in Int
      /\ \A x \in M \ {c} : n[x] = m[x]
      /\ c \in M => m[c] = charge[c].amount /\ n[c] = row.amount
  BY <1>1
<1>. HIDE DEF f, g, u, v, m, n
<1>7. Repaid \in Int /\ Repaid' = Repaid - charge[c].repaid + row.repaid
  BY <1>3, <1>4, SumChange
<1>8. Charged \in Int /\ Charged' = Charged - Rest(c, charge[c].amount) + Rest(c, row.amount)
  <2>0. Charged \in Int
    <3>. HIDE DEF N
    <3>. QED  BY <1>2, <1>3, <1>5, SumInt
  <2>1. CASE c \in N
    <3>1. SumFunctionOnSet(v, N) = SumFunctionOnSet(u, N) - u[c] + v[c]
      <4>. HIDE DEF N
      <4>. QED  BY <1>2, <1>5, <2>1, SumChange
    <3>2. c \notin MarketplaceCharges
      BY <2>1
    <3>. QED  BY <1>3, <1>5, <2>0, <2>1, <3>1, <3>2 DEF Rest
  <2>2. CASE c \notin N
    <3>1. SumFunctionOnSet(u, N) = SumFunctionOnSet(v, N)
      <4>1. \A x \in N : u[x] = v[x]
        BY <1>5, <2>2
      <4>. HIDE DEF N
      <4>. QED  BY <1>2, <4>1, SumSame
    <3>2. c \in MarketplaceCharges
      BY <2>2
    <3>. QED  BY <1>3, <2>0, <3>1, <3>2 DEF Rest
  <2>. QED  BY <2>0, <2>1, <2>2
<1>9. TakenFees \in Int
      /\ TakenFees' = TakenFees - Part(c, charge[c].amount) + Part(c, row.amount)
  <2>0. TakenFees \in Int
    BY <1>2, <1>3, <1>6, SumInt
  <2>1. CASE c \in M
    <3>1. SumFunctionOnSet(n, M) = SumFunctionOnSet(m, M) - m[c] + n[c]
      BY <1>2, <1>6, <2>1, SumChange
    <3>. QED  BY <1>3, <1>6, <2>0, <2>1, <3>1 DEF Part
  <2>2. CASE c \notin M
    <3>1. SumFunctionOnSet(m, M) = SumFunctionOnSet(n, M)
      <4>1. \A x \in M : m[x] = n[x]
        BY <1>6, <2>2
      <4>. QED  BY <1>2, <4>1, SumSame
    <3>. QED  BY <1>3, <2>0, <2>2, <3>1 DEF Part
  <2>. QED  BY <2>0, <2>1, <2>2
<1>. QED  BY <1>7, <1>8, <1>9

LEMMA DaySum ==
  ASSUME dailySpent \in [Days -> Int], NEW d \in Days, NEW a \in Int,
         dailySpent' = [dailySpent EXCEPT ![d] = @ + a]
  PROVE  /\ SumFunction(dailySpent) \in Int
         /\ SumFunction(dailySpent)' = SumFunction(dailySpent) + a
<1>. DEFINE f == dailySpent
            g == dailySpent'
            D == Days
<1>1. IsFiniteSet(Days)
  BY FS_Interval DEF Days
<1>2. /\ f \in [Days -> Int] /\ g \in [Days -> Int] /\ g[d] = f[d] + a
      /\ \A x \in Days \ {d} : g[x] = f[x]
  OBVIOUS
<1>3. \A x \in Days : f[x] \in Int /\ g[x] \in Int
  BY <1>2
<1>4. /\ SumFunction(dailySpent) = SumFunctionOnSet(f, Days)
      /\ SumFunction(dailySpent)' = SumFunctionOnSet(g, Days)
  BY <1>2 DEF SumFunction
<1>5. IsFiniteSet(D) /\ d \in D /\ (\A x \in D : f[x] \in Int /\ g[x] \in Int)
      /\ \A x \in D \ {d} : g[x] = f[x]
  BY <1>1, <1>2, <1>3
<1>. HIDE DEF f, g, D
<1>6. /\ SumFunctionOnSet(f, D) \in Int
      /\ SumFunctionOnSet(g, D) = SumFunctionOnSet(f, D) - f[d] + g[d]
  BY <1>5, SumChange
<1>7. f[d] \in Int
  BY <1>3
<1>. QED  BY <1>2, <1>4, <1>7, <1>6 DEF D

LEMMA CountersAre ==
  CountersMatchRows <=> /\ totalSpent = SumFunction(dailySpent) + lapsed
                        /\ totalSpent = Charged - Repaid
  BY DEF CountersMatchRows, Charged, Repaid

\* A row takes another's place and the counters follow it.
LEMMA CountersFollow ==
  ASSUME IsFiniteSet(Charges), BookInv, CountersMatchRows,
         NEW c \in Charges, NEW row \in ChargeRow, charge' = [charge EXCEPT ![c] = row],
         NEW d \in Days, NEW a \in Int, dailySpent' = [dailySpent EXCEPT ![d] = @ + a],
         totalSpent' = totalSpent + a, lapsed' = lapsed,
         a = Rest(c, row.amount) - Rest(c, charge[c].amount) - row.repaid + charge[c].repaid
  PROVE  CountersMatchRows'
<1>1. /\ charge \in [Charges -> ChargeRow] /\ dailySpent \in [Days -> Int]
      /\ totalSpent \in Int /\ lapsed \in Int
  BY DEF BookInv, BookTypeOK
<1>2. /\ Charged \in Int /\ Repaid \in Int
      /\ Charged' = Charged - Rest(c, charge[c].amount) + Rest(c, row.amount)
      /\ Repaid' = Repaid - charge[c].repaid + row.repaid
  BY <1>1, RowChangesSums
<1>3. SumFunction(dailySpent) \in Int /\ SumFunction(dailySpent)' = SumFunction(dailySpent) + a
  BY <1>1, DaySum
<1>4. /\ Rest(c, charge[c].amount) \in Int /\ Rest(c, row.amount) \in Int
      /\ charge[c].repaid \in Int /\ row.repaid \in Int
  BY <1>1 DEF Rest, ChargeRow
<1>5. totalSpent = SumFunction(dailySpent) + lapsed /\ totalSpent = Charged - Repaid
  BY CountersAre
<1>6. totalSpent' = SumFunction(dailySpent)' + lapsed' /\ totalSpent' = Charged' - Repaid'
  BY <1>1, <1>2, <1>3, <1>4, <1>5
<1>. QED  BY <1>6 DEF CountersMatchRows, Charged, Repaid

LEMMA NoCountersMove ==
  ASSUME CountersMatchRows, UNCHANGED <<totalSpent, dailySpent, lapsed, charge>>
  PROVE  CountersMatchRows'
  BY DEF CountersMatchRows

LEMMA NoSpend ==
  ASSUME IsFiniteSet(Charges), BookInv, CountersMatchRows,
         UNCHANGED <<totalSpent, dailySpent, lapsed>>,
         NEW c \in Charges, NEW row \in ChargeRow, charge' = [charge EXCEPT ![c] = row],
         Rest(c, row.amount) - row.repaid = Rest(c, charge[c].amount) - charge[c].repaid
  PROVE  CountersMatchRows'
<1>1. charge \in [Charges -> ChargeRow] /\ dailySpent \in [Days -> Int] /\ totalSpent \in Int
      /\ 0 \in Days
  BY DEF BookInv, BookTypeOK, Days
<1>2. /\ Rest(c, charge[c].amount) \in Int /\ Rest(c, row.amount) \in Int
      /\ charge[c].repaid \in Int /\ row.repaid \in Int
  BY <1>1 DEF Rest, ChargeRow
<1>. DEFINE z == 0
<1>3. dailySpent' = [dailySpent EXCEPT ![z] = @ + z] /\ totalSpent' = totalSpent + z
  BY <1>1
<1>4. z = Rest(c, row.amount) - Rest(c, charge[c].amount) - row.repaid + charge[c].repaid
  BY <1>2
<1>5. z \in Days /\ z \in Int
  BY <1>1
<1>. HIDE DEF z
<1>. QED  BY <1>3, <1>4, <1>5, CountersFollow

LEMMA PaidBack ==
  ASSUME IsFiniteSet(Charges), BookInv, CountersMatchRows, NEW c \in Charges, NEW d \in Days,
         NEW a \in Nat, PayBack(a, d),
         NEW row \in ChargeRow, charge' = [charge EXCEPT ![c] = row],
         row.amount = charge[c].amount, row.repaid = charge[c].repaid + a
  PROVE  CountersMatchRows'
<1>1. dailySpent \in [Days -> Int] /\ totalSpent \in Int /\ charge[c] \in ChargeRow
  BY DEF BookInv, BookTypeOK
<1>2. /\ dailySpent' = [dailySpent EXCEPT ![d] = @ + (-a)] /\ totalSpent' = totalSpent + (-a)
      /\ lapsed' = lapsed
  <2>1. /\ dailySpent' = [dailySpent EXCEPT ![d] = @ - a] /\ totalSpent' = totalSpent - a
        /\ lapsed' = lapsed
    BY DEF PayBack
  <2>2. dailySpent[d] \in Int /\ dailySpent[d] + (-a) = dailySpent[d] - a
    BY <1>1
  <2>3. totalSpent + (-a) = totalSpent - a
    BY <1>1
  <2>. QED  BY <2>1, <2>2, <2>3
<1>3. Rest(c, charge[c].amount) \in Int /\ charge[c].repaid \in Int /\ -a \in Int
  BY <1>1 DEF Rest, ChargeRow
<1>4. -a = Rest(c, row.amount) - Rest(c, charge[c].amount) - row.repaid + charge[c].repaid
  BY <1>3
<1>. QED  BY <1>2, <1>3, <1>4, CountersFollow

\* What a counter said is still accounted for when its key is gone.
LEMMA CounterGone ==
  ASSUME BookInv, CountersMatchRows, NEW d \in Days, CounterLapses(d)
  PROVE  CountersMatchRows'
<1>1. dailySpent \in [Days -> Int] /\ lapsed \in Int /\ UNCHANGED <<totalSpent, charge>>
  BY DEF BookInv, BookTypeOK, CounterLapses
<1>. DEFINE a == -dailySpent[d]
<1>2. a \in Int /\ dailySpent[d] + a = 0 /\ lapsed' = lapsed - a
  BY <1>1 DEF CounterLapses
<1>3. dailySpent' = [dailySpent EXCEPT ![d] = @ + a]
  BY <1>2 DEF CounterLapses
<1>. HIDE DEF a
<1>4. SumFunction(dailySpent) \in Int /\ SumFunction(dailySpent)' = SumFunction(dailySpent) + a
  BY <1>1, <1>2, <1>3, DaySum
<1>5. SumFunction(dailySpent)' + lapsed' = SumFunction(dailySpent) + lapsed
  BY <1>1, <1>2, <1>4
<1>6. totalSpent' = SumFunction(dailySpent)' + lapsed'
  BY <1>1, <1>5 DEF CountersMatchRows
<1>7. UNCHANGED <<Charged, Repaid>>
  BY <1>1 DEF Charged, Repaid
<1>. QED  BY <1>1, <1>6, <1>7 DEF CountersMatchRows, Charged, Repaid

LEMMA CountersStep ==
  ASSUME IsFiniteSet(Charges), BookInv, CountersMatchRows, [BookNext]_bookVars
  PROVE  CountersMatchRows'
<1>1. CASE \/ UNCHANGED bookVars
           \/ Midnight
           \/ \E b \in Budgets : SetDailyBudget(b)
           \/ \E a \in Amounts : Credit(a)
  BY <1>1, NoCountersMove DEF bookVars, Midnight, SetDailyBudget, moneyVars, dailyVars, Credit
<1>8. ASSUME NEW d \in Days, CounterLapses(d) PROVE CountersMatchRows'
  BY <1>8, CounterGone
<1>2. ASSUME NEW c \in Charges, Freeze(c) \/ Unfreeze(c) PROVE CountersMatchRows'
  <2>1. charge[c] \in ChargeRow /\ UNCHANGED <<totalSpent, dailySpent, lapsed>>
    BY <1>2, RowInv DEF Freeze, Unfreeze, dailyVars
  <2>2. PICK st \in {"completed", "disputed"} :
           charge' = [charge EXCEPT ![c] = WithStatus(@, st)]
    BY <1>2 DEF Freeze, Unfreeze
  <2>3. WithStatus(charge[c], st) \in ChargeRow
        /\ WithStatus(charge[c], st).amount = charge[c].amount
        /\ WithStatus(charge[c], st).repaid = charge[c].repaid
    BY <2>1 DEF WithStatus, ChargeRow, Statuses
  <2>4. Rest(c, charge[c].amount) \in Int /\ charge[c].repaid \in Int
    BY <2>1 DEF Rest, ChargeRow
  <2>. QED  BY <2>1, <2>2, <2>3, <2>4, NoSpend
<1>3. ASSUME NEW c \in Charges, c \in MarketplaceCharges, NEW a \in Amounts,
             PostMarketplaceCharge(c, a)
      PROVE  CountersMatchRows'
  <2>1. /\ c \in Charges /\ charge[c] \in ChargeRow /\ charge[c] = NoRow
        /\ UNCHANGED <<totalSpent, dailySpent, lapsed>>
    BY <1>3, RowInv DEF PostMarketplaceCharge, dailyVars, Exists, RowTellsTruth
  <2>2. charge' = [charge EXCEPT ![c] = Completed(a)]
    BY <1>3 DEF PostMarketplaceCharge
  <2>3. Completed(a) \in ChargeRow /\ Completed(a).repaid = 0 /\ NoRow.repaid = 0
    BY FreshRow DEF Completed, NoRow
  <2>4. Rest(c, Completed(a).amount) - Completed(a).repaid
          = Rest(c, charge[c].amount) - charge[c].repaid
    BY <1>3, <2>1, <2>3 DEF Rest
  <2>. QED  BY <2>1, <2>2, <2>3, <2>4, NoSpend
<1>4. ASSUME NEW c \in Charges, c \notin MarketplaceCharges, NEW a \in Amounts, NEW d \in Days,
             PostCharge(c, a, d)
      PROVE  CountersMatchRows'
  <2>1. charge[c] = NoRow
    BY <1>4, RowInv DEF PostCharge, Exists, RowTellsTruth
  <2>2. /\ charge' = [charge EXCEPT ![c] = Completed(a)]
        /\ dailySpent' = [dailySpent EXCEPT ![d] = @ + a] /\ totalSpent' = totalSpent + a
        /\ lapsed' = lapsed
    BY <1>4 DEF PostCharge
  <2>3. Completed(a) \in ChargeRow /\ a \in Int
    BY FreshRow
  <2>4. a = Rest(c, Completed(a).amount) - Rest(c, charge[c].amount)
              - Completed(a).repaid + charge[c].repaid
    BY <1>4, <2>1, <2>3 DEF Rest, Completed, NoRow
  <2>. QED  BY <2>2, <2>3, <2>4, CountersFollow
<1>5. ASSUME NEW c \in Charges, NEW d \in Days, Refund(c, d) PROVE CountersMatchRows'
  <2>1. charge[c] \in ChargeRow /\ charge[c].amount \in Nat /\ charge[c].repaid = 0
        /\ PayBack(charge[c].amount, d) /\ charge' = [charge EXCEPT ![c] = AfterWhole(@)]
    BY <1>5, RowInv DEF Refund, ChargeRow, RowTellsTruth
  <2>2. AfterWhole(charge[c]) \in ChargeRow
        /\ AfterWhole(charge[c]).amount = charge[c].amount
        /\ AfterWhole(charge[c]).repaid = charge[c].repaid + charge[c].amount
    BY <2>1 DEF AfterWhole, ChargeRow, Statuses
  <2>. QED  BY <2>1, <2>2, PaidBack
<1>6. ASSUME NEW c \in Charges, NEW d \in Days, NEW a \in Nat, PayBack(a, d),
             charge' = [charge EXCEPT ![c] = AfterPartial(@, a)]
      PROVE  CountersMatchRows'
  <2>1. charge[c] \in ChargeRow
    BY RowInv
  <2>2. AfterPartial(charge[c], a) \in ChargeRow
        /\ AfterPartial(charge[c], a).amount = charge[c].amount
        /\ AfterPartial(charge[c], a).repaid = charge[c].repaid + a
    BY <2>1 DEF AfterPartial, ChargeRow, Statuses
  <2>. QED  BY <1>6, <2>2, PaidBack
<1>7. ASSUME NEW c \in Charges, NEW d \in Days, NEW a \in Amounts,
             DisputeRefund(c, a, d) \/ ReverseCharge(c, a, d)
      PROVE  CountersMatchRows'
  <2>1. CASE DisputeRefund(c, a, d)
    BY <1>6, <2>1 DEF DisputeRefund
  <2>2. CASE ReverseCharge(c, a, d)
    <3>1. ReversalAmount(c, a) \in Nat
      BY <2>2, RowInv DEF ReverseCharge, ReversalAmount, Remaining, ChargeRow
    <3>. QED  BY <1>6, <2>2, <3>1 DEF ReverseCharge
  <2>. QED  BY <1>7, <2>1, <2>2
<1>. QED
  <2>1. HandlerDays \subseteq Days
    BY DEF HandlerDays
  <2>. QED
    BY <1>1, <1>2, <1>3, <1>4, <1>5, <1>7, <1>8, <2>1 DEF BookNext

(***************************************************************************)
(* The lifetime counter is what the days add up to and what the rows add   *)
(* up to, charged less repaid, through any history of charges, marketplace *)
(* fees, refunds, disputes and reversals over any number of charges.       *)
(***************************************************************************)
LEMMA CountersInit == ASSUME IsFiniteSet(Charges), BookInit PROVE CountersMatchRows
<1>. DEFINE D == Days
            f == [d \in D |-> 0]
            C == Charges
            N == C \ MarketplaceCharges
            u == [c \in N |-> charge[c].amount]
            v == [c \in C |-> charge[c].repaid]
<1>1. IsFiniteSet(D) /\ IsFiniteSet(C) /\ IsFiniteSet(N)
  BY FS_Interval, FS_Subset DEF Days
<1>2. /\ SumFunction(dailySpent) = SumFunctionOnSet(f, D)
      /\ Charged = SumFunctionOnSet(u, N) /\ Repaid = SumFunctionOnSet(v, C)
  BY DEF SumFunction, Charged, Repaid, BookInit
<1>3. (\A d \in D : f[d] = 0) /\ (\A c \in N : u[c] = 0) /\ (\A c \in C : v[c] = 0)
  BY DEF BookInit, NoRow
<1>. HIDE DEF D, f, N, u, v, C
<1>4. SumFunctionOnSet(f, D) = 0 /\ SumFunctionOnSet(u, N) = 0 /\ SumFunctionOnSet(v, C) = 0
  BY <1>1, <1>3, SumZero
<1>. QED  BY <1>2, <1>4, CountersAre DEF BookInit

THEOREM WalletCounters == ASSUME IsFiniteSet(Charges) PROVE Spec => []CountersMatchRows
<1>1. Init => WalletInv /\ CountersMatchRows
  BY WalletInvariant, CountersInit DEF Init
<1>2. WalletInv /\ CountersMatchRows /\ [Next]_vars => (WalletInv /\ CountersMatchRows)'
  BY WalletInvStep, CountersStep DEF WalletInv
<1>. QED  BY <1>1, <1>2, PTL DEF Spec
-----------------------------------------------------------------------------
(***************************************************************************)
(* Where the credits come from. A request that was charged by the gateway  *)
(* and has not credited yet holds one recharge in flight; one that ended   *)
(* before it could credit has stranded it.                                 *)
(***************************************************************************)
Flight(q) == IF q.at = "paid" THEN Recharge ELSE 0
Top(t)    == IF t.status = "confirmed" THEN t.amount ELSE 0

Lost(r, S) == IF r \in S THEN Recharge ELSE 0

\* A request strands its capture when it ends, and only then.
Sourced == /\ EveryCreditHasASource
           /\ stranded \subseteq Requests
           /\ \A r \in stranded : req[r].at \in {"declined", "done", "crashed"}

SourceInv == WalletInv /\ captured \in Int /\ Sourced

LEMMA FlightMoves ==
  ASSUME IsFiniteSet(Charges), req \in [Requests -> ReqState],
         NEW r \in Requests, NEW q, req' = [req EXCEPT ![r] = q]
  PROVE  InFlight \in Int /\ InFlight' = InFlight - Flight(req[r]) + Flight(q)
<1>. DEFINE C == Charges
            f == [x \in C |-> Flight(req[x])]
            g == [x \in C |-> Flight(req'[x])]
<1>1. /\ InFlight = SumFunctionOnSet(f, C) /\ InFlight' = SumFunctionOnSet(g, C)
  BY DEF InFlight, SumFunction, Requests, At, Flight
<1>2. Recharge \in Int
  OBVIOUS
<1>3. /\ \A x \in C : req'[x] = IF x = r THEN q ELSE req[x]
      /\ r \in C
  BY DEF Requests
<1>4. /\ \A x \in C : f[x] \in Int /\ g[x] \in Int
      /\ \A x \in C \ {r} : g[x] = f[x]
      /\ f[r] = Flight(req[r]) /\ g[r] = Flight(q)
  BY <1>2, <1>3 DEF Flight
<1>. HIDE DEF f, g
<1>. QED  BY <1>1, <1>3, <1>4, SumChange

LEMMA StrandedMoves ==
  ASSUME IsFiniteSet(Charges), NEW r \in Requests, stranded' \ {r} = stranded \ {r}
  PROVE  Stranded \in Int /\ Stranded' = Stranded - Lost(r, stranded) + Lost(r, stranded')
<1>. DEFINE C == Charges
            f == [x \in C |-> Lost(x, stranded)]
            g == [x \in C |-> Lost(x, stranded')]
<1>1. /\ Stranded = SumFunctionOnSet(f, C) /\ Stranded' = SumFunctionOnSet(g, C)
  BY DEF Stranded, SumFunction, Requests, Lost
<1>2. Recharge \in Int /\ r \in C
  BY DEF Requests
<1>3. \A x \in C \ {r} : x \in stranded' <=> x \in stranded
  OBVIOUS
<1>4. /\ \A x \in C : f[x] \in Int /\ g[x] \in Int
      /\ \A x \in C \ {r} : g[x] = f[x]
      /\ f[r] = Lost(r, stranded) /\ g[r] = Lost(r, stranded')
  BY <1>2, <1>3 DEF Lost
<1>. HIDE DEF f, g
<1>. QED  BY <1>1, <1>2, <1>4, SumChange

LEMMA TopMoves ==
  ASSUME IsFiniteSet(Topups), topup \in [Topups -> TopupRow],
         NEW t \in Topups, NEW row \in TopupRow, topup' = [topup EXCEPT ![t] = row]
  PROVE  ToppedUp \in Int /\ ToppedUp' = ToppedUp - Top(topup[t]) + Top(row)
<1>. DEFINE f == [x \in Topups |-> Top(topup[x])]
            g == [x \in Topups |-> Top(topup'[x])]
<1>1. /\ ToppedUp = SumFunctionOnSet(f, Topups) /\ ToppedUp' = SumFunctionOnSet(g, Topups)
  BY DEF ToppedUp, SumFunction, Top
<1>2. \A x \in Topups : topup'[x] = IF x = t THEN row ELSE topup[x]
  OBVIOUS
<1>3. /\ \A x \in Topups : f[x] \in Int /\ g[x] \in Int
      /\ \A x \in Topups \ {t} : g[x] = f[x]
      /\ f[t] = Top(topup[t]) /\ g[t] = Top(row)
  BY <1>2 DEF Top, TopupRow
<1>. HIDE DEF f, g
<1>. QED  BY <1>1, <1>3, SumChange

LEMMA SumsAreInts ==
  ASSUME IsFiniteSet(Charges), IsFiniteSet(Topups), WalletInv
  PROVE  InFlight \in Int /\ ToppedUp \in Int /\ TakenFees \in Int /\ Stranded \in Int
<1>. DEFINE C == Charges
            M == MarketplaceCharges
            f == [x \in C |-> Flight(req[x])]
            g == [x \in Topups |-> Top(topup[x])]
            h == [x \in M |-> charge[x].amount]
            u == [x \in C |-> Lost(x, stranded)]
<1>1. /\ InFlight = SumFunctionOnSet(f, C) /\ ToppedUp = SumFunctionOnSet(g, Topups)
      /\ TakenFees = SumFunctionOnSet(h, M) /\ Stranded = SumFunctionOnSet(u, C)
  BY DEF Stranded, Lost, InFlight, ToppedUp, TakenFees, SumFunction, Top, Flight, Requests, At
<1>2. /\ \A x \in C : f[x] \in Int
      /\ \A x \in Topups : g[x] \in Int
      /\ \A x \in M : h[x] \in Int
      /\ \A x \in C : u[x] \in Int
  BY DEF Lost, WalletInv, LocalInv, BookInv, BookTypeOK, Flight, Top, TopupRow, ChargeRow
<1>3. IsFiniteSet(C) /\ IsFiniteSet(M)
  BY FS_Subset
<1>. HIDE DEF C, M, f, g, h, u
<1>. QED  BY <1>1, <1>2, <1>3, SumInt

\* A step of one request, with what it does to the book.
LEMMA RequestSources ==
  ASSUME IsFiniteSet(Charges), IsFiniteSet(Topups), SourceInv,
         NEW r \in Requests, NEW q, req' = [req EXCEPT ![r] = q],
         stranded' \ {r} = stranded \ {r},
         r \in stranded' => q.at \in {"declined", "done", "crashed"},
         UNCHANGED topup, funded' \in Int, captured' \in Int, TakenFees' \in Int,
         (funded' - funded) + (Flight(q) - Flight(req[r])) + (Lost(r, stranded') - Lost(r, stranded))
           = (TakenFees' - TakenFees) + (captured' - captured)
  PROVE  Sourced'
<1>1. /\ InFlight \in Int /\ ToppedUp \in Int /\ TakenFees \in Int /\ Stranded \in Int
      /\ funded \in Int /\ captured \in Int /\ Flight(req[r]) \in Int /\ Flight(q) \in Int
      /\ Lost(r, stranded) \in Int /\ Lost(r, stranded') \in Int
  BY SumsAreInts DEF SourceInv, WalletInv, BookInv, BookTypeOK, Flight, Lost
<1>2. /\ InFlight' = InFlight - Flight(req[r]) + Flight(q) /\ ToppedUp' = ToppedUp
      /\ Stranded' = Stranded - Lost(r, stranded) + Lost(r, stranded')
  BY FlightMoves, StrandedMoves DEF SourceInv, WalletInv, LocalInv, ToppedUp
<1>3. funded + InFlight + Stranded = ToppedUp + TakenFees + captured
  BY DEF SourceInv, Sourced, EveryCreditHasASource
<1>4. funded' + InFlight' + Stranded' = ToppedUp' + TakenFees' + captured'
  <2>. DEFINE a == funded      a2 == funded'
              b == InFlight    b2 == InFlight'
              c == ToppedUp    c2 == ToppedUp'
              d == TakenFees   d2 == TakenFees'
              e == captured    e2 == captured'
              n == Stranded    n2 == Stranded'
              x == Flight(req[r])     y == Flight(q)
              v == Lost(r, stranded)  w == Lost(r, stranded')
  <2>1. /\ a \in Int /\ b \in Int /\ c \in Int /\ d \in Int /\ e \in Int /\ n \in Int
        /\ a2 \in Int /\ d2 \in Int /\ e2 \in Int
        /\ x \in Int /\ y \in Int /\ v \in Int /\ w \in Int
    BY <1>1
  <2>2. /\ b2 = b - x + y /\ c2 = c /\ n2 = n - v + w /\ a + b + n = c + d + e
        /\ (a2 - a) + (y - x) + (w - v) = (d2 - d) + (e2 - e)
    BY <1>2, <1>3
  <2>. HIDE DEF a, b, c, d, e, n, a2, b2, c2, d2, e2, n2, x, y, v, w
  <2>3. a2 + b2 + n2 = c2 + d2 + e2
    BY <2>1, <2>2
  <2>. QED  BY <2>3 DEF a, b, c, d, e, n, a2, b2, c2, d2, e2, n2
<1>5. \A x \in Requests \ {r} : req'[x] = req[x]
  BY DEF SourceInv, WalletInv, LocalInv
<1>6. req'[r] = q
  BY DEF SourceInv, WalletInv, LocalInv
<1>7. stranded' \subseteq Requests
      /\ \A x \in stranded' : req'[x].at \in {"declined", "done", "crashed"}
  BY <1>5, <1>6 DEF SourceInv, Sourced
<1>. QED  BY <1>4, <1>7 DEF Sourced, EveryCreditHasASource

\* A step of no request.
LEMMA OtherSources ==
  ASSUME IsFiniteSet(Charges), IsFiniteSet(Topups), SourceInv, UNCHANGED <<req, captured, stranded>>,
         funded' \in Int, TakenFees' \in Int, ToppedUp' \in Int,
         funded' - funded = (ToppedUp' - ToppedUp) + (TakenFees' - TakenFees)
  PROVE  Sourced'
<1>1. /\ InFlight \in Int /\ ToppedUp \in Int /\ TakenFees \in Int /\ Stranded \in Int
      /\ funded \in Int /\ captured \in Int
  BY SumsAreInts DEF SourceInv, WalletInv, BookInv, BookTypeOK
<1>2. InFlight' = InFlight /\ Stranded' = Stranded /\ captured' = captured
  BY DEF InFlight, Stranded, At
<1>3. funded + InFlight + Stranded = ToppedUp + TakenFees + captured
  BY DEF SourceInv, Sourced, EveryCreditHasASource
<1>4. funded' + InFlight' + Stranded' = ToppedUp' + TakenFees' + captured'
  <2>. DEFINE a == funded      a2 == funded'
              b == InFlight    c == ToppedUp    c2 == ToppedUp'
              d == TakenFees   d2 == TakenFees'
              e == captured    n == Stranded
  <2>1. /\ a \in Int /\ b \in Int /\ c \in Int /\ d \in Int /\ e \in Int /\ n \in Int
        /\ a2 \in Int /\ c2 \in Int /\ d2 \in Int
    BY <1>1
  <2>2. a2 - a = (c2 - c) + (d2 - d) /\ a + b + n = c + d + e
    BY <1>3
  <2>. HIDE DEF a, b, c, d, e, n, a2, c2, d2
  <2>3. a2 + b + n = c2 + d2 + e
    BY <2>1, <2>2
  <2>. QED  BY <1>2, <2>3 DEF a, b, c, d, e, n, a2, c2, d2
<1>. QED  BY <1>4 DEF SourceInv, Sourced, EveryCreditHasASource

LEMMA FeesStay ==
  ASSUME IsFiniteSet(Charges), BookInv, NEW c \in Charges, NEW row \in ChargeRow,
         charge' = [charge EXCEPT ![c] = row],
         c \notin MarketplaceCharges \/ row.amount = charge[c].amount
  PROVE  TakenFees' = TakenFees
<1>1. TakenFees \in Int /\ TakenFees' = TakenFees - Part(c, charge[c].amount) + Part(c, row.amount)
  BY RowChangesSums DEF BookInv, BookTypeOK
<1>2. charge[c].amount \in Int
  BY RowInv DEF ChargeRow
<1>. QED  BY <1>1, <1>2 DEF Part

\* One step of a request that leaves the rows alone: its capture, its credit
\* and what it strands make up for one another.
LEMMA StageMoves ==
  ASSUME IsFiniteSet(Charges), IsFiniteSet(Topups), SourceInv, NEW r \in Requests,
         NEW stage \in Stages, Goto(r, stage), UNCHANGED <<topup, charge>>,
         stranded' \ {r} = stranded \ {r},
         r \in stranded' => stage \in {"declined", "done", "crashed"},
         funded' \in Int, captured' \in Int,
         (funded' - funded) + (IF stage = "paid" THEN Recharge ELSE 0)
                            - (IF At(r, "paid") THEN Recharge ELSE 0)
                            + (Lost(r, stranded') - Lost(r, stranded)) = captured' - captured
  PROVE  Sourced'
<1>. DEFINE q == [req[r] EXCEPT !.at = stage]
<1>1. req[r] \in ReqState /\ Recharge \in Int
  BY DEF SourceInv, WalletInv, LocalInv
<1>2. req' = [req EXCEPT ![r] = q] /\ q.at = stage
  BY <1>1 DEF Goto, ReqState
<1>3. TakenFees' = TakenFees /\ TakenFees \in Int
  BY SumsAreInts DEF TakenFees, SourceInv
<1>4. funded \in Int /\ captured \in Int
  BY DEF SourceInv, WalletInv, BookInv, BookTypeOK
<1>5. /\ Flight(q) = IF stage = "paid" THEN Recharge ELSE 0
      /\ Flight(req[r]) = IF At(r, "paid") THEN Recharge ELSE 0
      /\ Flight(q) \in Int /\ Flight(req[r]) \in Int
      /\ Lost(r, stranded) \in Int /\ Lost(r, stranded') \in Int
  BY <1>1, <1>2 DEF Flight, At, Lost
<1>. HIDE DEF q
<1>6. TakenFees' \in Int /\ TakenFees' - TakenFees = 0
  BY <1>3
<1>7. (funded' - funded) + (Flight(q) - Flight(req[r])) + (Lost(r, stranded') - Lost(r, stranded))
        = 0 + (captured' - captured)
  BY <1>4, <1>5
<1>8. (funded' - funded) + (Flight(q) - Flight(req[r])) + (Lost(r, stranded') - Lost(r, stranded))
        = (TakenFees' - TakenFees) + (captured' - captured)
  BY <1>6, <1>7
<1>. QED  BY <1>2, <1>6, <1>8, RequestSources

\* The amounts the source equation adds up are integers.
LEMMA SourcesAreInts ==
  ASSUME SourceInv
  PROVE  funded \in Int /\ captured \in Int /\ Recharge \in Int
BY DEF SourceInv, WalletInv, BookInv, BookTypeOK

LEMMA QuietRequest ==
  ASSUME IsFiniteSet(Charges), IsFiniteSet(Topups), SourceInv, NEW r \in Requests,
         NEW stage \in Stages, Goto(r, stage), UNCHANGED <<topup, charge, stranded>>,
         req[r].at \notin {"declined", "done", "crashed"} \/ stage \in {"declined", "done", "crashed"},
         funded' \in Int, captured' \in Int,
         (funded' - funded) + (IF stage = "paid" THEN Recharge ELSE 0)
                            - (IF At(r, "paid") THEN Recharge ELSE 0) = captured' - captured
  PROVE  Sourced'
<1>0. funded \in Int /\ captured \in Int /\ Recharge \in Int
  BY SourcesAreInts
<1>1. Lost(r, stranded') = Lost(r, stranded) /\ Lost(r, stranded) \in Int
  BY <1>0 DEF Lost
<1>2. r \in stranded' => stage \in {"declined", "done", "crashed"}
  BY DEF SourceInv, Sourced
<1>3. (funded' - funded) + (IF stage = "paid" THEN Recharge ELSE 0)
        - (IF At(r, "paid") THEN Recharge ELSE 0)
        + (Lost(r, stranded') - Lost(r, stranded)) = captured' - captured
  BY <1>0, <1>1
<1>. QED  BY <1>2, <1>3, StageMoves

LEMMA ContinueSources ==
  ASSUME IsFiniteSet(Charges), IsFiniteSet(Topups), SourceInv, NEW r \in Requests, Continue(r)
  PROVE  captured' \in Int /\ Sourced'
<1>0. funded \in Int /\ captured \in Int /\ Recharge \in Int
  BY SourcesAreInts
<1>1. CASE Post(r)
  <2>1. /\ r \in Charges \ MarketplaceCharges /\ req[r].amount \in Amounts /\ At(r, "looked")
        /\ r \notin stranded /\ UNCHANGED <<topup, captured, funded, stranded>>
        /\ charge' = [charge EXCEPT ![r] = Completed(req[r].amount)]
    BY <1>1 DEF Post, PostCharge, SourceInv, Sourced, WalletInv, LocalInv, At, Requests,
                ForMarketplace, rechargeVars, errorVars
  <2>2. TakenFees' = TakenFees /\ TakenFees \in Int
    BY <2>1, FeesStay, FreshRow, SumsAreInts DEF SourceInv, WalletInv
  <2>. DEFINE q == Posted(req[r], balance')
  <2>3. req' = [req EXCEPT ![r] = q] /\ Flight(q) = 0 /\ Flight(req[r]) = 0
    BY <1>1, <2>1 DEF Post, Posted, Flight, At
  <2>. HIDE DEF q
  <2>4. (funded' - funded) + (Flight(q) - Flight(req[r])) + (Lost(r, stranded') - Lost(r, stranded))
          = (TakenFees' - TakenFees) + (captured' - captured)
    BY <1>0, <2>1, <2>2, <2>3 DEF Lost
  <2>. QED  BY <1>0, <2>1, <2>2, <2>3, <2>4, RequestSources
<1>2. CASE PostMarketplace(r)
  <2>. DEFINE a == req[r].amount
              q == [req[r] EXCEPT !.at = "posted"]
  <2>1. /\ r \in Charges /\ r \in MarketplaceCharges /\ a \in Amounts /\ At(r, "looked")
        /\ r \notin stranded /\ UNCHANGED <<topup, captured, stranded>> /\ Goto(r, "posted")
        /\ PostMarketplaceCharge(r, a)
    BY <1>2 DEF PostMarketplace, SourceInv, Sourced, WalletInv, LocalInv, At, Requests,
                ForMarketplace, rechargeVars, errorVars
  <2>2. charge[r] = NoRow /\ charge' = [charge EXCEPT ![r] = Completed(a)] /\ funded' = funded + a
    BY <2>1, RowInv DEF PostMarketplaceCharge, Exists, RowTellsTruth, SourceInv, WalletInv
  <2>3. a \in Nat \ {0}
    BY <2>1
  <2>4. Completed(a) \in ChargeRow /\ Completed(a).amount = a /\ a \in Int
    <3>. HIDE DEF a
    <3>. QED  BY <2>3, FreshRow DEF Completed
  <2>5. TakenFees \in Int /\ TakenFees' = TakenFees - Part(r, charge[r].amount) + Part(r, a)
    BY <2>1, <2>2, <2>4, RowChangesSums DEF SourceInv, WalletInv, BookInv, BookTypeOK
  <2>6. Part(r, charge[r].amount) = 0 /\ Part(r, a) = a
    BY <2>1, <2>2 DEF Part, NoRow
  <2>7. req' = [req EXCEPT ![r] = q] /\ Flight(q) = 0 /\ Flight(req[r]) = 0
    BY <2>1 DEF Goto, Flight, At, SourceInv, WalletInv, LocalInv, ReqState
  <2>. HIDE DEF q, a
  <2>8. TakenFees' \in Int /\ funded' \in Int /\ captured' \in Int
        /\ TakenFees' - TakenFees = a /\ funded' - funded = a /\ captured' - captured = 0
    BY <1>0, <2>1, <2>2, <2>4, <2>5, <2>6
  <2>9. (funded' - funded) + (Flight(q) - Flight(req[r])) + (Lost(r, stranded') - Lost(r, stranded))
          = (TakenFees' - TakenFees) + (captured' - captured)
    BY <2>1, <2>4, <2>7, <2>8 DEF Lost
  <2>. QED  BY <2>1, <2>7, <2>8, <2>9, RequestSources
<1>3. CASE GatewayTakes(r)
  <2>1. /\ At(r, "paying") /\ captured' = captured + Recharge /\ Goto(r, "paid")
        /\ UNCHANGED <<topup, charge, funded, stranded>>
    BY <1>3 DEF GatewayTakes, bookVars, moneyVars, errorVars
  <2>2. ~At(r, "paid") /\ "paid" \in Stages
        /\ req[r].at \notin {"declined", "done", "crashed"}
    BY <2>1 DEF At, Stages
  <2>3. funded' \in Int /\ captured' \in Int
        /\ (funded' - funded) + Recharge - 0 = captured' - captured
    BY <1>0, <2>1
  <2>. QED  BY <2>1, <2>2, <2>3, QuietRequest
<1>4. CASE CreditRecharge(r)
  <2>1. /\ At(r, "paid") /\ funded' = funded + Recharge /\ Goto(r, "done")
        /\ UNCHANGED <<topup, charge, captured, stranded>>
    BY <1>4 DEF CreditRecharge, Credit, rechargeVars, errorVars
  <2>2. "done" \in Stages /\ "done" # "paid"
    BY <2>1 DEF At, Stages
  <2>3. funded' \in Int /\ captured' \in Int
        /\ (funded' - funded) + 0 - Recharge = captured' - captured
    BY <1>0, <2>1
  <2>. QED  BY <2>1, <2>2, <2>3, QuietRequest
<1>5. CASE Refuse(r) \/ HitCap(r) \/ SetBudgetBlocked(r) \/ ClaimIdem(r) \/ AskRecharge(r)
           \/ ConsiderRecharge(r) \/ ClaimBucket(r) \/ GatewayDeclines(r) \/ PauseRecharge(r)
  <2>1. UNCHANGED <<topup, captured, stranded>> /\ UNCHANGED bookVars /\ ~At(r, "paid")
    BY <1>5 DEF Refuse, HitCap, SetBudgetBlocked, ClaimIdem, AskRecharge, ConsiderRecharge,
                ClaimBucket, GatewayDeclines, PauseRecharge, At, rechargeVars, errorVars
  <2>2. PICK stage \in Stages \ {"paid"} :
           /\ Goto(r, stage)
           /\ \/ req[r].at \notin {"declined", "done", "crashed"}
              \/ stage \in {"declined", "done", "crashed"}
    BY <1>5 DEF Refuse, HitCap, SetBudgetBlocked, ClaimIdem, AskRecharge, ConsiderRecharge,
                ClaimBucket, GatewayDeclines, PauseRecharge, Stages, At
  <2>3. UNCHANGED <<charge, funded>>
    BY <2>1 DEF bookVars, moneyVars
  <2>4. funded' \in Int /\ captured' \in Int /\ (funded' - funded) + 0 - 0 = captured' - captured
    BY <1>0, <2>1, <2>3
  <2>. QED  BY <2>1, <2>2, <2>3, <2>4, QuietRequest
<1>. QED  BY <1>1, <1>2, <1>3, <1>4, <1>5 DEF Continue

\* A failing request strands its capture, or had none.
LEMMA FailSources ==
  ASSUME IsFiniteSet(Charges), IsFiniteSet(Topups), SourceInv, NEW r \in Requests, Fail(r)
  PROVE  captured' \in Int /\ Sourced'
<1>0. /\ funded \in Int /\ captured \in Int /\ Recharge \in Int /\ UNCHANGED <<topup, charge, funded>>
      /\ r \in stranded => req[r].at \in {"declined", "done", "crashed"}
  <2>1. UNCHANGED bookVars /\ UNCHANGED topup
    BY DEF Fail, ClaimFails, GatewayAnswerLost, RechargeRaises, Crash
  <2>2. funded \in Int /\ captured \in Int /\ Recharge \in Int
    BY DEF SourceInv, WalletInv, BookInv, BookTypeOK
  <2>. QED  BY <2>1, <2>2 DEF SourceInv, Sourced, bookVars, moneyVars
<1>1. CASE ClaimFails(r)
  <2>1. PICK stage \in {"done", "claimed"} : Goto(r, stage)
    BY <1>1 DEF ClaimFails
  <2>2. UNCHANGED <<captured, stranded>> /\ At(r, "posted")
    BY <1>1 DEF ClaimFails, rechargeVars
  <2>3. stage \in Stages /\ stage # "paid" /\ ~At(r, "paid") /\ req[r].at = "posted"
    BY <2>1, <2>2 DEF Stages, At
  <2>4. funded' \in Int /\ captured' \in Int /\ (funded' - funded) + 0 - 0 = captured' - captured
    BY <1>0, <2>2
  <2>. QED  BY <1>0, <2>1, <2>2, <2>3, <2>4, QuietRequest
<1>2. CASE GatewayAnswerLost(r)
  <2>1. /\ At(r, "paying") /\ captured' = captured + Recharge /\ stranded' = stranded \cup {r}
        /\ Goto(r, "declined")
    BY <1>2 DEF GatewayAnswerLost
  <2>2. /\ Lost(r, stranded') = Recharge /\ Lost(r, stranded) = 0 /\ ~At(r, "paid")
        /\ "declined" \in Stages
    BY <1>0, <2>1 DEF Lost, At, Stages
  <2>3. funded' \in Int /\ captured' \in Int
        /\ (funded' - funded) + 0 - 0 + (Lost(r, stranded') - Lost(r, stranded)) = captured' - captured
    BY <1>0, <2>1, <2>2
  <2>. QED  BY <1>0, <2>1, <2>2, <2>3, StageMoves
<1>3. CASE RechargeRaises(r) \/ Crash(r)
  <2>1. PICK stage \in {"done", "crashed"} : Goto(r, stage)
    BY <1>3 DEF RechargeRaises, Crash
  <2>2. /\ captured' = captured
        /\ stranded' = IF At(r, "paid") THEN stranded \cup {r} ELSE stranded
    BY <1>3 DEF RechargeRaises, Crash, rechargeVars
  <2>3. /\ stage \in Stages /\ stage # "paid" /\ stranded' \ {r} = stranded \ {r}
        /\ Lost(r, stranded') - Lost(r, stranded) = IF At(r, "paid") THEN Recharge ELSE 0
    <3>1. At(r, "paid") => r \notin stranded
      BY <1>0 DEF At
    <3>2. stage \in Stages /\ stage # "paid"
      BY DEF Stages
    <3>3. CASE At(r, "paid")
      <4>1. Lost(r, stranded') = Recharge /\ Lost(r, stranded) = 0
        BY <2>2, <3>1, <3>3 DEF Lost
      <4>. QED  BY <1>0, <2>2, <3>2, <3>3, <4>1
    <3>4. CASE ~At(r, "paid")
      <4>1. Lost(r, stranded') = Lost(r, stranded) /\ Lost(r, stranded) \in Int
        BY <1>0, <2>2, <3>4 DEF Lost
      <4>. QED  BY <2>2, <3>2, <3>4, <4>1
    <3>. QED  BY <3>3, <3>4
  <2>4. funded' \in Int /\ captured' \in Int
        /\ (funded' - funded) + 0 - (IF At(r, "paid") THEN Recharge ELSE 0)
             + (Lost(r, stranded') - Lost(r, stranded)) = captured' - captured
    BY <1>0, <2>2, <2>3
  <2>. QED  BY <1>0, <2>1, <2>3, <2>4, StageMoves
<1>. QED  BY <1>1, <1>2, <1>3 DEF Fail

LEMMA SourceStep ==
  ASSUME IsFiniteSet(Charges), IsFiniteSet(Topups), SourceInv, [Next]_vars
  PROVE  SourceInv'
<1>0. /\ funded \in Int /\ captured \in Int /\ Recharge \in Int /\ BookInv /\ LocalInv
      /\ ToppedUp \in Int /\ TakenFees \in Int
  BY SumsAreInts DEF SourceInv, WalletInv, BookInv, BookTypeOK
<1>1. ASSUME UNCHANGED <<req, topup, charge, funded, captured, stranded>>
      PROVE  captured' \in Int /\ Sourced'
  BY <1>1 DEF SourceInv, Sourced, EveryCreditHasASource, ToppedUp, TakenFees, InFlight, Stranded, At
<1>2. ASSUME \/ UNCHANGED vars \/ NewDay \/ FlagsExpire \/ \E k \in IdemKeys : ForgetRef(k)
             \/ \E d \in Days : CounterExpires(d)
      PROVE  captured' \in Int /\ Sourced'
  <2>1. UNCHANGED <<req, topup, charge, funded, captured, stranded>>
    <3>1. CASE UNCHANGED vars
      BY <3>1 DEF vars, bookVars, moneyVars, rechargeVars, errorVars
    <3>2. CASE NewDay
      BY <3>2 DEF NewDay, Midnight, moneyVars, rechargeVars, errorVars
    <3>3. CASE FlagsExpire
      BY <3>3 DEF FlagsExpire, bookVars, moneyVars, errorVars
    <3>4. CASE \E k \in IdemKeys : ForgetRef(k)
      BY <3>4 DEF ForgetRef, bookVars, moneyVars, rechargeVars, errorVars
    <3>5. CASE \E d \in Days : CounterExpires(d)
      BY <3>5 DEF CounterExpires, CounterLapses, rechargeVars, errorVars
    <3>. QED  BY <1>2, <3>1, <3>2, <3>3, <3>4, <3>5
  <2>. QED  BY <1>1, <2>1
<1>3. ASSUME (\E b \in Budgets : SetBudget(b)) \/ (\E on \in Settings : SetEnabled(on))
      PROVE  captured' \in Int /\ Sourced'
  <2>1. UNCHANGED <<req, topup, charge, funded, captured, stranded>>
    <3>1. CASE \E b \in Budgets : SetBudget(b)
      BY <3>1 DEF SetBudget, SetDailyBudget, moneyVars, rechargeVars, errorVars
    <3>2. CASE \E on \in Settings : SetEnabled(on)
      BY <3>2 DEF SetEnabled, bookVars, moneyVars, errorVars
    <3>. QED  BY <1>3, <3>1, <3>2
  <2>. QED  BY <1>1, <2>1
<1>4. ASSUME NEW r \in Requests, NEW q, req' = [req EXCEPT ![r] = q], At(r, "idle"), Flight(q) = 0,
             UNCHANGED <<topup, charge, funded, captured, stranded>>
      PROVE  captured' \in Int /\ Sourced'
  <2>1. r \notin stranded /\ Flight(req[r]) = 0 /\ stranded' = stranded
    BY <1>4 DEF At, Flight, SourceInv, Sourced
  <2>2. TakenFees' = TakenFees
    BY <1>4 DEF TakenFees
  <2>3. /\ funded' \in Int /\ captured' \in Int /\ TakenFees' \in Int
        /\ (funded' - funded) + (Flight(q) - Flight(req[r])) + (Lost(r, stranded') - Lost(r, stranded))
            = (TakenFees' - TakenFees) + (captured' - captured)
    BY <1>0, <1>4, <2>1, <2>2 DEF Lost
  <2>. QED  BY <1>4, <2>1, <2>3, RequestSources
<1>5. ASSUME NEW r \in Requests, NEW ref, NEW a, Arrive(r, ref, a)
      PROVE  captured' \in Int /\ Sourced'
  <2>1. PICK stage \in {"done", "looked"} :
            req' = [req EXCEPT ![r] = [at |-> stage, ref |-> ref, amount |-> a,
                                       day |-> today, seen |-> 0]]
    BY <1>5 DEF Arrive
  <2>2. Flight([at |-> stage, ref |-> ref, amount |-> a, day |-> today, seen |-> 0]) = 0
    BY DEF Flight
  <2>. QED  BY <1>4, <1>5, <2>1, <2>2 DEF Arrive, bookVars, moneyVars, rechargeVars, errorVars
<1>6. ASSUME NEW r \in Requests, TestTrigger(r) PROVE captured' \in Int /\ Sourced'
  <2>1. Flight([at |-> "asked", ref |-> NoRef, amount |-> 0, day |-> today, seen |-> -1]) = 0
    BY DEF Flight
  <2>. QED  BY <1>4, <1>6, <2>1 DEF TestTrigger, bookVars, moneyVars, errorVars
<1>7. ASSUME NEW r \in Requests, Fail(r) PROVE captured' \in Int /\ Sourced'
  BY <1>7, FailSources
<1>8. ASSUME NEW t \in Topups, NEW a \in Amounts, CreateTopup(t, a)
      PROVE  captured' \in Int /\ Sourced'
  <2>. DEFINE row == [status |-> "pending", amount |-> a]
  <2>1. /\ topup' = [topup EXCEPT ![t] = row] /\ row \in TopupRow /\ Top(row) = 0
        /\ Top(topup[t]) = 0 /\ UNCHANGED <<req, captured, stranded, charge, funded>>
    BY <1>8 DEF CreateTopup, TopupRow, Top, bookVars, moneyVars, rechargeVars, errorVars
  <2>. HIDE DEF row
  <2>2. ToppedUp' = ToppedUp
    <3>1. ToppedUp' = ToppedUp - Top(topup[t]) + Top(row)
      BY <1>0, <2>1, TopMoves DEF LocalInv
    <3>. QED  BY <1>0, <2>1, <3>1
  <2>3. TakenFees' = TakenFees
    BY <2>1 DEF TakenFees
  <2>4. funded' - funded = (ToppedUp' - ToppedUp) + (TakenFees' - TakenFees)
    BY <1>0, <2>1, <2>2, <2>3
  <2>. QED  BY <1>0, <2>1, <2>2, <2>3, <2>4, OtherSources
<1>9. ASSUME NEW t \in Topups, ConfirmTopup(t) PROVE captured' \in Int /\ Sourced'
  <2>. DEFINE row == [topup[t] EXCEPT !.status = "confirmed"]
              a == topup[t].amount
  <2>1. /\ topup' = [topup EXCEPT ![t] = row] /\ row \in TopupRow /\ Top(row) = a /\ a \in Int
        /\ Top(topup[t]) = 0 /\ UNCHANGED <<req, captured, stranded, charge>> /\ funded' = funded + a
    BY <1>0, <1>9 DEF ConfirmTopup, Credit, TopupRow, Top, rechargeVars, errorVars, LocalInv
  <2>. HIDE DEF row, a
  <2>2. ToppedUp' = ToppedUp - Top(topup[t]) + Top(row)
    BY <1>0, <2>1, TopMoves DEF LocalInv
  <2>3. TakenFees' = TakenFees
    BY <2>1 DEF TakenFees
  <2>4. ToppedUp' \in Int /\ ToppedUp' - ToppedUp = a
    BY <1>0, <2>1, <2>2
  <2>5. funded' - funded = (ToppedUp' - ToppedUp) + (TakenFees' - TakenFees)
    <3>1. funded' - funded = a /\ TakenFees' - TakenFees = 0
      BY <1>0, <2>1, <2>3
    <3>. QED  BY <2>1, <2>4, <3>1
  <2>6. funded' \in Int /\ TakenFees' \in Int
    BY <1>0, <2>1, <2>3
  <2>. QED  BY <1>0, <2>1, <2>4, <2>5, <2>6, OtherSources
<1>10. ASSUME NEW c \in Charges, NEW row \in ChargeRow, charge' = [charge EXCEPT ![c] = row],
              row.amount = charge[c].amount, UNCHANGED <<req, topup, funded, captured, stranded>>
       PROVE  captured' \in Int /\ Sourced'
  <2>1. TakenFees' = TakenFees /\ ToppedUp' = ToppedUp
    BY <1>0, <1>10, FeesStay DEF ToppedUp
  <2>2. funded' - funded = (ToppedUp' - ToppedUp) + (TakenFees' - TakenFees)
    BY <1>0, <1>10, <2>1
  <2>. QED  BY <1>0, <1>10, <2>1, <2>2, OtherSources
<1>11. ASSUME NEW c \in Charges, FreezeSome(c) PROVE captured' \in Int /\ Sourced'
  <2>1. PICK st \in {"completed", "disputed"} : charge' = [charge EXCEPT ![c] = WithStatus(@, st)]
    BY <1>11 DEF FreezeSome, Freeze, Unfreeze
  <2>2. WithStatus(charge[c], st) \in ChargeRow
        /\ WithStatus(charge[c], st).amount = charge[c].amount
    BY <1>0, RowInv DEF WithStatus, ChargeRow, Statuses
  <2>3. UNCHANGED <<req, topup, funded, captured, stranded>>
    BY <1>11 DEF FreezeSome, Freeze, Unfreeze, rechargeVars, errorVars
  <2>. QED  BY <1>10, <2>1, <2>2, <2>3
<1>12. ASSUME NEW c \in Charges, NEW d, RefundSome(c, d)
       PROVE  captured' \in Int /\ Sourced'
  <2>1. UNCHANGED <<req, topup, funded, captured, stranded>>
    BY <1>12 DEF RefundSome, Refund, DisputeRefund, ReverseCharge, PayBack, rechargeVars, errorVars
  <2>2. charge[c] \in ChargeRow
    BY <1>0, RowInv
  <2>3. CASE Refund(c, d)
    <3>1. AfterWhole(charge[c]) \in ChargeRow /\ AfterWhole(charge[c]).amount = charge[c].amount
      BY <2>2 DEF AfterWhole, ChargeRow, Statuses
    <3>. QED  BY <1>10, <2>1, <2>3, <3>1 DEF Refund
  <2>4. ASSUME NEW a \in Nat, charge' = [charge EXCEPT ![c] = AfterPartial(@, a)]
        PROVE  captured' \in Int /\ Sourced'
    <3>1. AfterPartial(charge[c], a) \in ChargeRow
          /\ AfterPartial(charge[c], a).amount = charge[c].amount
      BY <2>2 DEF AfterPartial, ChargeRow, Statuses
    <3>. QED  BY <1>10, <2>1, <2>4, <3>1
  <2>5. ASSUME NEW a \in Amounts, DisputeRefund(c, a, d) \/ ReverseCharge(c, a, d)
        PROVE  captured' \in Int /\ Sourced'
    <3>1. CASE DisputeRefund(c, a, d)
      BY <2>4, <3>1 DEF DisputeRefund
    <3>2. CASE ReverseCharge(c, a, d)
      <4>1. ReversalAmount(c, a) \in Nat
        <5>1. a \in Nat /\ charge[c].amount \in Nat /\ charge[c].refunded \in Nat
          BY <2>2 DEF ChargeRow
        <5>. QED  BY <3>2, <5>1 DEF ReverseCharge, ReversalAmount, Remaining
      <4>. QED  BY <2>4, <3>2, <4>1 DEF ReverseCharge
    <3>. QED  BY <2>5, <3>1, <3>2
  <2>. QED  BY <1>12, <2>3, <2>5 DEF RefundSome
<1>13. captured' \in Int /\ Sourced'
  <2>1. ASSUME NEW r \in Requests,
               \/ \E ref \in Refs \cup {NoRef}, a \in Amounts : Arrive(r, ref, a)
               \/ TestTrigger(r) \/ Continue(r) \/ Fail(r)
        PROVE  captured' \in Int /\ Sourced'
    BY <1>5, <1>6, <1>7, <2>1, ContinueSources
  <2>. QED  BY <1>2, <1>3, <1>8, <1>9, <1>11, <1>12, <2>1 DEF Next
<1>. QED  BY <1>13, WalletInvStep DEF SourceInv

LEMMA SourceInit ==
  ASSUME IsFiniteSet(Charges), IsFiniteSet(Topups), Init
  PROVE  SourceInv
<1>. DEFINE C == Charges
            M == MarketplaceCharges
            f == [x \in C |-> Flight(req[x])]
            g == [x \in Topups |-> Top(topup[x])]
            h == [x \in M |-> charge[x].amount]
            u == [x \in C |-> Lost(x, stranded)]
<1>1. /\ InFlight = SumFunctionOnSet(f, C) /\ ToppedUp = SumFunctionOnSet(g, Topups)
      /\ TakenFees = SumFunctionOnSet(h, M) /\ Stranded = SumFunctionOnSet(u, C)
  BY DEF Stranded, Lost, InFlight, ToppedUp, TakenFees, SumFunction, Top, Flight, Requests, At
<1>2. /\ \A x \in C : f[x] = 0
      /\ \A x \in Topups : g[x] = 0
      /\ \A x \in M : h[x] = 0
      /\ \A x \in C : u[x] = 0
  BY DEF Lost, Init, BookInit, Requests, IdleReq, NoRow, Flight, Top
<1>3. IsFiniteSet(C) /\ IsFiniteSet(M)
  BY FS_Subset
<1>. HIDE DEF C, M, f, g, h, u
<1>4. InFlight = 0 /\ ToppedUp = 0 /\ TakenFees = 0 /\ Stranded = 0
  BY <1>1, <1>2, <1>3, SumZero
<1>5. funded = 0 /\ captured = 0 /\ stranded = {}
  BY DEF Init, BookInit
<1>. QED  BY <1>4, <1>5, WalletInvariant DEF SourceInv, Sourced, EveryCreditHasASource

(***************************************************************************)
(* No cent reaches the balance from nowhere, for any number of requests,   *)
(* top-ups, crashes and swallowed errors: a repeated top-up confirmation   *)
(* credits once, a recharge is credited only against a capture of its own, *)
(* and what was paid and is missing, a request holds or has stranded.      *)
(***************************************************************************)
THEOREM WalletCreditsHaveSources ==
  ASSUME IsFiniteSet(Charges), IsFiniteSet(Topups)
  PROVE  Spec => []EveryCreditHasASource
<1>1. Init => SourceInv
  BY SourceInit
<1>2. SourceInv /\ [Next]_vars => SourceInv'
  BY SourceStep
<1>3. SourceInv => EveryCreditHasASource
  BY DEF SourceInv, Sourced
<1>. QED  BY <1>1, <1>2, <1>3, PTL DEF Spec
-----------------------------------------------------------------------------
(***************************************************************************)
(* Replays. What a request whose charge committed, and one that has looked *)
(* its reference up, may say of the key of that reference: ex is whether   *)
(* the charge row exists, un whether its claim failed, key the key as it   *)
(* stands, now the date.                                                   *)
(***************************************************************************)
KeyFits(q, ex, un, key, now) ==
    /\ q.day <= now
    /\ ex => q.at \notin {"idle", "looked", "capped"}
    /\ ex /\ q.ref \in Refs /\ q.at \notin {"posted", "crashed"} /\ ~un
         => q.day < now \/ key.id # None
    /\ (ex \/ q.at = "looked") /\ q.ref \in Refs /\ key.id # None => q.day <= key.day

KeyOf(r) == idem[IdemKey(r, req[r].ref)]
Unclaimed(r) == r \in unclaimed

ReplayInv == /\ LocalInv
             /\ idem \in [IdemKeys -> IdemRow]
             /\ \A r \in Requests : KeyFits(req[r], Exists(r), Unclaimed(r), KeyOf(r), today)

LEMMA KeyIn == ASSUME NEW r \in Requests, NEW ref \in Refs PROVE IdemKey(r, ref) \in IdemKeys
  BY DEF IdemKey, IdemKeys

LEMMA ReplayInit == Init => ReplayInv
  BY InitLocal DEF Init, BookInit, ReplayInv, KeyFits, Exists, NoRow, IdleReq, IdemRow, NoIdem,
                   IdemKeys, Requests, Days

LEMMA ReplayTypes ==
  ASSUME ReplayInv, NEW r \in Requests
  PROVE  /\ req[r] \in ReqState /\ req[r].day \in Int /\ today \in Int
         /\ KeyFits(req[r], Exists(r), Unclaimed(r), KeyOf(r), today)
  BY DEF ReplayInv, LocalInv, ReqState, Days

\* Steps that touch neither the requests nor the keys.
LEMMA ReplayFrame ==
  ASSUME ReplayInv, LocalInv', UNCHANGED <<req, idem, unclaimed>>, today' = today \/ today' = today + 1,
         \A r \in Requests : Exists(r)' = Exists(r)
  PROVE  ReplayInv'
<1>1. ASSUME NEW r \in Requests PROVE KeyFits(req[r], Exists(r), Unclaimed(r), KeyOf(r), today)'
  <2>1. /\ req[r].day \in Int /\ today \in Int
        /\ KeyFits(req[r], Exists(r), Unclaimed(r), KeyOf(r), today)
    BY ReplayTypes
  <2>2. /\ KeyOf(r)' = KeyOf(r) /\ req'[r] = req[r] /\ Exists(r)' = Exists(r)
        /\ Unclaimed(r)' = Unclaimed(r)
    BY DEF KeyOf, Unclaimed
  <2>. QED  BY <2>1, <2>2 DEF KeyFits
<1>. QED  BY <1>1 DEF ReplayInv

\* A step of one request that leaves the keys alone.
LEMMA ReplayMoves ==
  ASSUME ReplayInv, LocalInv', UNCHANGED <<idem, unclaimed, today>>,
         NEW r \in Requests, NEW q, req' = [req EXCEPT ![r] = q],
         \A x \in Requests \ {r} : Exists(x)' = Exists(x),
         KeyFits(q, Exists(r)', Unclaimed(r)', idem[IdemKey(r, q.ref)], today)
  PROVE  ReplayInv'
<1>1. ASSUME NEW x \in Requests \ {r} PROVE KeyFits(req[x], Exists(x), Unclaimed(x), KeyOf(x), today)'
  <2>1. KeyFits(req[x], Exists(x), Unclaimed(x), KeyOf(x), today)
    BY ReplayTypes
  <2>2. /\ KeyOf(x)' = KeyOf(x) /\ req'[x] = req[x] /\ Exists(x)' = Exists(x)
        /\ Unclaimed(x)' = Unclaimed(x)
    BY DEF KeyOf, Unclaimed, ReplayInv, LocalInv
  <2>. QED  BY <2>1, <2>2 DEF KeyFits
<1>2. KeyFits(req[r], Exists(r), Unclaimed(r), KeyOf(r), today)'
  <2>1. req'[r] = q /\ KeyOf(r)' = idem[IdemKey(r, q.ref)]
    BY DEF KeyOf, ReplayInv, LocalInv, IdemKey
  <2>. QED  BY <2>1 DEF KeyFits
<1>. QED  BY <1>1, <1>2 DEF ReplayInv

\* A request that goes on, and was not waiting to claim its key.
LEMMA ReplayGoto ==
  ASSUME ReplayInv, LocalInv', UNCHANGED <<idem, unclaimed, today>>, NEW r \in Requests,
         NEW stage \in Stages \ {"idle", "looked"}, Goto(r, stage),
         stage = "capped" => At(r, "looked"), At(r, "posted") \/ At(r, "crashed") => stage = "crashed",
         \A x \in Requests : Exists(x)' = Exists(x)
  PROVE  ReplayInv'
<1>. DEFINE q == [req[r] EXCEPT !.at = stage]
<1>1. KeyFits(req[r], Exists(r), Unclaimed(r), KeyOf(r), today) /\ req[r] \in ReqState
  BY ReplayTypes
<1>2. /\ q.at = stage /\ q.ref = req[r].ref /\ q.day = req[r].day
      /\ req' = [req EXCEPT ![r] = q]
  BY <1>1 DEF ReqState, Goto
<1>. HIDE DEF q
<1>3. KeyFits(q, Exists(r)', Unclaimed(r)', idem[IdemKey(r, q.ref)], today)
  BY <1>1, <1>2 DEF KeyFits, KeyOf, Unclaimed, At
<1>. QED  BY <1>2, <1>3, ReplayMoves

\* The charge commits: its row appears, the key is still as the lookup left it.
LEMMA ReplayPost ==
  ASSUME ReplayInv, LocalInv', UNCHANGED <<idem, unclaimed, today>>, NEW r \in Requests, At(r, "looked"),
         NEW q, req' = [req EXCEPT ![r] = q],
         q.at = "posted", q.ref = req[r].ref, q.day = req[r].day,
         \A x \in Requests \ {r} : Exists(x)' = Exists(x)
  PROVE  ReplayInv'
<1>1. KeyFits(req[r], Exists(r), Unclaimed(r), KeyOf(r), today)
  BY ReplayTypes
<1>2. KeyFits(q, Exists(r)', Unclaimed(r)', idem[IdemKey(r, q.ref)], today)
  BY <1>1 DEF KeyFits, KeyOf, Unclaimed, At
<1>. QED  BY <1>2, ReplayMoves

\* The key is claimed, by this request or by another of the same reference.
LEMMA ReplayClaim ==
  ASSUME ReplayInv, LocalInv', UNCHANGED <<charge, today, unclaimed>>, NEW r \in Requests,
         ClaimIdem(r)
  PROVE  ReplayInv'
<1>. DEFINE key == IdemKey(r, req[r].ref)
            stage == IF ForMarketplace(r) THEN "done" ELSE "claimed"
<1>1. ASSUME NEW x \in Requests
      PROVE  /\ req'[x].ref = req[x].ref /\ req'[x].day = req[x].day
             /\ req'[x].at = IF x = r THEN stage ELSE req[x].at
  BY ReplayTypes DEF ClaimIdem, Goto, ReplayInv, LocalInv, ReqState
<1>2. idem' \in [IdemKeys -> IdemRow]
  <2>1. r \in Charges /\ today \in Days
    BY DEF Requests, ReplayInv, LocalInv
  <2>2. [id |-> r, day |-> today] \in IdemRow
    BY <2>1 DEF IdemRow
  <2>. QED  BY <2>2 DEF ClaimIdem, ReplayInv
<1>3. \A k \in IdemKeys : idem'[k] = idem[k] \/ (idem'[k].id = r /\ idem'[k].day = today)
  BY DEF ClaimIdem, ReplayInv
<1>4. r # None
  BY DEF Requests
<1>5. ASSUME NEW x \in Requests PROVE KeyFits(req[x], Exists(x), Unclaimed(x), KeyOf(x), today)'
  <2>1. KeyFits(req[x], Exists(x), Unclaimed(x), KeyOf(x), today) /\ req[x].day \in Int /\ today \in Int
    BY ReplayTypes
  <2>2. Exists(x)' = Exists(x) /\ Unclaimed(x)' = Unclaimed(x)
    BY DEF Exists, Unclaimed
  <2>3. KeyOf(x)' = idem'[IdemKey(x, req[x].ref)]
    BY <1>1 DEF KeyOf, IdemKey
  <2>4. CASE req[x].ref \notin Refs
    BY <1>1, <2>1, <2>2, <2>4 DEF KeyFits, At, ClaimIdem
  <2>5. CASE req[x].ref \in Refs
    <3>1. IdemKey(x, req[x].ref) \in IdemKeys
      BY <2>5, KeyIn
    <3>2. KeyOf(x)' = KeyOf(x) \/ (KeyOf(x)'.id # None /\ KeyOf(x)'.day = today)
      BY <1>3, <1>4, <2>3, <3>1 DEF KeyOf
    <3>3. ASSUME x = r PROVE KeyOf(x)'.id # None
      <4>1. r \in Requests /\ key \in IdemKeys /\ idem \in [IdemKeys -> IdemRow]
        BY <2>5, <3>3, KeyIn DEF ReplayInv
      <4>. QED  BY <1>4, <2>3, <2>5, <3>3, <4>1 DEF ClaimIdem
    <3>. QED  BY <1>1, <2>1, <2>2, <3>2, <3>3 DEF KeyFits
  <2>. QED  BY <2>4, <2>5
<1>. QED  BY <1>2, <1>5 DEF ReplayInv

\* The claim failed: from here on no more is said of this attempt's key.
LEMMA ReplayFails ==
  ASSUME ReplayInv, LocalInv', NEW r \in Requests, ClaimFails(r)
  PROVE  ReplayInv'
<1>1. /\ UNCHANGED <<charge, today, idem>> /\ unclaimed' = unclaimed \cup {r} /\ At(r, "posted")
      /\ \E stage \in {"done", "claimed"} : Goto(r, stage)
  BY DEF ClaimFails, bookVars, moneyVars
<1>2. PICK stage \in {"done", "claimed"} : Goto(r, stage)
  BY <1>1
<1>3. ASSUME NEW x \in Requests
      PROVE  /\ req'[x].ref = req[x].ref /\ req'[x].day = req[x].day
             /\ req'[x].at = IF x = r THEN stage ELSE req[x].at
  BY <1>2, ReplayTypes DEF Goto, ReplayInv, LocalInv, ReqState
<1>4. ASSUME NEW x \in Requests
      PROVE  KeyFits(req[x], Exists(x), Unclaimed(x), KeyOf(x), today)'
  <2>1. KeyFits(req[x], Exists(x), Unclaimed(x), KeyOf(x), today)
    BY ReplayTypes
  <2>2. /\ Exists(x)' = Exists(x) /\ KeyOf(x)' = KeyOf(x) /\ today' = today
        /\ Unclaimed(x)' = (Unclaimed(x) \/ x = r)
    BY <1>1, <1>3 DEF Exists, KeyOf, IdemKey, Unclaimed
  <2>. QED  BY <1>1, <1>3, <2>1, <2>2 DEF KeyFits, At
<1>. QED  BY <1>1, <1>4 DEF ReplayInv

\* A key is forgotten the day after its claim: the attempts it stood for are as old.
LEMMA ReplayForget ==
  ASSUME ReplayInv, LocalInv', NEW k \in IdemKeys, ForgetRef(k)
  PROVE  ReplayInv'
<1>1. UNCHANGED <<charge, today, req, unclaimed>> /\ idem[k].day < today
      /\ idem' = [idem EXCEPT ![k] = NoIdem]
  BY DEF ForgetRef, bookVars, moneyVars, errorVars
<1>2. idem' \in [IdemKeys -> IdemRow] /\ NoIdem.id = None
  <2>1. NoIdem \in IdemRow
    BY DEF NoIdem, IdemRow, Days
  <2>. QED  BY <1>1, <2>1 DEF ReplayInv, NoIdem
<1>3. ASSUME NEW x \in Requests PROVE KeyFits(req[x], Exists(x), Unclaimed(x), KeyOf(x), today)'
  <2>1. KeyFits(req[x], Exists(x), Unclaimed(x), KeyOf(x), today) /\ req[x].day \in Int /\ today \in Int
    BY ReplayTypes
  <2>2. /\ Exists(x)' = Exists(x) /\ req'[x] = req[x] /\ today' = today
        /\ Unclaimed(x)' = Unclaimed(x)
    BY <1>1 DEF Exists, Unclaimed
  <2>3. KeyOf(x)' = idem'[IdemKey(x, req[x].ref)]
    BY <1>1 DEF KeyOf, IdemKey
  <2>4. CASE IdemKey(x, req[x].ref) # k
    <3>1. req[x].ref \in Refs => KeyOf(x)' = KeyOf(x)
      BY <1>1, <2>3, <2>4, KeyIn DEF KeyOf, ReplayInv
    <3>. QED  BY <2>1, <2>2, <3>1 DEF KeyFits
  <2>5. CASE IdemKey(x, req[x].ref) = k
    <3>1. KeyOf(x)'.id = None /\ KeyOf(x).day < today
      BY <1>1, <1>2, <2>3, <2>5 DEF KeyOf, ReplayInv
    <3>2. KeyOf(x).day \in Int
      BY <2>5 DEF KeyOf, ReplayInv, IdemRow, Days
    <3>. QED  BY <2>1, <2>2, <3>1, <3>2 DEF KeyFits
  <2>. QED  BY <2>4, <2>5
<1>. QED  BY <1>2, <1>3 DEF ReplayInv

\* A row that is rewritten is still there.
LEMMA RowsStay ==
  ASSUME BookInv, NEW c \in Charges, Exists(c), NEW row, row.status # "none",
         charge' = [charge EXCEPT ![c] = row]
  PROVE  \A x \in Requests : Exists(x)' = Exists(x)
  BY DEF Exists, BookInv, BookTypeOK, Requests

LEMMA ReplayContinue ==
  ASSUME ReplayInv, LocalInv', BookInv, NEW r \in Requests, Continue(r)
  PROVE  ReplayInv'
<1>1. CASE Post(r)
  <2>1. /\ At(r, "looked") /\ UNCHANGED <<idem, unclaimed, today>>
        /\ req' = [req EXCEPT ![r] = Posted(req[r], balance')]
        /\ charge' = [charge EXCEPT ![r] = Completed(req[r].amount)]
    BY <1>1 DEF Post, PostCharge, errorVars
  <2>2. \A x \in Requests \ {r} : Exists(x)' = Exists(x)
    BY <2>1 DEF Exists, BookInv, BookTypeOK, Requests
  <2>3. /\ Posted(req[r], balance').at = "posted"
        /\ Posted(req[r], balance').ref = req[r].ref
        /\ Posted(req[r], balance').day = req[r].day
    BY DEF Posted
  <2>. QED  BY <2>1, <2>2, <2>3, ReplayPost
<1>2. CASE PostMarketplace(r)
  <2>. DEFINE q == [req[r] EXCEPT !.at = "posted"]
  <2>1. /\ At(r, "looked") /\ UNCHANGED <<idem, unclaimed, today>> /\ Goto(r, "posted")
        /\ charge' = [charge EXCEPT ![r] = Completed(req[r].amount)]
    BY <1>2 DEF PostMarketplace, PostMarketplaceCharge, errorVars
  <2>2. \A x \in Requests \ {r} : Exists(x)' = Exists(x)
    BY <2>1 DEF Exists, BookInv, BookTypeOK, Requests
  <2>3. req' = [req EXCEPT ![r] = q] /\ q.at = "posted" /\ q.ref = req[r].ref /\ q.day = req[r].day
    BY <2>1, ReplayTypes DEF Goto, ReqState
  <2>. HIDE DEF q
  <2>. QED  BY <2>1, <2>2, <2>3, ReplayPost
<1>3. CASE CreditRecharge(r)
  <2>1. Goto(r, "done") /\ At(r, "paid") /\ UNCHANGED <<idem, unclaimed, today, charge>>
    BY <1>3 DEF CreditRecharge, Credit, errorVars
  <2>2. /\ "done" \in Stages \ {"idle", "looked"} /\ "done" # "capped"
        /\ ~At(r, "posted") /\ ~At(r, "crashed")
    BY <2>1 DEF Stages, At
  <2>3. \A x \in Requests : Exists(x)' = Exists(x)
    BY <2>1 DEF Exists
  <2>. QED  BY <2>1, <2>2, <2>3, ReplayGoto
<1>4. CASE ClaimIdem(r)
  BY <1>4, ReplayClaim DEF ClaimIdem, bookVars, moneyVars, errorVars
<1>5. CASE Refuse(r) \/ HitCap(r) \/ SetBudgetBlocked(r) \/ AskRecharge(r)
           \/ ConsiderRecharge(r) \/ ClaimBucket(r) \/ GatewayTakes(r)
           \/ GatewayDeclines(r) \/ PauseRecharge(r)
  <2>1. UNCHANGED bookVars /\ UNCHANGED <<idem, unclaimed>> /\ ~At(r, "posted") /\ ~At(r, "crashed")
    BY <1>5 DEF Refuse, HitCap, SetBudgetBlocked, AskRecharge, ConsiderRecharge,
                ClaimBucket, GatewayTakes, GatewayDeclines, PauseRecharge, At, errorVars
  <2>2. PICK stage \in Stages \ {"idle", "looked"} :
           Goto(r, stage) /\ (stage = "capped" => At(r, "looked"))
    BY <1>5 DEF Refuse, HitCap, SetBudgetBlocked, AskRecharge, ConsiderRecharge,
                ClaimBucket, GatewayTakes, GatewayDeclines, PauseRecharge, Stages
  <2>3. UNCHANGED <<idem, unclaimed, today>> /\ \A x \in Requests : Exists(x)' = Exists(x)
    BY <2>1 DEF bookVars, moneyVars, Exists
  <2>. QED  BY <2>1, <2>2, <2>3, ReplayGoto
<1>. QED  BY <1>1, <1>2, <1>3, <1>4, <1>5 DEF Continue

LEMMA ReplayStep ==
  ASSUME ReplayInv, WalletInv, [Next]_vars
  PROVE  ReplayInv'
<1>0. LocalInv' /\ BookInv
  BY WalletInvStep DEF WalletInv
<1>1. ASSUME UNCHANGED <<req, idem, unclaimed, charge>>, today' = today \/ today' = today + 1 PROVE ReplayInv'
  <2>1. \A r \in Requests : Exists(r)' = Exists(r)
    BY <1>1 DEF Exists
  <2>. QED  BY <1>0, <1>1, <2>1, ReplayFrame
<1>2. CASE UNCHANGED vars
  BY <1>1, <1>2 DEF vars, bookVars, moneyVars, errorVars
<1>3. CASE NewDay
  BY <1>1, <1>3 DEF NewDay, Midnight, moneyVars, errorVars
<1>4. CASE FlagsExpire
  BY <1>1, <1>4 DEF FlagsExpire, bookVars, moneyVars, errorVars
<1>14. ASSUME NEW d \in Days, CounterExpires(d) PROVE ReplayInv'
  BY <1>1, <1>14 DEF CounterExpires, CounterLapses, errorVars
<1>5. ASSUME NEW k \in IdemKeys, ForgetRef(k) PROVE ReplayInv'
  BY <1>0, <1>5, ReplayForget
<1>6. ASSUME NEW r \in Requests, NEW ref \in Refs \cup {NoRef}, NEW a \in Amounts, Arrive(r, ref, a)
      PROVE  ReplayInv'
  <2>. DEFINE replay == ref \in Refs /\ idem[IdemKey(r, ref)].id # None
              q == [at |-> IF replay THEN "done" ELSE "looked",
                    ref |-> ref, amount |-> a, day |-> today, seen |-> 0]
  <2>1. /\ At(r, "idle") /\ req' = [req EXCEPT ![r] = q]
        /\ UNCHANGED bookVars /\ UNCHANGED <<idem, unclaimed>>
    BY <1>6 DEF Arrive, errorVars
  <2>2. UNCHANGED <<charge, today, idem, unclaimed>> /\ \A x \in Requests : Exists(x)' = Exists(x)
    BY <2>1 DEF bookVars, moneyVars, Exists
  <2>3. ~Exists(r) /\ today \in Int
    BY <2>1, ReplayTypes DEF KeyFits, At
  <2>4. KeyFits(q, Exists(r)', Unclaimed(r)', idem[IdemKey(r, q.ref)], today)
    BY <2>2, <2>3 DEF KeyFits
  <2>. HIDE DEF q
  <2>. QED  BY <1>0, <2>1, <2>2, <2>4, ReplayMoves
<1>7. ASSUME NEW r \in Requests, TestTrigger(r) PROVE ReplayInv'
  <2>. DEFINE q == [at |-> "asked", ref |-> NoRef, amount |-> 0, day |-> today, seen |-> -1]
  <2>1. /\ At(r, "idle") /\ req' = [req EXCEPT ![r] = q]
        /\ UNCHANGED bookVars /\ UNCHANGED <<idem, unclaimed>>
    BY <1>7 DEF TestTrigger, errorVars
  <2>2. UNCHANGED <<charge, today, idem, unclaimed>> /\ \A x \in Requests : Exists(x)' = Exists(x)
    BY <2>1 DEF bookVars, moneyVars, Exists
  <2>3. ~Exists(r) /\ today \in Int
    BY <2>1, ReplayTypes DEF KeyFits, At
  <2>4. KeyFits(q, Exists(r)', Unclaimed(r)', idem[IdemKey(r, q.ref)], today)
    BY <2>2, <2>3 DEF KeyFits
  <2>. HIDE DEF q
  <2>. QED  BY <1>0, <2>1, <2>2, <2>4, ReplayMoves
<1>8. ASSUME NEW r \in Requests, Fail(r) PROVE ReplayInv'
  <2>1. ASSUME NEW stage \in {"done", "declined", "crashed"}, Goto(r, stage),
               UNCHANGED bookVars, UNCHANGED <<idem, unclaimed>>,
               At(r, "posted") => stage = "crashed", ~At(r, "crashed")
        PROVE  ReplayInv'
    <3>1. UNCHANGED <<idem, unclaimed, today>> /\ \A x \in Requests : Exists(x)' = Exists(x)
      BY <2>1 DEF bookVars, moneyVars, Exists
    <3>2. stage \in Stages \ {"idle", "looked"} /\ stage # "capped"
      BY DEF Stages
    <3>. QED  BY <1>0, <2>1, <3>1, <3>2, ReplayGoto
  <2>2. CASE ClaimFails(r)
    BY <1>0, <2>2, ReplayFails
  <2>3. CASE GatewayAnswerLost(r) \/ RechargeRaises(r) \/ Crash(r)
    BY <2>1, <2>3 DEF GatewayAnswerLost, RechargeRaises, Crash, At
  <2>. QED  BY <1>8, <2>2, <2>3 DEF Fail
<1>9. ASSUME NEW t \in Topups, (\E a \in Amounts : CreateTopup(t, a)) \/ ConfirmTopup(t)
      PROVE  ReplayInv'
  BY <1>1, <1>9 DEF CreateTopup, ConfirmTopup, Credit, bookVars, moneyVars, errorVars
<1>10. CASE (\E b \in Budgets : SetBudget(b)) \/ (\E on \in Settings : SetEnabled(on))
  BY <1>1, <1>10 DEF SetBudget, SetDailyBudget, moneyVars, SetEnabled, bookVars, errorVars
<1>11. ASSUME NEW c \in Charges, Exists(c), NEW row, row.status # "none",
              charge' = [charge EXCEPT ![c] = row], UNCHANGED <<req, idem, unclaimed, today>>
       PROVE  ReplayInv'
  <2>1. \A x \in Requests : Exists(x)' = Exists(x)
    BY <1>0, <1>11, RowsStay
  <2>. QED  BY <1>0, <1>11, <2>1, ReplayFrame
<1>12. ASSUME NEW c \in Charges, FreezeSome(c) PROVE ReplayInv'
  <2>1. PICK st \in {"completed", "disputed"} : charge' = [charge EXCEPT ![c] = WithStatus(@, st)]
    BY <1>12 DEF FreezeSome, Freeze, Unfreeze
  <2>2. Exists(c) /\ WithStatus(charge[c], st).status # "none" /\ UNCHANGED <<req, idem, unclaimed, today>>
    BY <1>12 DEF FreezeSome, Freeze, Unfreeze, Exists, WithStatus, errorVars
  <2>. QED  BY <1>11, <2>1, <2>2
<1>13. ASSUME NEW c \in Charges, NEW d \in HandlerDays, RefundSome(c, d) PROVE ReplayInv'
  <2>1. Exists(c) /\ UNCHANGED <<req, idem, unclaimed, today>>
    BY <1>13 DEF RefundSome, Refund, DisputeRefund, ReverseCharge, PayBack, Exists, Refundable, errorVars
  <2>2. CASE Refund(c, d)
    BY <1>11, <2>1, <2>2 DEF Refund, AfterWhole
  <2>3. ASSUME NEW a, charge' = [charge EXCEPT ![c] = AfterPartial(@, a)] PROVE ReplayInv'
    <3>1. AfterPartial(charge[c], a).status # "none"
      BY DEF AfterPartial
    <3>. QED  BY <1>11, <2>1, <2>3, <3>1
  <2>. QED  BY <1>13, <2>2, <2>3 DEF RefundSome, DisputeRefund, ReverseCharge
<1>. QED
  <2>1. ASSUME NEW r \in Requests,
               \/ \E ref \in Refs \cup {NoRef}, a \in Amounts : Arrive(r, ref, a)
               \/ TestTrigger(r) \/ Continue(r) \/ Fail(r)
        PROVE  ReplayInv'
    BY <1>0, <1>6, <1>7, <1>8, <2>1, ReplayContinue
  <2>2. ASSUME NEW c \in Charges, FreezeSome(c) \/ \E d \in HandlerDays : RefundSome(c, d)
        PROVE  ReplayInv'
    BY <1>12, <1>13, <2>2
  <2>. QED  BY <1>2, <1>3, <1>4, <1>5, <1>9, <1>10, <1>14, <2>1, <2>2 DEF Next

\* A lookup that found no key was not made for an attempt that has returned.
LEMMA LookupStep ==
  ASSUME ReplayInv, [Next]_vars, NEW r \in Requests, NEW q \in Requests,
         At(r, "idle"), At(r, "looked")', req[r].ref' \in Refs,
         Exists(q), IdemKey(q, req[q].ref) = IdemKey(r, req[r].ref')
  PROVE  \/ req[q].at \in {"posted", "crashed"}
         \/ q \in unclaimed
         \/ req[q].day < today
<1>1. PICK ref \in Refs \cup {NoRef}, a \in Amounts : Arrive(r, ref, a)
  <2>1. ASSUME NEW x \in Requests, NEW stage \in Stages \ {"looked"}, Goto(x, stage) PROVE FALSE
    BY <2>1 DEF Goto, At, ReplayInv, LocalInv, ReqState
  <2>2. ASSUME UNCHANGED req PROVE FALSE
    BY <2>2 DEF At
  <2>3. ASSUME NEW x \in Requests, Post(x) PROVE FALSE
    BY <2>3 DEF Post, Posted, At, ReplayInv, LocalInv
  <2>4. ASSUME NEW x \in Requests, TestTrigger(x) PROVE FALSE
    BY <2>4 DEF TestTrigger, At, ReplayInv, LocalInv
  <2>5. ASSUME NEW x \in Requests, Continue(x) PROVE FALSE
    <3>1. \E stage \in Stages \ {"looked"} : Post(x) \/ Goto(x, stage)
      BY <2>5 DEF Continue, PostMarketplace, Refuse, HitCap, SetBudgetBlocked, ClaimIdem, AskRecharge,
                  ConsiderRecharge, ClaimBucket, GatewayTakes, GatewayDeclines, CreditRecharge,
                  PauseRecharge, Stages
    <3>. QED  BY <2>1, <2>3, <3>1
  <2>6. ASSUME NEW x \in Requests, Fail(x) PROVE FALSE
    <3>1. \E stage \in Stages \ {"looked"} : Goto(x, stage)
      BY <2>6 DEF Fail, ClaimFails, GatewayAnswerLost, RechargeRaises, Crash, Stages
    <3>. QED  BY <2>1, <3>1
  <2>7. ASSUME NEW x \in Requests, NEW ref \in Refs \cup {NoRef}, NEW a \in Amounts, Arrive(x, ref, a)
        PROVE  x = r
    BY <2>7 DEF Arrive, At, ReplayInv, LocalInv
  <2>8. CASE \/ UNCHANGED vars \/ NewDay \/ FlagsExpire \/ \E k \in IdemKeys : ForgetRef(k)
           \/ \E d \in Days : CounterExpires(d)
    BY <2>2, <2>8 DEF vars, NewDay, FlagsExpire, ForgetRef, CounterExpires
  <2>9. CASE \/ \E t \in Topups : (\E a \in Amounts : CreateTopup(t, a)) \/ ConfirmTopup(t)
             \/ \E c \in Charges : FreezeSome(c) \/ \E d \in HandlerDays : RefundSome(c, d)
             \/ \E b \in Budgets : SetBudget(b)
             \/ \E on \in Settings : SetEnabled(on)
    BY <2>2, <2>9 DEF CreateTopup, ConfirmTopup, FreezeSome, RefundSome, SetBudget, SetEnabled
  <2>. QED  BY <2>4, <2>5, <2>6, <2>7, <2>8, <2>9 DEF Next
<1>2. /\ req'[r].ref = ref /\ req[r].ref' = req'[r].ref
      /\ ~(ref \in Refs /\ idem[IdemKey(r, ref)].id # None)
  BY <1>1 DEF Arrive, At, ReplayInv, LocalInv
<1>3. req[q].ref = ref /\ ref \in Refs /\ KeyOf(q) = idem[IdemKey(r, ref)]
  BY <1>2 DEF IdemKey, KeyOf
<1>4. KeyFits(req[q], Exists(q), Unclaimed(q), KeyOf(q), today)
  BY ReplayTypes
<1>. QED  BY <1>2, <1>3, <1>4 DEF KeyFits, Unclaimed

(***************************************************************************)
(* A retry passes the idempotency lookup only while its first attempt sits *)
(* between commit and claim, died there, lived through a failed claim, or  *)
(* is a day old: for any number of requests and references, whatever       *)
(* midnight and expiry do in between.                                      *)
(***************************************************************************)
THEOREM WalletReplays == Spec => ReplayShortCircuits
<1>1. ReplayInv /\ WalletInv /\ [Next]_vars => (ReplayInv /\ WalletInv)'
  BY ReplayStep, WalletInvStep
<1>2. ReplayInv /\ [Next]_vars
        => [\A r, q \in Requests :
              (/\ At(r, "idle") /\ At(r, "looked")'
               /\ req[r].ref' \in Refs
               /\ Exists(q) /\ IdemKey(q, req[q].ref) = IdemKey(r, req[r].ref'))
              => \/ req[q].at \in {"posted", "crashed"}
                 \/ q \in unclaimed
                 \/ req[q].day < today]_vars
  BY LookupStep
<1>. QED  BY <1>1, <1>2, ReplayInit, WalletInvariant, PTL DEF Spec, ReplayShortCircuits
=============================================================================
