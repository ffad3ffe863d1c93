----------------------------- MODULE ChargeBook -----------------------------
(***************************************************************************)
(* The money rows of one brand's wallet (app/routers/wallet.py) and every  *)
(* operation that moves them: the wallet's own endpoints and the in-process*)
(* helpers by which disputes and reversals reach the same Redis keys.      *)
(* Each operation reads and writes its rows inside one WATCH/MULTI/EXEC    *)
(* block (a lost race re-runs the block), so here each is one step.        *)
(*                                                                         *)
(* d is the UTC day a handler computed on entry: it may be yesterday when  *)
(* the block commits after midnight.                                       *)
(***************************************************************************)
EXTENDS Integers

CONSTANTS Charges,             \* charge ids (uuid4 in the code)
          MarketplaceCharges,  \* those minted by marketplace_charge
          Amounts,             \* sums one operation may move, in cents
          Budgets,             \* daily caps a merchant chooses from; 0 is no cap
          LastDay              \* bound: the day on which a behaviour stops

ASSUME ChargeBookAssumption == /\ MarketplaceCharges \subseteq Charges
                               /\ Amounts \subseteq Nat \ {0}
                               /\ Budgets \subseteq Nat
                               /\ LastDay \in Nat

Days == 0..LastDay

VARIABLES balance,      \* wallet:{b}:balance
          dailySpent,   \* wallet:{b}:daily_spent:{day}, 0 when there is no such key
          expiring,     \* the days whose counter has a TTL
          lapsed,       \* history: what the expired counters said, added up
          totalSpent,   \* wallet:{b}:total_spent
          dailyBudget,  \* wallet:{b}:daily_budget, 0 is "no cap"
          charge,       \* wallet:charge:{id}, with the sum of its refund rows
          funded,       \* sum of the rows that credit the wallet from outside
          today         \* the UTC date

dailyVars == <<dailySpent, expiring, lapsed>>
moneyVars == <<balance, dailyVars, totalSpent, charge, funded>>
bookVars  == <<moneyVars, dailyBudget, today>>

Statuses == {"none", "completed", "disputed", "partially_refunded", "refunded"}

\* refunded is the row's refunded_amount field; repaid adds up the amounts of
\* the wallet:refund:{id} rows that name the charge.
ChargeRow == [status : Statuses, amount : Nat, refunded : Nat, repaid : Nat]
NoRow     == [status |-> "none", amount |-> 0, refunded |-> 0, repaid |-> 0]

\* The row a charge writes, one with its status overwritten, and the one a
\* refund of all of it leaves.
Completed(a)    == [status |-> "completed", amount |-> a, refunded |-> 0, repaid |-> 0]
WithStatus(row, st) == [status |-> st, amount |-> row.amount,
                        refunded |-> row.refunded, repaid |-> row.repaid]
AfterWhole(row) == [status |-> "refunded", amount |-> row.amount,
                    refunded |-> row.refunded, repaid |-> row.repaid + row.amount]

BookTypeOK == /\ balance \in Int
              /\ dailySpent \in [Days -> Int]
              /\ expiring \subseteq Days
              /\ lapsed \in Int
              /\ totalSpent \in Int
              /\ dailyBudget \in Nat
              /\ charge \in [Charges -> ChargeRow]
              /\ funded \in Nat
              /\ today \in Days

BookInit == /\ balance = 0
            /\ dailySpent = [d \in Days |-> 0]
            /\ expiring = {}
            /\ lapsed = 0
            /\ totalSpent = 0
            /\ dailyBudget = 0
            /\ charge = [c \in Charges |-> NoRow]
            /\ funded = 0
            /\ today = 0

Exists(c) == charge[c].status # "none"

(***************************************************************************)
(* Money in: confirm_topup's MULTI, and the INCRBY of an auto-recharge.    *)
(***************************************************************************)
Credit(a) == /\ balance' = balance + a
             /\ funded' = funded + a
             /\ UNCHANGED <<dailyVars, totalSpent, dailyBudget, charge, today>>

\* Mutant: one cent of credit.
AffordableUnchecked(a) == a <= balance + 1

(***************************************************************************)
(* charge: refuse what the balance or the day's cap cannot cover, else     *)
(* debit, count the spend (the day's counter now expires 25 hours from     *)
(* here) and write the charge row.                                         *)
(***************************************************************************)
Affordable(a)   == a <= balance
WithinCap(a, d) == dailyBudget = 0 \/ dailySpent[d] + a <= dailyBudget

PostCharge(c, a, d) ==
    /\ ~Exists(c)
    /\ Affordable(a)
    /\ WithinCap(a, d)
    /\ balance' = balance - a
    /\ dailySpent' = [dailySpent EXCEPT ![d] = @ + a]
    /\ expiring' = expiring \cup {d}
    /\ totalSpent' = totalSpent + a
    /\ charge' = [charge EXCEPT ![c] = Completed(a)]
    /\ UNCHANGED <<lapsed, dailyBudget, funded, today>>

(***************************************************************************)
(* marketplace_charge: the take fee is credited to the brand, and a charge *)
(* row of the same shape and status is written for it.                     *)
(***************************************************************************)
PostMarketplaceCharge(c, a) ==
    /\ ~Exists(c)
    /\ balance' = balance + a
    /\ funded' = funded + a
    /\ charge' = [charge EXCEPT ![c] = Completed(a)]
    /\ UNCHANGED <<dailyVars, totalSpent, dailyBudget, today>>

\* Mutant: total_spent is left alone.
PayBackForgetsTotal(a, d) == /\ balance' = balance + a
                             /\ dailySpent' = [dailySpent EXCEPT ![d] = @ - a]
                             /\ UNCHANGED <<expiring, lapsed, totalSpent, dailyBudget, funded, today>>

\* The three MULTI commands every refund path shares. A DECRBY leaves a key's
\* TTL alone, and makes a key that has lapsed anew, with none.
PayBack(a, d) == /\ balance' = balance + a
                 /\ dailySpent' = [dailySpent EXCEPT ![d] = @ - a]
                 /\ totalSpent' = totalSpent - a
                 /\ UNCHANGED <<expiring, lapsed, dailyBudget, funded, today>>

(***************************************************************************)
(* refund: the whole amount of a completed charge. It neither reads nor    *)
(* writes refunded_amount.                                                 *)
(***************************************************************************)
Refund(c, d) ==
    /\ charge[c].status = "completed"
    /\ PayBack(charge[c].amount, d)
    /\ charge' = [charge EXCEPT ![c] = AfterWhole(@)]

\* Mutant: what was refunded already is not subtracted.
RemainingIgnoringRefunds(c) == charge[c].amount

Refundable(c) == charge[c].status \in {"completed", "disputed", "partially_refunded"}
Remaining(c)  == charge[c].amount - charge[c].refunded

\* The row written by the two partial-refund paths.
AfterPartial(row, a) ==
    [status |-> IF row.refunded + a >= row.amount THEN "refunded"
                                                  ELSE "partially_refunded",
     amount |-> row.amount, refunded |-> row.refunded + a, repaid |-> row.repaid + a]

(***************************************************************************)
(* _wallet_refund_internal (disputes): part of a charge, frozen or not,    *)
(* refused when it exceeds what remains.                                   *)
(***************************************************************************)
DisputeRefund(c, a, d) ==
    /\ Refundable(c)
    /\ a <= Remaining(c)
    /\ PayBack(a, d)
    /\ charge' = [charge EXCEPT ![c] = AfterPartial(@, a)]

(***************************************************************************)
(* _internal_refund_for_reversal: the same, clipped to what remains.       *)
(***************************************************************************)
ReversalAmount(c, a) == IF a <= Remaining(c) THEN a ELSE Remaining(c)

ReverseCharge(c, a, d) ==
    /\ Refundable(c)
    /\ ReversalAmount(c, a) > 0
    /\ PayBack(ReversalAmount(c, a), d)
    /\ charge' = [charge EXCEPT ![c] = AfterPartial(@, ReversalAmount(c, a))]

\* _freeze_charge and _unfreeze_charge (disputes).
Freeze(c) ==
    /\ charge[c].status = "completed"
    /\ charge' = [charge EXCEPT ![c] = WithStatus(@, "disputed")]
    /\ UNCHANGED <<balance, dailyVars, totalSpent, dailyBudget, funded, today>>

\* Mutant: whatever the row's status.
UnfreezeAnything(c) ==
    /\ Exists(c)
    /\ charge' = [charge EXCEPT ![c] = WithStatus(@, "completed")]
    /\ UNCHANGED <<balance, dailyVars, totalSpent, dailyBudget, funded, today>>

Unfreeze(c) ==
    /\ charge[c].status = "disputed"
    /\ charge' = [charge EXCEPT ![c] = WithStatus(@, "completed")]
    /\ UNCHANGED <<balance, dailyVars, totalSpent, dailyBudget, funded, today>>

(***************************************************************************)
(* _undo_wallet_refund (saga_definitions): re-debit the balance, mark the  *)
(* refund row reversed and set the charge back to completed with nothing   *)
(* refunded. No step of the book: only a compensation takes it.            *)
(***************************************************************************)
UndoneRow(row, a) == [status |-> "completed", amount |-> row.amount,
                      refunded |-> 0, repaid |-> row.repaid - a]

\* Mutant: the row is reset and the balance left alone.
UndoRowOnly(c, a) ==
    /\ charge' = [charge EXCEPT ![c] = UndoneRow(@, a)]
    /\ UNCHANGED <<balance, dailyVars, totalSpent, dailyBudget, funded, today>>

UndoRefund(c, a) ==
    /\ balance' = balance - a
    /\ charge' = [charge EXCEPT ![c] = UndoneRow(@, a)]
    /\ UNCHANGED <<dailyVars, totalSpent, dailyBudget, funded, today>>

\* POST /daily-budget stores what it is given, even below today's spend.
SetDailyBudget(b) == /\ dailyBudget' = b
                     /\ UNCHANGED <<moneyVars, today>>

Midnight == /\ today < LastDay
            /\ today' = today + 1
            /\ UNCHANGED <<moneyVars, dailyBudget>>

\* The 25 hours are over: they end in the small hours of a later day.
CounterLapses(d) ==
    /\ d \in expiring
    /\ d < today
    /\ dailySpent' = [dailySpent EXCEPT ![d] = 0]
    /\ expiring' = expiring \ {d}
    /\ lapsed' = lapsed + dailySpent[d]
    /\ UNCHANGED <<balance, totalSpent, dailyBudget, charge, funded, today>>

\* A handler that is still running computed its date today or yesterday.
HandlerDays == {d \in Days : d \in {today - 1, today}}

BookNext ==
    \/ Midnight
    \/ \E d \in Days : CounterLapses(d)
    \/ \E b \in Budgets : SetDailyBudget(b)
    \/ \E a \in Amounts : Credit(a)
    \/ \E c \in Charges :
         \/ Freeze(c)
         \/ Unfreeze(c)
         \/ \E a \in Amounts : c \in MarketplaceCharges /\ PostMarketplaceCharge(c, a)
         \/ \E d \in HandlerDays :
              \/ Refund(c, d)
              \/ \E a \in Amounts :
                   \/ c \notin MarketplaceCharges /\ PostCharge(c, a, d)
                   \/ DisputeRefund(c, a, d)
                   \/ ReverseCharge(c, a, d)

BookSpec == BookInit /\ [][BookNext]_bookVars
-----------------------------------------------------------------------------
(***************************************************************************)
(* Safety. However the refund paths of the wallet, of disputes and of      *)
(* reversals follow one another on one charge, its refund rows never add up*)
(* to more than it took (wallet.refund, disputes._wallet_refund_internal,  *)
(* wallet._internal_refund_for_reversal each look at a different field).   *)
(***************************************************************************)
RepaidWithinCharge == \A c \in Charges : charge[c].repaid <= charge[c].amount

(***************************************************************************)
(* A charge row tells the truth: "refunded" is repaid in full, "completed" *)
(* and "disputed" not at all, "partially_refunded" in part, and a refund   *)
(* that looks only at the status (wallet.refund) is safe because of it.    *)
(***************************************************************************)
RowTellsTruth(row) ==
    /\ row.status = "none" => row = NoRow
    /\ row.status # "none" => row.amount > 0
    /\ row.status \in {"completed", "disputed"} => row.refunded = 0 /\ row.repaid = 0
    /\ row.status = "partially_refunded" => /\ 0 < row.refunded
                                            /\ row.refunded < row.amount
                                            /\ row.repaid = row.refunded
    /\ row.status = "refunded" => row.repaid = row.amount

StatusTellsTruth == \A c \in Charges : RowTellsTruth(charge[c])

(***************************************************************************)
(* The balance and the lifetime counter never drift: what came in from     *)
(* outside is either still there or was spent net of refunds, and a brand  *)
(* never goes below zero.                                                  *)
(***************************************************************************)
BalanceAccountsForAll == balance + totalSpent = funded /\ balance >= 0

-----------------------------------------------------------------------------
(***************************************************************************)
(* The book implements the abstract wallet: what a charge holds is what it *)
(* took and has not repaid.                                                *)
(***************************************************************************)
HeldBy == [c \in Charges |-> charge[c].amount - charge[c].repaid]

Funds == INSTANCE FundsAbstract WITH cash <- balance, held <- HeldBy

FundsSpec == Funds!Spec
=============================================================================
