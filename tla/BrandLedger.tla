---------------------------- MODULE BrandLedger ----------------------------
(***************************************************************************)
(* Transfers between brand wallets and the double-entry ledger that records*)
(* them (_inter_brand_transfer_impl in app/routers/payouts.py), which      *)
(* payouts, settlement, commission reversal and partners' retries share.   *)
(*                                                                         *)
(* A call looks its idempotency key up, resolves the currencies, and later *)
(* looks again under WATCH and commits balances, entry and key in one      *)
(* MULTI. A call whose client saw an error may or may not have committed.  *)
(***************************************************************************)
EXTENDS Integers, Sequences

CONSTANTS Brands, Keys, Amounts,
          Currency,   \* the currency of each brand's wallet ...
          Units,      \* ... and its minor units (100 cents; 1 rupiah)
          KeyTtl,     \* life of an idempotency key (24 h), in ticks
          LastTick,   \* bound on the clock
          Callers,    \* who may have a transfer under way
          Idle        \* no transfer under way

ASSUME LedgerAssumption ==
    /\ Amounts \subseteq Nat \ {0}
    /\ Units \in [Brands -> Nat \ {0}]
    /\ KeyTtl \in Nat \ {0}
    /\ LastTick \in Nat

VARIABLES wallet,   \* wallet:{brand}:balance
          known,    \* brands whose balance key exists
          ledger,   \* ledger:entry:*, oldest first
          idem,     \* ledger:reference_idem:{key}: an index in ledger, 0 if never set
          call,     \* the transfers under way
          now       \* the clock

ledgerVars == <<wallet, known, ledger, idem, call, now>>

Request == [from : Brands, to : Brands, amount : Amounts, key : Keys, fx : BOOLEAN]
Entry   == [from : Brands, to : Brands, debit : Amounts, credit : Nat, key : Keys, at : Nat]

LedgerTypeOK == /\ wallet \in [Brands -> Int]
                /\ known \subseteq Brands
                /\ ledger \in Seq(Entry)
                /\ idem \in [Keys -> Nat]
                /\ call \in [Callers -> Request \cup {Idle}]
                /\ now \in Nat

LedgerInit == /\ wallet = [b \in Brands |-> 0]
              /\ known = {}
              /\ ledger = <<>>
              /\ idem = [k \in Keys |-> 0]
              /\ call = [h \in Callers |-> Idle]
              /\ now = 1

\* A key answers until it expires.
Live(k) == idem[k] # 0 /\ now < ledger[idem[k]].at + KeyTtl

\* The rate is a stub: only the number of decimals is adjusted.
Convert(a, from, to) == IF Units[from] > Units[to] THEN a \div (Units[from] \div Units[to])
                                                   ELSE a * (Units[to] \div Units[from])

Credited(q) == IF Currency[q.from] = Currency[q.to] THEN q.amount
                                                    ELSE Convert(q.amount, q.from, q.to)

(***************************************************************************)
(* The calls that get beyond the first look-up: those refused or answered  *)
(* from it change nothing.                                                 *)
(***************************************************************************)
Acceptable(q) == /\ q.from # q.to
                 /\ ~Live(q.key)
                 /\ Currency[q.from] # Currency[q.to] => q.fx /\ Credited(q) > 0

Look(h, q) ==
    /\ call[h] = Idle
    /\ Acceptable(q)
    /\ call' = [call EXCEPT ![h] = q]
    /\ UNCHANGED <<wallet, known, ledger, idem, now>>

Affordable(q) == {q.from, q.to} \subseteq known /\ q.amount <= wallet[q.from]

EntryOf(q) == [from |-> q.from, to |-> q.to, debit |-> q.amount, credit |-> Credited(q),
               key |-> q.key, at |-> now]

\* Mutant: no second look at the key under WATCH.
CommitUnseen(h) ==
    /\ call[h] # Idle
    /\ Affordable(call[h])
    /\ wallet' = [wallet EXCEPT ![call[h].from] = @ - call[h].amount,
                                ![call[h].to]   = @ + Credited(call[h])]
    /\ ledger' = Append(ledger, EntryOf(call[h]))
    /\ idem' = [idem EXCEPT ![call[h].key] = Len(ledger) + 1]
    /\ call' = [call EXCEPT ![h] = Idle]
    /\ UNCHANGED <<known, now>>

\* Under WATCH: the key is free, both wallets exist and the money is there.
Commit(h) ==
    /\ call[h] # Idle
    /\ ~Live(call[h].key)
    /\ Affordable(call[h])
    /\ wallet' = [wallet EXCEPT ![call[h].from] = @ - call[h].amount,
                                ![call[h].to]   = @ + Credited(call[h])]
    /\ ledger' = Append(ledger, EntryOf(call[h]))
    /\ idem' = [idem EXCEPT ![call[h].key] = Len(ledger) + 1]
    /\ call' = [call EXCEPT ![h] = Idle]
    /\ UNCHANGED <<known, now>>

Drop(h) == call' = [call EXCEPT ![h] = Idle] /\ UNCHANGED <<wallet, known, ledger, idem, now>>

\* Somebody else's entry is the answer.
Replay(h) == call[h] # Idle /\ Live(call[h].key) /\ Drop(h)

\* 402, 404; or 503 before anything was applied, or the caller is cut off.
Abort(h) == call[h] # Idle /\ Drop(h)

Transfer(h) == \/ \E q \in Request : Look(h, q)
               \/ Commit(h)
               \/ Replay(h)
               \/ Abort(h)

\* The rest of the wallet, as far as a balance is concerned.
TopUp(b, a) == /\ wallet' = [wallet EXCEPT ![b] = @ + a]
               /\ known' = known \cup {b}
               /\ UNCHANGED <<ledger, idem, call, now>>

Tick == /\ now < LastTick
        /\ now' = now + 1
        /\ UNCHANGED <<wallet, known, ledger, idem, call>>

LedgerNext == \/ \E h \in Callers : Transfer(h)
              \/ \E b \in Brands, a \in Amounts : TopUp(b, a)
              \/ Tick

LedgerSpec == LedgerInit /\ [][LedgerNext]_ledgerVars
-----------------------------------------------------------------------------
(***************************************************************************)
(* "a strict duplicate-rejection window": two entries of one key are a     *)
(* key's life apart, whatever retries and races there were.                *)
(***************************************************************************)
OneEntryPerWindow ==
    \A i, j \in DOMAIN ledger :
        i < j /\ ledger[i].key = ledger[j].key => ledger[i].at + KeyTtl <= ledger[j].at

(***************************************************************************)
(* A transfer never drives a wallet below zero, however many calls saw the *)
(* same balance.                                                           *)
(***************************************************************************)
NoOverdraft == \A b \in Brands : wallet[b] >= 0

(***************************************************************************)
(* What makes OneEntryPerWindow inductive: entries are in time order, and  *)
(* each key points to its latest entry.                                    *)
(***************************************************************************)
KeysPointToLatest ==
    /\ \A i \in DOMAIN ledger : ledger[i].at <= now
    /\ \A k \in Keys : idem[k] \in 0 .. Len(ledger)
    /\ \A i \in DOMAIN ledger : /\ i <= idem[ledger[i].key]
                                /\ ledger[i].at <= ledger[idem[ledger[i].key]].at
=============================================================================
