--------------------------- MODULE VouchersProofs ---------------------------
(***************************************************************************)
(* For any vouchers, users, amounts and periods, and any number of requests*)
(* and sweeps at once: the redemptions of a voucher and what it has left   *)
(* are its face value. Redemption writes back what it read; the proof is   *)
(* that an unwatched write by anybody else makes the reader stale, and     *)
(* touches neither value nor uses. Then what holds of a voucher no write   *)
(* raced for: one holder, one extension, one end.                          *)
(***************************************************************************)
EXTENDS Vouchers, TLAPS

\* What a request has read is still so, or it knows that it is stale.
RequestOK(r) ==
    /\ r.pc = "end" => r.to \in {"void", "cancelled"}
    /\ r.pc = "transfer" => /\ r.v \in Vouchers /\ r.who \in Users /\ r.to \in Users
                            /\ row[r.v].status # "none"
    /\ r.pc \in {"auto_flag", "auto_grace"} =>
          r.seen.face \in DOMAIN AutoGrace /\ r.v \in Vouchers /\ row[r.v].status # "none"
    /\ r.pc = "redeem" => /\ r.v \in Vouchers
                          /\ row[r.v].status # "none"
                          /\ r.seen.status # "none" /\ r.seen.uses < r.seen.max
                          /\ ~r.stale => r.seen = row[r.v]

Unissued == \A v \in Vouchers : row[v].status = "none" => row[v] = NoRow

PayInv == /\ TypeOK
          /\ \A d \in Tills : RequestOK(request[d])
          /\ Unissued
          /\ PaidOutOnce

USE DEF Final, Statuses
-----------------------------------------------------------------------------
LEMMA GraceNat == ASSUME NEW f \in DOMAIN AutoGrace PROVE AutoGrace[f] \in Nat
  BY VouchersAssumption

\* A request that starts, goes on or gives up without writing anything.
LEMMA BecomeKeeps ==
  ASSUME PayInv, NEW d \in Tills, NEW r \in Request, RequestOK(r), Become(d, r)
  PROVE  PayInv'
<1>1. TypeOK'
  BY DEF PayInv, TypeOK, Become
<1>2. ASSUME NEW e \in Tills PROVE RequestOK(request[e])'
  <2>1. request'[e] = IF e = d THEN r ELSE request[e]
    BY DEF PayInv, TypeOK, Become
  <2>2. row' = row
    BY DEF Become
  <2>. QED  BY <2>1, <2>2 DEF PayInv, RequestOK
<1>3. Unissued' /\ PaidOutOnce'
  BY DEF PayInv, Become, Unissued, PaidOutOnce
<1>. QED  BY <1>1, <1>2, <1>3 DEF PayInv

\* Every other request that has read v is stale afterwards, the writer idle.
LEMMA WroteRequests ==
  ASSUME PayInv, NEW d \in Tills, NEW v \in Vouchers, Wrote(d, v)
  PROVE  /\ request' \in [Tills -> Request]
         /\ raced' \subseteq Vouchers
         /\ \A e \in Tills : \/ request'[e] = Idle
                             \/ request'[e] = request[e] /\ request[e].v # v
                             \/ request'[e] = [request[e] EXCEPT !.stale = TRUE]
                                /\ request[e].v = v
<1>1. Idle \in Request
  BY DEF Idle, Request, NoRow, Row
<1>2. \A e \in Tills : [request[e] EXCEPT !.stale = TRUE] \in Request
  BY DEF PayInv, TypeOK, Request
<1>. QED  BY <1>1, <1>2 DEF PayInv, TypeOK, Wrote

\* One write of the hash of v, whatever becomes of the other keys.
LEMMA WriteKeeps ==
  ASSUME PayInv, NEW d \in Tills, NEW v \in Vouchers, NEW r \in Row,
         row' = [row EXCEPT ![v] = r], r = row[v] \/ r.status # "none",
         Wrote(d, v),
         paid' \in [Vouchers -> [times : Nat, value : Nat]],
         \A w \in Vouchers : w # v => paid'[w] = paid[w],
         paid'[v].value + r.left = r.face,
         paid'[v].times = r.uses, r.uses <= r.max,
         now' \in Nat, hold' \in [Vouchers -> Hold], mine' \in [Users -> SUBSET Vouchers],
         grace' \in [Vouchers -> Nat], winback' \in [Vouchers -> Nat]
  PROVE  PayInv'
<1>1. /\ row' \in [Vouchers -> Row]
      /\ row'[v] = r
      /\ \A w \in Vouchers : w # v => row'[w] = row[w]
  BY DEF PayInv, TypeOK
<1>2. TypeOK'
  BY <1>1, WroteRequests DEF TypeOK
<1>3. ASSUME NEW e \in Tills PROVE RequestOK(request[e])'
  <2>1. CASE request'[e] = Idle
    BY <2>1 DEF RequestOK, Idle
  <2>2. CASE request'[e] = request[e] /\ request[e].v # v
    BY <2>2, <1>1 DEF PayInv, RequestOK
  <2>3. CASE request'[e] = [request[e] EXCEPT !.stale = TRUE] /\ request[e].v = v
    <3>1. request[e] \in Request
      BY DEF PayInv, TypeOK
    <3>2. /\ request'[e].stale /\ request'[e].pc = request[e].pc /\ request'[e].v = v
          /\ request'[e].who = request[e].who /\ request'[e].to = request[e].to
          /\ request'[e].seen = request[e].seen
      BY <2>3, <3>1 DEF Request
    <3>. QED  BY <3>2, <2>3, <1>1 DEF PayInv, RequestOK
  <2>. QED  BY <2>1, <2>2, <2>3, WroteRequests
<1>4. Unissued'
  BY <1>1 DEF PayInv, Unissued
<1>5. PaidOutOnce'
  BY <1>1 DEF PayInv, PaidOutOnce
<1>. QED  BY <1>2, <1>3, <1>4, <1>5 DEF PayInv
-----------------------------------------------------------------------------
LEMMA TypedInit == Init => PayInv
<1>. SUFFICES ASSUME Init PROVE PayInv
  OBVIOUS
<1>1. NoRow \in Row /\ NoHold \in Hold /\ Idle \in Request
  BY DEF NoRow, Row, NoHold, Hold, Idle, Request
<1>2. TypeOK
  BY <1>1 DEF Init, TypeOK
<1>. QED  BY <1>2 DEF PayInv, Init, RequestOK, Idle, Unissued, PaidOutOnce, NoRow
-----------------------------------------------------------------------------
\* A request that changes only its step, to one that has no premise of its own.
LEMMA GotoKeeps ==
  ASSUME PayInv, NEW d \in Tills, NEW pc \in Blind, Goto(d, pc),
         pc # "end",
         pc = "auto_grace" => request[d].pc = "auto_flag",
         pc # "auto_flag"
  PROVE  PayInv'
<1>. DEFINE r == [request[d] EXCEPT !.pc = pc]
<1>1. request[d] \in Request
  BY DEF PayInv, TypeOK
<1>2. /\ r \in Request /\ r.pc = pc /\ r.seen = request[d].seen
  BY <1>1 DEF Request
<1>3. RequestOK(r)
  BY <1>2 DEF PayInv, RequestOK, Blind
<1>4. Become(d, r)
  BY DEF Goto
<1>. HIDE DEF r
<1>. QED  BY <1>2, <1>3, <1>4, BecomeKeeps

LEMMA IdleOK == Idle \in Request /\ RequestOK(Idle)
  BY DEF Idle, Request, RequestOK, NoRow, Row

LEMMA AskKeeps ==
  ASSUME PayInv, NEW d \in Tills, NEW v \in Vouchers, Ask(d, v)
  PROVE  PayInv'
<1>. USE DEF Begin
<1>0. row[v] \in Row /\ NoRow \in Row
  BY DEF PayInv, TypeOK, NoRow, Row
<1>1. ASSUME NEW order \in Orders, AskRedeem(d, v, order) PROVE PayInv'
  <2>. DEFINE r == [Idle EXCEPT !.pc = "redeem", !.v = v, !.amount = order, !.seen = row[v]]
  <2>1. Become(d, r)
    BY <1>1 DEF AskRedeem
  <2>2. r \in Request /\ r.pc = "redeem" /\ r.v = v /\ r.seen = row[v]
    BY <1>0, VouchersAssumption DEF Idle, Request, Watched
  <2>. HIDE DEF r
  <2>3. RequestOK(r)
    BY <1>1, <2>2 DEF RequestOK, AskRedeem, Redeemable, Open
  <2>. QED  BY <2>1, <2>2, <2>3, BecomeKeeps
<1>2. ASSUME NEW from \in Users, NEW to \in Users, AskTransfer(d, v, from, to) PROVE PayInv'
  <2>. DEFINE r == [Idle EXCEPT !.pc = "transfer", !.v = v, !.who = from, !.to = to]
  <2>1. Become(d, r)
    BY <1>2 DEF AskTransfer
  <2>2. r \in Request /\ r.pc = "transfer" /\ r.v = v /\ r.who = from /\ r.to = to
    BY <1>0 DEF Idle, Request, Watched
  <2>. HIDE DEF r
  <2>3. RequestOK(r)
    BY <1>2, <2>2 DEF RequestOK, AskTransfer, Transferable, Open
  <2>. QED  BY <2>1, <2>2, <2>3, BecomeKeeps
<1>3. ASSUME NEW who \in Users, AskReserve(d, v, who) PROVE PayInv'
  <2>. DEFINE r == [Idle EXCEPT !.pc = ReserveStep(v, who), !.v = v, !.who = who]
  <2>1. Become(d, r)
    BY <1>3 DEF AskReserve
  <2>2. r \in Request /\ r.pc = ReserveStep(v, who)
    BY <1>0 DEF Idle, Request, Watched, ReserveStep
  <2>. HIDE DEF r
  <2>3. RequestOK(r)
    BY <1>3, <2>2 DEF RequestOK, ReserveStep
  <2>. QED  BY <2>1, <2>2, <2>3, BecomeKeeps
<1>4. ASSUME NEW who \in Users, NEW pc \in {"claim_read", "release_read"}, AskHeld(d, v, who, pc)
      PROVE  PayInv'
  <2>. DEFINE r == [Idle EXCEPT !.pc = pc, !.v = v, !.who = who]
  <2>1. Become(d, r)
    BY <1>4 DEF AskHeld
  <2>2. r \in Request /\ r.pc = pc
    BY <1>0 DEF Idle, Request, Blind
  <2>. HIDE DEF r
  <2>3. RequestOK(r)
    BY <1>4, <2>2 DEF RequestOK
  <2>. QED  BY <2>1, <2>2, <2>3, BecomeKeeps
<1>5. ASSUME NEW to \in {"void", "cancelled"}, AskEnd(d, v, to) PROVE PayInv'
  <2>. DEFINE r == [Idle EXCEPT !.pc = "end", !.v = v, !.to = to]
  <2>1. Become(d, r)
    BY <1>5 DEF AskEnd
  <2>2. r \in Request /\ r.pc = "end" /\ r.to = to
    BY <1>0 DEF Idle, Request, Blind
  <2>. HIDE DEF r
  <2>3. RequestOK(r)
    BY <1>5, <2>2 DEF RequestOK
  <2>. QED  BY <2>1, <2>2, <2>3, BecomeKeeps
<1>6. CASE AskGrace(d, v)
  <2>. DEFINE r == [Idle EXCEPT !.pc = "grace_flag", !.v = v, !.seen = row[v]]
  <2>1. Become(d, r)
    BY <1>6 DEF AskGrace
  <2>2. r \in Request /\ r.pc = "grace_flag"
    BY <1>0 DEF Idle, Request, Blind
  <2>. HIDE DEF r
  <2>3. RequestOK(r)
    BY <1>6, <2>2 DEF RequestOK
  <2>. QED  BY <2>1, <2>2, <2>3, BecomeKeeps
<1>. QED  BY <1>1, <1>2, <1>3, <1>4, <1>5, <1>6 DEF Ask

LEMMA SweepKeeps ==
  ASSUME PayInv, NEW d \in Tills, NEW v \in Vouchers, NEW since \in Nat,
         SweepHold(d, v, since) \/ SweepExpired(d, v, since) \/ SweepLifecycle(d, v, since)
  PROVE  PayInv'
<1>. USE DEF Begin
<1>0. row[v] \in Row /\ NoRow \in Row
  BY DEF PayInv, TypeOK, NoRow, Row
<1>1. CASE SweepHold(d, v, since)
  <2>. DEFINE r == [Idle EXCEPT !.pc = "lapse_look", !.v = v, !.since = since]
  <2>1. Become(d, r)
    BY <1>1 DEF SweepHold
  <2>2. r \in Request /\ r.pc = "lapse_look"
    BY <1>0 DEF Idle, Request, Blind
  <2>. HIDE DEF r
  <2>3. RequestOK(r)
    BY <1>1, <2>2 DEF RequestOK
  <2>. QED  BY <2>1, <2>2, <2>3, BecomeKeeps
<1>2. CASE SweepExpired(d, v, since)
  <2>. DEFINE r == [Idle EXCEPT !.pc = "expire", !.v = v]
  <2>1. Become(d, r)
    BY <1>2 DEF SweepExpired
  <2>2. r \in Request /\ r.pc = "expire"
    BY <1>0 DEF Idle, Request, Blind
  <2>. HIDE DEF r
  <2>3. RequestOK(r)
    BY <1>2, <2>2 DEF RequestOK
  <2>. QED  BY <2>1, <2>2, <2>3, BecomeKeeps
<1>3. CASE SweepLifecycle(d, v, since)
  <2>. DEFINE pc == IF AutoGrace[row[v].face] > 0 /\ since - row[v].until <= AutoGrace[row[v].face]
                    THEN "auto_flag" ELSE "winback_flag"
              r  == [Idle EXCEPT !.v = v, !.seen = row[v], !.pc = pc]
  <2>1. Become(d, r)
    BY <1>3 DEF SweepLifecycle
  <2>2. pc \in {"auto_flag", "winback_flag"}
    OBVIOUS
  <2>. HIDE DEF pc
  <2>3. r \in Request /\ r.pc = pc /\ r.seen = row[v] /\ r.v = v
    BY <1>0, <2>2 DEF Idle, Request, Blind
  <2>. HIDE DEF r
  <2>4. RequestOK(r)
    BY <1>3, <2>2, <2>3 DEF RequestOK, SweepLifecycle, Open
  <2>. QED  BY <2>1, <2>3, <2>4, BecomeKeeps
<1>. QED  BY <1>1, <1>2, <1>3

\* A write that leaves value and uses alone.
LEMMA MarkKeeps ==
  ASSUME PayInv, NEW d \in Tills, NEW v \in Vouchers, NEW r \in Row,
         row' = [row EXCEPT ![v] = r], r = row[v] \/ r.status # "none",
         r.left = row[v].left, r.face = row[v].face, r.uses = row[v].uses, r.max = row[v].max,
         Wrote(d, v), UNCHANGED <<now, paid>>,
         hold' \in [Vouchers -> Hold], mine' \in [Users -> SUBSET Vouchers],
         grace' \in [Vouchers -> Nat], winback' \in [Vouchers -> Nat]
  PROVE  PayInv'
<1>1. /\ paid' = paid /\ now' = now
      /\ paid \in [Vouchers -> [times : Nat, value : Nat]] /\ now \in Nat
      /\ row[v] \in Row
      /\ paid[v].value + row[v].left = row[v].face
      /\ paid[v].times = row[v].uses /\ row[v].uses <= row[v].max
  BY DEF PayInv, TypeOK, PaidOutOnce
<1>. QED  BY <1>1, WriteKeeps

\* Only keys that no redemption looks at change; at most one request gives up.
LEMMA SideKeeps ==
  ASSUME PayInv, NEW d \in Tills,
         request' = request \/ request' = [request EXCEPT ![d] = Idle],
         UNCHANGED <<row, paid, raced, mine, grace, winback>>,
         now' \in Nat, hold' \in [Vouchers -> Hold]
  PROVE  PayInv'
<1>1. /\ request' \in [Tills -> Request]
      /\ \A e \in Tills : request'[e] \in {request[e], Idle}
  BY IdleOK DEF PayInv, TypeOK
<1>2. TypeOK'
  BY <1>1 DEF PayInv, TypeOK
<1>3. ASSUME NEW e \in Tills PROVE RequestOK(request[e])'
  <2>1. CASE request'[e] = Idle
    BY <2>1 DEF RequestOK, Idle
  <2>2. CASE request'[e] = request[e]
    BY <2>2 DEF PayInv, RequestOK
  <2>. QED  BY <1>1, <2>1, <2>2
<1>4. Unissued' /\ PaidOutOnce'
  BY DEF PayInv, Unissued, PaidOutOnce
<1>. QED  BY <1>2, <1>3, <1>4 DEF PayInv
-----------------------------------------------------------------------------
\* A WATCH loop that starts over looks again at all that the first try looked at.
LEMMA RetryKeeps ==
  ASSUME PayInv, NEW d \in Tills, NEW v \in Vouchers, Retry(d, v)
  PROVE  PayInv'
<1>. DEFINE again == Again(d, v)
            sees  == IF request[d].seen.status = "none" THEN request[d].seen ELSE row[v]
            count == request[d].tries + 1
            r == [request[d] EXCEPT !.pc = again, !.tries = count, !.stale = FALSE, !.seen = sees]
<1>0. Become(d, IF again = "idle" \/ request[d].tries = Attempts THEN Idle ELSE r)
  BY DEF Retry
<1>1. Become(d, Idle) \/ (again # "idle" /\ Become(d, r))
  <2>. DEFINE next == IF again = "idle" \/ request[d].tries = Attempts THEN Idle ELSE r
  <2>1. Become(d, next)
    BY <1>0
  <2>. HIDE DEF r, again
  <2>2. next = Idle \/ (again # "idle" /\ next = r)
    OBVIOUS
  <2>. HIDE DEF next
  <2>. QED  BY <2>1, <2>2
<1>2. CASE Become(d, Idle)
  BY <1>2, IdleOK, BecomeKeeps
<1>3. CASE again # "idle" /\ Become(d, r)
  <2>1. request[d] \in Request /\ row[v] \in Row /\ request[d].v = v
        /\ request[d].pc \in Watched
    BY DEF PayInv, TypeOK, Retry
  <2>2. /\ again \in Watched
        /\ again = "redeem" => request[d].pc = "redeem" /\ Redeemable(v)
        /\ again = "transfer" => request[d].pc = "transfer" /\ Transferable(v, request[d].who)
    BY <1>3, <2>1 DEF Again, ReserveStep, Watched
  <2>. HIDE DEF again
  <2>0. sees \in Row /\ (request[d].seen.status # "none" => sees = row[v])
       /\ count \in Nat
    BY <2>1 DEF Request
  <2>. HIDE DEF sees, count
  <2>3. /\ r \in Request /\ r.pc = again /\ r.v = v /\ r.stale = FALSE
        /\ r.who = request[d].who /\ r.to = request[d].to
        /\ r.seen = sees
    BY <2>0, <2>1, <2>2 DEF Request
  <2>. HIDE DEF r
  <2>4. RequestOK(request[d])
    BY DEF PayInv
  <2>5. RequestOK(r)
    BY <2>0, <2>1, <2>2, <2>3, <2>4 DEF RequestOK, Watched, Redeemable, Transferable, Open
  <2>. QED  BY <1>3, <2>3, <2>5, BecomeKeeps
<1>. QED  BY <1>1, <1>2, <1>3

LEMMA ReadKeeps ==
  ASSUME PayInv, NEW d \in Tills, NEW v \in Vouchers, Read(d, v)
  PROVE  PayInv'
<1>1. CASE ClaimRead(d, v)
  <2>. DEFINE r == [request[d] EXCEPT !.pc = "claim", !.seen = row[v]]
  <2>1. Become(d, r)
    BY <1>1 DEF ClaimRead
  <2>2. r \in Request /\ r.pc = "claim"
    BY DEF PayInv, TypeOK, Request, Blind
  <2>. HIDE DEF r
  <2>3. RequestOK(r)
    BY <2>2 DEF RequestOK
  <2>. QED  BY <2>1, <2>2, <2>3, BecomeKeeps
<1>2. CASE ReleaseRead(d, v)
  <2>1. CASE row[v].status = "reserved"
    BY <1>2, <2>1, GotoKeeps DEF ReleaseRead, Blind
  <2>2. CASE row[v].status # "reserved"
    BY <1>2, <2>2, GotoKeeps DEF ReleaseRead, Blind
  <2>. QED  BY <2>1, <2>2
<1>3. CASE GraceFlag(d, v)
  BY <1>3, GotoKeeps DEF GraceFlag, Blind
<1>4. CASE LapseLook(d, v)
  BY <1>4, GotoKeeps DEF LapseLook, Blind
<1>5. CASE AutoFlag(d, v)
  BY <1>5, GotoKeeps DEF AutoFlag, At, Blind
<1>6. CASE WinbackFlag(d, v)
  BY <1>6, GotoKeeps DEF WinbackFlag, Blind
<1>7. ASSUME NEW since \in 0..LastTime,
             SweepHold(d, v, since) \/ SweepExpired(d, v, since) \/ SweepLifecycle(d, v, since)
      PROVE  PayInv'
  BY <1>7, SweepKeeps
<1>. QED  BY <1>1, <1>2, <1>3, <1>4, <1>5, <1>6, <1>7, RetryKeeps DEF Read
-----------------------------------------------------------------------------
\* The only step that pays: it has seen the voucher as it is.
LEMMA RedeemKeeps ==
  ASSUME PayInv, NEW d \in Tills, NEW v \in Vouchers, Redeem(d, v)
  PROVE  PayInv'
<1>. DEFINE left == row[v].left - Applied(d)
            uses == row[v].uses + 1
            st   == IF uses >= row[v].max \/ left = 0 THEN "redeemed" ELSE "issued"
            r    == [status |-> st, holder |-> row[v].holder, kid |-> row[v].kid,
                     face |-> row[v].face, left |-> left, uses |-> uses,
                     max |-> row[v].max, until |-> row[v].until]
<1>1. /\ request[d].seen = row[v] /\ row[v].uses < row[v].max
      /\ row[v] \in Row /\ request[d] \in Request
      /\ paid \in [Vouchers -> [times : Nat, value : Nat]]
      /\ paid[v].value + row[v].left = row[v].face /\ paid[v].times = row[v].uses
  BY DEF Redeem, At, PayInv, TypeOK, RequestOK, PaidOutOnce
<1>2. Applied(d) \in Nat /\ Applied(d) <= row[v].left
  BY <1>1 DEF Applied, Row, Request
<1>3. r \in Row /\ st # "none"
  BY <1>1, <1>2 DEF Row
<1>4. row' = [row EXCEPT ![v] = r]
  BY <1>1 DEF Redeem, WriteRedemption, PayInv, TypeOK, Row
<1>5. /\ paid' = [paid EXCEPT ![v] = [times |-> @.times + 1, value |-> @.value + Applied(d)]]
      /\ Wrote(d, v) /\ UNCHANGED <<now, hold, mine, grace, winback>>
  BY DEF Redeem, WriteRedemption
<1>6. /\ paid' \in [Vouchers -> [times : Nat, value : Nat]]
      /\ \A w \in Vouchers : w # v => paid'[w] = paid[w]
      /\ paid'[v].times = paid[v].times + 1 /\ paid'[v].value = paid[v].value + Applied(d)
  <2>. DEFINE p == [times |-> paid[v].times + 1, value |-> paid[v].value + Applied(d)]
  <2>1. paid' = [paid EXCEPT ![v] = p]
    BY <1>1, <1>5
  <2>2. p \in [times : Nat, value : Nat]
    BY <1>1, <1>2
  <2>3. p.times = paid[v].times + 1 /\ p.value = paid[v].value + Applied(d)
    OBVIOUS
  <2>. HIDE DEF p
  <2>. QED  BY <1>1, <2>1, <2>2, <2>3
<1>7. /\ r.left = left /\ r.uses = uses /\ r.face = row[v].face /\ r.max = row[v].max
      /\ r.status = st
  OBVIOUS
<1>8. /\ paid'[v].value + left = row[v].face /\ paid'[v].times = uses /\ uses <= row[v].max
  BY <1>1, <1>2, <1>6 DEF Row
<1>9. /\ now' \in Nat /\ hold' \in [Vouchers -> Hold] /\ mine' \in [Users -> SUBSET Vouchers]
      /\ grace' \in [Vouchers -> Nat] /\ winback' \in [Vouchers -> Nat]
  BY <1>5 DEF PayInv, TypeOK
<1>10. r.status # "none" /\ paid'[v].value + r.left = r.face /\ paid'[v].times = r.uses
       /\ r.uses <= r.max
  BY <1>3, <1>7, <1>8
<1>. HIDE DEF r, left, uses, st
<1>. QED  BY <1>3, <1>4, <1>5, <1>6, <1>9, <1>10, WriteKeeps
\* The other writes mark the voucher and leave value and uses alone.
Keys == /\ hold' \in [Vouchers -> Hold] /\ mine' \in [Users -> SUBSET Vouchers]
        /\ grace' \in [Vouchers -> Nat] /\ winback' \in [Vouchers -> Nat]

LEMMA WriteStepKeeps ==
  ASSUME PayInv, NEW d \in Tills, NEW v \in Vouchers, Write(d, v)
  PROVE  PayInv'
<1>0. /\ row \in [Vouchers -> Row] /\ row[v] \in Row /\ request[d] \in Request
      /\ hold \in [Vouchers -> Hold] /\ mine \in [Users -> SUBSET Vouchers]
      /\ grace \in [Vouchers -> Nat] /\ winback \in [Vouchers -> Nat] /\ now \in Nat
      /\ now + HoldTtl \in Nat /\ GraceHours \in Nat /\ NoHold \in Hold
      /\ RequestOK(request[d])
  BY VouchersAssumption DEF PayInv, TypeOK, NoHold, Hold
<1>1. CASE Transfer(d, v)
  <2>. DEFINE r == [row[v] EXCEPT !.holder = request[d].to]
  <2>1. row' = [row EXCEPT ![v] = r] /\ Wrote(d, v) /\ UNCHANGED <<now, paid>> /\ Keys
    BY <1>1, <1>0 DEF Transfer, Keys, Hold
  <2>2. /\ r \in Row /\ (r = row[v] \/ r.status # "none")
        /\ r.left = row[v].left /\ r.face = row[v].face /\ r.uses = row[v].uses
        /\ r.max = row[v].max
    BY <1>1, <1>0 DEF Transfer, At, Row, RequestOK
  <2>. HIDE DEF r
  <2>. QED  BY <2>1, <2>2, MarkKeeps DEF Keys
<1>2. CASE Reserve(d, v)
  <2>. DEFINE r == [row[v] EXCEPT !.status = "reserved"]
  <2>1. row' = [row EXCEPT ![v] = r] /\ Wrote(d, v) /\ UNCHANGED <<now, paid>> /\ Keys
    BY <1>2, <1>0 DEF Reserve, Keys, Hold, Request
  <2>2. /\ r \in Row /\ (r = row[v] \/ r.status # "none")
        /\ r.left = row[v].left /\ r.face = row[v].face /\ r.uses = row[v].uses
        /\ r.max = row[v].max
    BY <1>2, <1>0 DEF Reserve, At, Row
  <2>. HIDE DEF r
  <2>. QED  BY <2>1, <2>2, MarkKeeps DEF Keys
<1>3. CASE Extend(d, v)
  <2>1. row' = [row EXCEPT ![v] = row[v]] /\ Wrote(d, v) /\ UNCHANGED <<now, paid>> /\ Keys
    BY <1>3, <1>0 DEF Extend, Keys, Hold
  <2>. QED  BY <1>0, <2>1, MarkKeeps DEF Keys
<1>4. ASSUME NEW kid \in Users, Claim(d, v, kid) PROVE PayInv'
  <2>. DEFINE r == [row[v] EXCEPT !.status = "claimed", !.holder = kid, !.kid = TRUE]
  <2>1. row' = [row EXCEPT ![v] = r] /\ Wrote(d, v) /\ UNCHANGED <<now, paid>> /\ Keys
    BY <1>4, <1>0 DEF Claim, Keys, Hold
  <2>2. /\ r \in Row /\ (r = row[v] \/ r.status # "none")
        /\ r.left = row[v].left /\ r.face = row[v].face /\ r.uses = row[v].uses
        /\ r.max = row[v].max
    BY <1>4, <1>0 DEF Claim, At, Row
  <2>. HIDE DEF r
  <2>. QED  BY <2>1, <2>2, MarkKeeps DEF Keys
<1>5. CASE Release(d, v)
  <2>. DEFINE r == [row[v] EXCEPT !.status = "issued"]
  <2>1. row' = [row EXCEPT ![v] = r] /\ Wrote(d, v) /\ UNCHANGED <<now, paid>> /\ Keys
    BY <1>5, <1>0 DEF Release, Keys, Hold
  <2>2. /\ r \in Row /\ (r = row[v] \/ r.status # "none")
        /\ r.left = row[v].left /\ r.face = row[v].face /\ r.uses = row[v].uses
        /\ r.max = row[v].max
    BY <1>5, <1>0 DEF Release, At, Row
  <2>. HIDE DEF r
  <2>. QED  BY <2>1, <2>2, MarkKeeps DEF Keys
<1>6. CASE End(d, v)
  <2>. DEFINE r == [row[v] EXCEPT !.status = request[d].to]
  <2>1. row' = [row EXCEPT ![v] = r] /\ Wrote(d, v) /\ UNCHANGED <<now, paid>> /\ Keys
    BY <1>6, <1>0 DEF End, Keys, Hold
  <2>2. /\ r \in Row /\ (r = row[v] \/ r.status # "none")
        /\ r.left = row[v].left /\ r.face = row[v].face /\ r.uses = row[v].uses
        /\ r.max = row[v].max
    BY <1>6, <1>0 DEF End, At, Row, RequestOK
  <2>. HIDE DEF r
  <2>. QED  BY <2>1, <2>2, MarkKeeps DEF Keys
<1>7. CASE Grace(d, v)
  <2>. DEFINE until == Later(request[d].seen.until, now) + GraceHours
              r == [row[v] EXCEPT !.status = "issued", !.until = until]
  <2>1. row' = [row EXCEPT ![v] = r]
    BY <1>7, <1>0 DEF Grace
  <2>2. Wrote(d, v) /\ UNCHANGED <<now, paid>> /\ Keys
    BY <1>7, <1>0 DEF Grace, Keys
  <2>3. until \in Nat
    BY <1>0 DEF Later, Request, Row
  <2>. HIDE DEF until
  <2>4. /\ r \in Row /\ r.status # "none"
        /\ r.left = row[v].left /\ r.face = row[v].face /\ r.uses = row[v].uses
        /\ r.max = row[v].max
    BY <1>0, <2>3 DEF Row
  <2>. HIDE DEF r
  <2>. QED  BY <2>1, <2>2, <2>4, MarkKeeps DEF Keys
<1>8. CASE Lapse(d, v)
  <2>. DEFINE r == [row[v] EXCEPT !.status = "issued"]
  <2>1. row' = [row EXCEPT ![v] = r] /\ Wrote(d, v) /\ UNCHANGED <<now, paid>> /\ Keys
    BY <1>8, <1>0 DEF Lapse, Keys, Hold
  <2>2. /\ r \in Row /\ (r = row[v] \/ r.status # "none")
        /\ r.left = row[v].left /\ r.face = row[v].face /\ r.uses = row[v].uses
        /\ r.max = row[v].max
    BY <1>8, <1>0 DEF Lapse, At, Row
  <2>. HIDE DEF r
  <2>. QED  BY <2>1, <2>2, MarkKeeps DEF Keys
<1>9. CASE Expire(d, v)
  <2>. DEFINE r == [row[v] EXCEPT !.status = "expired"]
  <2>1. row' = [row EXCEPT ![v] = r] /\ Wrote(d, v) /\ UNCHANGED <<now, paid>> /\ Keys
    BY <1>9, <1>0 DEF Expire, Keys, Hold
  <2>2. /\ r \in Row /\ (r = row[v] \/ r.status # "none")
        /\ r.left = row[v].left /\ r.face = row[v].face /\ r.uses = row[v].uses
        /\ r.max = row[v].max
    BY <1>9, <1>0 DEF Expire, At, Row
  <2>. HIDE DEF r
  <2>. QED  BY <2>1, <2>2, MarkKeeps DEF Keys
<1>10. CASE AutoExtend(d, v)
  <2>. DEFINE r == [row[v] EXCEPT !.until = request[d].seen.until + AutoGrace[request[d].seen.face]]
  <2>1. row' = [row EXCEPT ![v] = r] /\ Wrote(d, v) /\ UNCHANGED <<now, paid>> /\ Keys
    BY <1>10, <1>0 DEF AutoExtend, Keys
  <2>2. AutoGrace[request[d].seen.face] \in Nat /\ row[v].status # "none"
    BY <1>10, <1>0, GraceNat DEF AutoExtend, At, RequestOK
  <2>3. /\ r \in Row /\ r.status = row[v].status
        /\ r.left = row[v].left /\ r.face = row[v].face /\ r.uses = row[v].uses
        /\ r.max = row[v].max
    BY <2>2, <1>0 DEF Row, Request
  <2>. HIDE DEF r
  <2>. QED  BY <2>1, <2>2, <2>3, MarkKeeps DEF Keys
<1>11. CASE Winback(d, v)
  <2>. DEFINE r == [row[v] EXCEPT !.status = "expired"]
  <2>1. row' = [row EXCEPT ![v] = r] /\ Wrote(d, v) /\ UNCHANGED <<now, paid>> /\ Keys
    BY <1>11, <1>0 DEF Winback, Keys, Hold
  <2>2. /\ r \in Row /\ (r = row[v] \/ r.status # "none")
        /\ r.left = row[v].left /\ r.face = row[v].face /\ r.uses = row[v].uses
        /\ r.max = row[v].max
    BY <1>11, <1>0 DEF Winback, At, Row
  <2>. HIDE DEF r
  <2>. QED  BY <2>1, <2>2, MarkKeeps DEF Keys
<1>12. CASE ReleaseNothing(d, v)
  BY <1>12, <1>0, SideKeeps DEF ReleaseNothing
<1>. QED  BY <1>1, <1>2, <1>3, <1>4, <1>5, <1>6, <1>7, <1>8, <1>9, <1>10, <1>11, <1>12, RedeemKeeps
          DEF Write

\* A fresh voucher has paid nothing, and no request in the middle of a redemption
\* or transfer can have read it.
LEMMA IssueKeeps ==
  ASSUME PayInv, NEW v \in Vouchers, NEW u \in Users, NEW kid \in BOOLEAN, NEW face \in Faces,
         NEW max \in MaxUses, NEW life \in Lives, Issue(v, u, kid, face, max, life)
  PROVE  PayInv'
<1>. DEFINE r == [status |-> "issued", holder |-> u, kid |-> kid, face |-> face,
                  left |-> face, uses |-> 0, max |-> max,
                  until |-> IF life = 0 THEN 0 ELSE now + life]
<1>1. /\ row \in [Vouchers -> Row] /\ row[v] = NoRow /\ now \in Nat
      /\ paid[v].value + row[v].left = row[v].face /\ paid[v].times = row[v].uses
      /\ paid \in [Vouchers -> [times : Nat, value : Nat]]
  BY DEF PayInv, TypeOK, Issue, Unissued, PaidOutOnce
<1>2. paid[v].value = 0 /\ paid[v].times = 0
  BY <1>1 DEF NoRow
<1>3. r \in Row
  BY <1>1, VouchersAssumption DEF Row
<1>4. /\ row' = [row EXCEPT ![v] = r]
      /\ mine' = [mine EXCEPT ![u] = @ \cup {v}]
      /\ UNCHANGED <<now, hold, grace, winback, paid, request, raced>>
  BY DEF Issue
<1>5. /\ r.status = "issued" /\ r.left = r.face /\ r.uses = 0 /\ r.max = max /\ r.face = face
      /\ max \in Nat /\ face \in Nat
  BY VouchersAssumption
<1>. HIDE DEF r
<1>6. /\ row' \in [Vouchers -> Row] /\ row'[v] = r
      /\ \A w \in Vouchers : w # v => row'[w] = row[w]
  BY <1>1, <1>3, <1>4
<1>7. TypeOK'
  BY <1>4, <1>6 DEF PayInv, TypeOK
<1>8. ASSUME NEW e \in Tills PROVE RequestOK(request[e])'
  BY <1>1, <1>4, <1>6 DEF PayInv, RequestOK, NoRow
<1>9. Unissued' /\ PaidOutOnce'
  BY <1>2, <1>4, <1>5, <1>6 DEF PayInv, Unissued, PaidOutOnce
<1>. QED  BY <1>7, <1>8, <1>9 DEF PayInv

LEMMA NextKeeps == PayInv /\ [Next]_vars => PayInv'
<1>. SUFFICES ASSUME PayInv, [Next]_vars PROVE PayInv'
  OBVIOUS
<1>1. CASE Tick
  <2>1. /\ TypeOK' /\ Unissued' /\ PaidOutOnce'
        /\ \A e \in Tills : RequestOK(request[e])'
    BY <1>1 DEF Tick, PayInv, TypeOK, Unissued, PaidOutOnce, RequestOK
  <2>. QED  BY <2>1 DEF PayInv
<1>2. ASSUME NEW v \in Vouchers, HoldLapses(v) PROVE PayInv'
  <2>1. TypeOK'
    BY <1>2 DEF HoldLapses, PayInv, TypeOK, NoHold, Hold
  <2>2. Unissued' /\ PaidOutOnce' /\ \A e \in Tills : RequestOK(request[e])'
    BY <1>2 DEF HoldLapses, PayInv, Unissued, PaidOutOnce, RequestOK
  <2>. QED  BY <2>1, <2>2 DEF PayInv
<1>3. ASSUME NEW v \in Vouchers, NEW u \in Users, NEW kid \in BOOLEAN, NEW face \in Faces,
             NEW max \in MaxUses, NEW life \in Lives, Issue(v, u, kid, face, max, life)
      PROVE  PayInv'
  BY <1>3, IssueKeeps
<1>4. ASSUME NEW d \in Tills, NEW v \in Vouchers, Ask(d, v) \/ Read(d, v) \/ Write(d, v)
      PROVE  PayInv'
  BY <1>4, AskKeeps, ReadKeeps, WriteStepKeeps
<1>5. ASSUME NEW d \in Tills, Abandon(d) PROVE PayInv'
  BY <1>5, IdleOK, BecomeKeeps DEF Abandon
<1>6. CASE UNCHANGED vars
  <2>1. TypeOK' /\ Unissued' /\ PaidOutOnce' /\ \A e \in Tills : RequestOK(request[e])'
    BY <1>6 DEF vars, PayInv, TypeOK, Unissued, PaidOutOnce, RequestOK
  <2>. QED  BY <2>1 DEF PayInv
<1>. QED  BY <1>1, <1>2, <1>3, <1>4, <1>5, <1>6 DEF Next

(***************************************************************************)
(* For all vouchers, users, amounts and periods, and any number of requests*)
(* and sweeps at once: every variable keeps its type.                      *)
(***************************************************************************)
THEOREM VouchersTyped == Spec => []TypeOK
<1>1. PayInv => TypeOK
  BY DEF PayInv
<1>. QED  BY TypedInit, NextKeeps, <1>1, PTL DEF Spec

(***************************************************************************)
(* And the redemptions of a voucher never exceed its value or its uses,    *)
(* though void, claim, release, cancel, extend-grace and the sweeps write  *)
(* the hash without WATCH (redeem, _process_voucher).                      *)
(***************************************************************************)
THEOREM VoucherPaysOnce == Spec => []PaidOutOnce
<1>1. PayInv => PaidOutOnce
  BY DEF PayInv
<1>. QED  BY TypedInit, NextKeeps, <1>1, PTL DEF Spec
-----------------------------------------------------------------------------
(***************************************************************************)
(* The rest holds unless a write raced. A request whose reading nobody has *)
(* overtaken still finds the voucher in the state that sent it to its step:*)
(* the key to holders, extensions and final states is that every write of  *)
(* the hash makes all other readers stale, and that the extension and the  *)
(* win-back are counted together with such a write.                        *)
(***************************************************************************)
Fresh(q, v) ==
    /\ q.pc \in {"redeem", "transfer", "expire", "auto_flag", "auto_grace", "winback_flag",
                 "winback"} => Open(v)
    /\ q.pc = "transfer" => row[v].holder = q.who
    /\ q.pc = "reserve" => row[v].status = "issued"
    /\ q.pc \in {"extend", "claim", "release", "lapse_look", "lapse"} => row[v].status = "reserved"
    /\ q.pc = "claim" => q.seen.holder = row[v].holder
    /\ q.pc = "end" => row[v].status \notin {"none", "redeemed", "expired"}
    /\ q.pc \in {"grace_flag", "grace"} => Open(v) \/ row[v].status = "expired"
    /\ q.pc \in {"grace", "auto_grace"} => grace[v] = 0
    /\ q.pc = "winback" => winback[v] = 0
FreshOK(q) == \A v \in Vouchers : q.v = v /\ ~q.stale => Fresh(q, v)

RaceInv == /\ PayInv
           /\ \A d \in Tills : FreshOK(request[d])
           /\ HoldersAgree
           /\ GraceOnce

LEMMA IdleFresh == FreshOK(Idle)
  BY DEF FreshOK, Fresh, Idle

\* A request moves on, or a reservation lapses or is dropped: nothing is listed
\* or counted, and no voucher is held that was not.
LEMMA QuietKeeps ==
  ASSUME RaceInv, PayInv', UNCHANGED <<row, mine, grace, winback, raced>>,
         \A v \in Vouchers : hold'[v] \in {hold[v], NoHold},
         \A d \in Tills : FreshOK(request'[d])
  PROVE  RaceInv'
<1>1. ASSUME NEW d \in Tills PROVE FreshOK(request[d])'
  BY DEF FreshOK, Fresh, Open
<1>2. HoldersAgree'
  <2>. SUFFICES ASSUME NEW v \in Vouchers \ raced PROVE HeldIsKept(v)' /\ ListedByHolder(v)'
    BY DEF HoldersAgree
  <2>1. HeldIsKept(v) /\ ListedByHolder(v)
    BY DEF RaceInv, HoldersAgree
  <2>2. Held(v)' => Held(v)
    BY DEF Held, NoHold
  <2>. QED  BY <2>1, <2>2 DEF HeldIsKept, ListedByHolder
<1>3. GraceOnce'
  BY DEF RaceInv, GraceOnce
<1>. QED  BY <1>1, <1>2, <1>3 DEF RaceInv

LEMMA BecomeFresh ==
  ASSUME RaceInv, PayInv', NEW d \in Tills, NEW r, FreshOK(r), Become(d, r)
  PROVE  RaceInv'
<1>1. \A e \in Tills : request'[e] \in {request[e], r}
  BY DEF Become, RaceInv, PayInv, TypeOK
<1>2. /\ UNCHANGED <<row, mine, grace, winback, raced>>
      /\ \A v \in Vouchers : hold'[v] \in {hold[v], NoHold}
  BY DEF Become
<1>3. \A e \in Tills : FreshOK(request'[e])
  BY <1>1 DEF RaceInv
<1>. QED  BY <1>2, <1>3, QuietKeeps

\* A request that goes one step on keeps its staleness, and its reading.
LEMMA GotoFresh ==
  ASSUME RaceInv, PayInv', NEW d \in Tills, NEW v \in Vouchers, NEW pc \in Blind, Goto(d, pc),
         request[d].v = v,
         ~request[d].stale => Fresh([request[d] EXCEPT !.pc = pc], v)
  PROVE  RaceInv'
<1>. DEFINE r == [request[d] EXCEPT !.pc = pc]
<1>1. request[d] \in Request
  BY DEF RaceInv, PayInv, TypeOK
<1>2. r.v = v /\ r.stale = request[d].stale
  BY <1>1 DEF Request
<1>3. FreshOK(r)
  BY <1>2 DEF FreshOK
<1>. QED  BY <1>3, BecomeFresh DEF Goto

\* One write of the hash of v. A writer out of date excuses v; one that is not has
\* to leave v as the properties ask.
LEMMA WriteFresh ==
  ASSUME RaceInv, PayInv', NEW d \in Tills, NEW v \in Vouchers, Wrote(d, v),
         \A w \in Vouchers : w # v => /\ row'[w] = row[w] /\ hold'[w] = hold[w]
                                      /\ grace'[w] = grace[w] /\ winback'[w] = winback[w],
         \A w \in Vouchers, u \in Users : w # v => (w \in mine'[u] <=> w \in mine[u]),
         v \notin raced /\ ~request[d].stale =>
             /\ HeldIsKept(v)' /\ ListedByHolder(v)'
             /\ grace'[v] <= 1 /\ winback'[v] <= 1
  PROVE  RaceInv'
<1>1. raced' = IF request[d].stale THEN raced \cup {v} ELSE raced
  BY DEF Wrote
<1>2. ASSUME NEW e \in Tills PROVE FreshOK(request[e])'
  <2>. SUFFICES ASSUME NEW w \in Vouchers, request'[e].v = w, ~request'[e].stale
                PROVE  Fresh(request[e], w)'
    BY DEF FreshOK
  <2>1. CASE request'[e] = Idle
    BY <2>1 DEF Fresh, Idle
  <2>2. CASE request'[e] = request[e] /\ request[e].v # v
    <3>1. Fresh(request[e], w)
      BY <2>2 DEF RaceInv, FreshOK
    <3>2. /\ row'[w] = row[w] /\ grace'[w] = grace[w] /\ winback'[w] = winback[w]
      BY <2>2
    <3>. QED  BY <3>1, <3>2, <2>2 DEF Fresh, Open
  <2>3. CASE request'[e] = [request[e] EXCEPT !.stale = TRUE] /\ request[e].v = v
    BY <2>3 DEF RaceInv, PayInv, TypeOK, Request
  <2>. QED  BY <2>1, <2>2, <2>3, WroteRequests DEF RaceInv
<1>3. ASSUME NEW w \in Vouchers \ raced'
      PROVE  HeldIsKept(w)' /\ ListedByHolder(w)' /\ grace'[w] <= 1 /\ winback'[w] <= 1
  <2>1. CASE w = v
    BY <1>1, <2>1
  <2>2. CASE w # v
    BY <1>1, <2>2 DEF RaceInv, HoldersAgree, GraceOnce, HeldIsKept, ListedByHolder, Held
  <2>. QED  BY <2>1, <2>2
<1>4. HoldersAgree' /\ GraceOnce'
  BY <1>3 DEF HoldersAgree, GraceOnce
<1>. QED  BY <1>2, <1>4 DEF RaceInv
-----------------------------------------------------------------------------
LEMMA AskFresh ==
  ASSUME RaceInv, PayInv', NEW d \in Tills, NEW v \in Vouchers, Ask(d, v)
  PROVE  RaceInv'
<1>. USE DEF Begin
<1>1. ASSUME NEW order \in Orders, AskRedeem(d, v, order) PROVE RaceInv'
  <2>. DEFINE r == [Idle EXCEPT !.pc = "redeem", !.v = v, !.amount = order, !.seen = row[v]]
  <2>1. r.v = v /\ r.pc = "redeem"
    BY DEF Idle
  <2>2. Open(v) /\ Become(d, r)
    BY <1>1 DEF AskRedeem, Redeemable
  <2>. HIDE DEF r
  <2>3. FreshOK(r)
    BY <2>1, <2>2 DEF FreshOK, Fresh
  <2>. QED  BY <2>2, <2>3, BecomeFresh
<1>2. ASSUME NEW from \in Users, NEW to \in Users, AskTransfer(d, v, from, to) PROVE RaceInv'
  <2>. DEFINE r == [Idle EXCEPT !.pc = "transfer", !.v = v, !.who = from, !.to = to]
  <2>1. r.v = v /\ r.pc = "transfer" /\ r.who = from
    BY DEF Idle
  <2>2. Open(v) /\ row[v].holder = from /\ Become(d, r)
    BY <1>2 DEF AskTransfer, Transferable
  <2>. HIDE DEF r
  <2>3. FreshOK(r)
    BY <2>1, <2>2 DEF FreshOK, Fresh
  <2>. QED  BY <2>2, <2>3, BecomeFresh
<1>3. ASSUME NEW who \in Users, AskReserve(d, v, who) PROVE RaceInv'
  <2>. DEFINE r == [Idle EXCEPT !.pc = ReserveStep(v, who), !.v = v, !.who = who]
  <2>1. r.v = v /\ r.pc = ReserveStep(v, who)
    BY DEF Idle
  <2>2. Become(d, r)
    BY <1>3 DEF AskReserve
  <2>. HIDE DEF r
  <2>3. FreshOK(r)
    BY <2>1 DEF FreshOK, Fresh, ReserveStep
  <2>. QED  BY <2>2, <2>3, BecomeFresh
<1>4. ASSUME NEW who \in Users, NEW pc \in {"claim_read", "release_read"}, AskHeld(d, v, who, pc)
      PROVE  RaceInv'
  <2>. DEFINE r == [Idle EXCEPT !.pc = pc, !.v = v, !.who = who]
  <2>1. r.pc = pc
    BY DEF Idle
  <2>2. Become(d, r)
    BY <1>4 DEF AskHeld
  <2>. HIDE DEF r
  <2>3. FreshOK(r)
    BY <2>1 DEF FreshOK, Fresh
  <2>. QED  BY <2>2, <2>3, BecomeFresh
<1>5. ASSUME NEW to \in {"void", "cancelled"}, AskEnd(d, v, to) PROVE RaceInv'
  <2>. DEFINE r == [Idle EXCEPT !.pc = "end", !.v = v, !.to = to]
  <2>1. r.v = v /\ r.pc = "end"
    BY DEF Idle
  <2>2. row[v].status \notin {"none", "redeemed", "expired"} /\ Become(d, r)
    BY <1>5 DEF AskEnd, Endable
  <2>. HIDE DEF r
  <2>3. FreshOK(r)
    BY <2>1, <2>2 DEF FreshOK, Fresh
  <2>. QED  BY <2>2, <2>3, BecomeFresh
<1>6. CASE AskGrace(d, v)
  <2>. DEFINE r == [Idle EXCEPT !.pc = "grace_flag", !.v = v, !.seen = row[v]]
  <2>1. r.v = v /\ r.pc = "grace_flag"
    BY DEF Idle
  <2>2. (Open(v) \/ row[v].status = "expired") /\ Become(d, r)
    BY <1>6 DEF AskGrace
  <2>. HIDE DEF r
  <2>3. FreshOK(r)
    BY <2>1, <2>2 DEF FreshOK, Fresh
  <2>. QED  BY <2>2, <2>3, BecomeFresh
<1>. QED  BY <1>1, <1>2, <1>3, <1>4, <1>5, <1>6 DEF Ask

LEMMA SweepFresh ==
  ASSUME RaceInv, PayInv', NEW d \in Tills, NEW v \in Vouchers, NEW since \in Nat,
         SweepHold(d, v, since) \/ SweepExpired(d, v, since) \/ SweepLifecycle(d, v, since)
  PROVE  RaceInv'
<1>. USE DEF Begin
<1>1. CASE SweepHold(d, v, since)
  <2>. DEFINE r == [Idle EXCEPT !.pc = "lapse_look", !.v = v, !.since = since]
  <2>1. r.v = v /\ r.pc = "lapse_look"
    BY DEF Idle
  <2>2. row[v].status = "reserved" /\ Become(d, r)
    BY <1>1 DEF SweepHold
  <2>. HIDE DEF r
  <2>3. FreshOK(r)
    BY <2>1, <2>2 DEF FreshOK, Fresh
  <2>. QED  BY <2>2, <2>3, BecomeFresh
<1>2. CASE SweepExpired(d, v, since)
  <2>. DEFINE r == [Idle EXCEPT !.pc = "expire", !.v = v]
  <2>1. r.v = v /\ r.pc = "expire"
    BY DEF Idle
  <2>2. Open(v) /\ Become(d, r)
    BY <1>2 DEF SweepExpired
  <2>. HIDE DEF r
  <2>3. FreshOK(r)
    BY <2>1, <2>2 DEF FreshOK, Fresh
  <2>. QED  BY <2>2, <2>3, BecomeFresh
<1>3. CASE SweepLifecycle(d, v, since)
  <2>. DEFINE pc == IF AutoGrace[row[v].face] > 0 /\ since - row[v].until <= AutoGrace[row[v].face]
                    THEN "auto_flag" ELSE "winback_flag"
              r  == [Idle EXCEPT !.v = v, !.seen = row[v], !.pc = pc]
  <2>1. pc \in {"auto_flag", "winback_flag"}
    OBVIOUS
  <2>2. Open(v) /\ Become(d, r)
    BY <1>3 DEF SweepLifecycle
  <2>. HIDE DEF pc
  <2>3. r.v = v /\ r.pc = pc
    BY DEF Idle
  <2>. HIDE DEF r
  <2>4. FreshOK(r)
    BY <2>1, <2>2, <2>3 DEF FreshOK, Fresh
  <2>. QED  BY <2>2, <2>4, BecomeFresh
<1>. QED  BY <1>1, <1>2, <1>3

\* The watch loop looks again at the status its next step relies on.
LEMMA RetryFresh ==
  ASSUME RaceInv, PayInv', NEW d \in Tills, NEW v \in Vouchers, Retry(d, v)
  PROVE  RaceInv'
<1>. DEFINE again == Again(d, v)
            sees  == IF request[d].seen.status = "none" THEN request[d].seen ELSE row[v]
            r == [request[d] EXCEPT !.pc = again, !.tries = @ + 1, !.stale = FALSE,
                                    !.seen = IF @.status = "none" THEN @ ELSE row[v]]
<1>1. /\ Become(d, IF again = "idle" \/ request[d].tries = Attempts THEN Idle ELSE r)
      /\ request[d].v = v /\ request[d] \in Request /\ request[d].pc \in Watched
  BY DEF Retry, RaceInv, PayInv, TypeOK
<1>2. r.pc = again /\ r.v = v /\ r.who = request[d].who
  BY <1>1 DEF Request
<1>3. /\ again \in Watched \cup {"idle"}
      /\ again = "redeem" => Open(v)
      /\ again = "transfer" => Open(v) /\ row[v].holder = request[d].who
      /\ again = "reserve" => row[v].status = "issued"
      /\ again = "extend" => row[v].status = "reserved"
  BY <1>1 DEF Again, ReserveStep, Watched, Redeemable, Transferable
<1>4. FreshOK(r)
  <2>. HIDE DEF r, again
  <2>. QED  BY <1>2, <1>3 DEF FreshOK, Fresh, Watched
<1>5. Become(d, Idle) \/ Become(d, r)
  <2>. DEFINE next == IF again = "idle" \/ request[d].tries = Attempts THEN Idle ELSE r
  <2>1. Become(d, next)
    BY <1>1
  <2>. HIDE DEF r, again
  <2>2. next = Idle \/ next = r
    OBVIOUS
  <2>. HIDE DEF next
  <2>. QED  BY <2>1, <2>2
<1>. HIDE DEF r
<1>. QED  BY <1>4, <1>5, IdleFresh, BecomeFresh

LEMMA ReadFresh ==
  ASSUME RaceInv, PayInv', NEW d \in Tills, NEW v \in Vouchers, Read(d, v)
  PROVE  RaceInv'
<1>0. request[d] \in Request /\ FreshOK(request[d])
  BY DEF RaceInv, PayInv, TypeOK
<1>1. CASE ClaimRead(d, v)
  <2>. DEFINE r == [request[d] EXCEPT !.pc = "claim", !.seen = row[v]]
  <2>1. Become(d, r) /\ request[d].v = v /\ row[v].status = "reserved"
    BY <1>1 DEF ClaimRead, At
  <2>2. r.pc = "claim" /\ r.seen = row[v] /\ r.v = v
    BY <1>0, <2>1 DEF Request
  <2>. HIDE DEF r
  <2>3. FreshOK(r)
    BY <2>1, <2>2 DEF FreshOK, Fresh
  <2>. QED  BY <2>1, <2>3, BecomeFresh
<1>2. ASSUME NEW pc \in Blind, Goto(d, pc), request[d].v = v,
             LET q == request[d]
             IN  \/ pc = "release" /\ row[v].status = "reserved"
                 \/ pc = "discard"
                 \/ pc = "grace" /\ q.pc = "grace_flag" /\ grace[v] = 0
                 \/ pc = "lapse" /\ q.pc = "lapse_look"
                 \/ pc = "auto_grace" /\ q.pc = "auto_flag" /\ grace[v] = 0
                 \/ pc = "winback_flag" /\ q.pc = "auto_flag"
                 \/ pc = "winback" /\ q.pc = "winback_flag" /\ winback[v] = 0
      PROVE  RaceInv'
  <2>. DEFINE r == [request[d] EXCEPT !.pc = pc]
  <2>1. r.pc = pc
    BY <1>0 DEF Request
  <2>2. ~request[d].stale => Fresh(request[d], v)
    BY <1>0, <1>2 DEF FreshOK
  <2>3. ~request[d].stale => Fresh(r, v)
    <3>. HIDE DEF r
    <3>. QED  BY <1>2, <2>1, <2>2 DEF Fresh
  <2>. QED  BY <1>2, <2>3, GotoFresh
<1>3. CASE ReleaseRead(d, v)
  <2>1. CASE row[v].status = "reserved"
    BY <1>2, <1>3, <2>1 DEF ReleaseRead, At, Blind
  <2>2. CASE row[v].status # "reserved"
    BY <1>2, <1>3, <2>2 DEF ReleaseRead, At, Blind
  <2>. QED  BY <2>1, <2>2
<1>4. CASE GraceFlag(d, v)
  BY <1>2, <1>4 DEF GraceFlag, At, Blind
<1>5. CASE LapseLook(d, v)
  BY <1>2, <1>5 DEF LapseLook, At, Blind
<1>6. CASE AutoFlag(d, v)
  <2>1. CASE grace[v] = 0
    BY <1>2, <1>6, <2>1 DEF AutoFlag, At, Blind
  <2>2. CASE grace[v] # 0
    BY <1>2, <1>6, <2>2 DEF AutoFlag, At, Blind
  <2>. QED  BY <2>1, <2>2
<1>7. CASE WinbackFlag(d, v)
  BY <1>2, <1>7 DEF WinbackFlag, At, Blind
<1>8. ASSUME NEW since \in 0..LastTime,
             SweepHold(d, v, since) \/ SweepExpired(d, v, since) \/ SweepLifecycle(d, v, since)
      PROVE  RaceInv'
  BY <1>8, SweepFresh
<1>. QED  BY <1>1, <1>3, <1>4, <1>5, <1>6, <1>7, <1>8, RetryFresh DEF Read
-----------------------------------------------------------------------------
\* A write by a request up to date: the voucher is as its step expects, so the list,
\* the reservation and the counts agree with it afterwards.
LEMMA WriteStepFresh ==
  ASSUME RaceInv, PayInv', NEW d \in Tills, NEW v \in Vouchers, Write(d, v)
  PROVE  RaceInv'
<1>0. /\ row \in [Vouchers -> Row] /\ row[v] \in Row /\ request[d] \in Request
      /\ hold \in [Vouchers -> Hold] /\ mine \in [Users -> SUBSET Vouchers]
      /\ grace \in [Vouchers -> Nat] /\ winback \in [Vouchers -> Nat]
      /\ RequestOK(request[d])
      /\ v \notin raced => /\ HeldIsKept(v) /\ ListedByHolder(v)
                           /\ grace[v] <= 1 /\ winback[v] <= 1
  BY DEF RaceInv, PayInv, TypeOK, HoldersAgree, GraceOnce
<1>1. ~request[d].stale /\ request[d].v = v => Fresh(request[d], v)
  BY DEF RaceInv, FreshOK
<1>2. CASE Redeem(d, v)
  <2>1. /\ row'[v].holder = row[v].holder /\ row'[v].status \in {"redeemed", "issued"}
        /\ \A w \in Vouchers : w # v => row'[w] = row[w]
        /\ Wrote(d, v) /\ UNCHANGED <<hold, mine, grace, winback>>
    BY <1>0, <1>2 DEF Redeem, WriteRedemption, Row
  <2>2. ~request[d].stale => Open(v)
    BY <1>1, <1>2 DEF Redeem, At, Fresh
  <2>3. v \notin raced /\ ~request[d].stale => HeldIsKept(v)' /\ ListedByHolder(v)'
    BY <1>0, <2>1, <2>2 DEF HeldIsKept, ListedByHolder, Held, Open
  <2>. QED  BY <1>0, <2>1, <2>3, WriteFresh
<1>3. CASE Transfer(d, v)
  <2>1. /\ row'[v].holder = request[d].to /\ row'[v].status = row[v].status
        /\ \A w \in Vouchers : w # v => row'[w] = row[w]
        /\ Wrote(d, v) /\ UNCHANGED <<hold, grace, winback>>
    BY <1>0, <1>3 DEF Transfer, Row
  <2>2. ~request[d].stale => Open(v) /\ row[v].holder = request[d].who
    BY <1>1, <1>3 DEF Transfer, At, Fresh
  <2>3. \A u \in Users : mine'[u] = IF u = request[d].to THEN mine[u] \cup {v}
                                    ELSE IF u = request[d].who THEN mine[u] \ {v} ELSE mine[u]
    BY <1>3 DEF Transfer
  <2>4. v \notin raced /\ ~request[d].stale => HeldIsKept(v)' /\ ListedByHolder(v)'
    <3>. SUFFICES ASSUME v \notin raced, ~request[d].stale PROVE HeldIsKept(v)' /\ ListedByHolder(v)'
      OBVIOUS
    <3>1. HeldIsKept(v)'
      BY <1>0, <2>1 DEF HeldIsKept, Held
    <3>2. /\ \A u \in Users : v \in mine[u] <=> row[v].status # "none" /\ row[v].holder = u
          /\ row[v].status # "none" /\ row[v].holder = request[d].who
      BY <1>0, <2>2 DEF ListedByHolder, Open
    <3>3. ASSUME NEW u \in Users
          PROVE  v \in mine'[u] <=> row'[v].status # "none" /\ row'[v].holder = u
      BY ONLY <2>1, <2>3, <3>2, <3>3
    <3>. QED  BY <3>1, <3>3 DEF ListedByHolder
  <2>5. \A w \in Vouchers, u \in Users : w # v => (w \in mine'[u] <=> w \in mine[u])
    BY <2>3
  <2>. QED  BY <1>0, <2>1, <2>4, <2>5, WriteFresh
<1>4. CASE Reserve(d, v)
  <2>1. /\ row'[v].holder = row[v].holder /\ row'[v].status = "reserved"
        /\ \A w \in Vouchers : w # v => row'[w] = row[w] /\ hold'[w] = hold[w]
        /\ Wrote(d, v) /\ UNCHANGED <<mine, grace, winback>>
    BY <1>0, <1>4 DEF Reserve, Row
  <2>2. ~request[d].stale => row[v].status = "issued"
    BY <1>1, <1>4 DEF Reserve, At, Fresh
  <2>3. v \notin raced /\ ~request[d].stale => HeldIsKept(v)' /\ ListedByHolder(v)'
    BY <1>0, <2>1, <2>2 DEF HeldIsKept, ListedByHolder
  <2>. QED  BY <1>0, <2>1, <2>3, WriteFresh
<1>5. CASE Extend(d, v)
  <2>1. /\ \A w \in Vouchers : w # v => hold'[w] = hold[w]
        /\ Wrote(d, v) /\ UNCHANGED <<row, mine, grace, winback>>
    BY <1>0, <1>5 DEF Extend
  <2>2. ~request[d].stale => row[v].status = "reserved"
    BY <1>1, <1>5 DEF Extend, At, Fresh
  <2>3. v \notin raced /\ ~request[d].stale => HeldIsKept(v)' /\ ListedByHolder(v)'
    BY <1>0, <2>1, <2>2 DEF HeldIsKept, ListedByHolder
  <2>. QED  BY <1>0, <2>1, <2>3, WriteFresh
<1>6. ASSUME NEW kid \in Users, Claim(d, v, kid) PROVE RaceInv'
  <2>1. /\ row'[v].holder = kid /\ row'[v].status = "claimed" /\ hold'[v].until = 0
        /\ \A w \in Vouchers : w # v => row'[w] = row[w] /\ hold'[w] = hold[w]
        /\ Wrote(d, v) /\ UNCHANGED <<grace, winback>>
    BY <1>0, <1>6 DEF Claim, Row, NoHold
  <2>2. ~request[d].stale => row[v].status = "reserved" /\ row[v].holder = request[d].seen.holder
    BY <1>1, <1>6 DEF Claim, At, Fresh
  <2>3. \A u \in Users : mine'[u] = IF u = kid THEN mine[u] \cup {v}
                                    ELSE IF u = request[d].seen.holder THEN mine[u] \ {v}
                                    ELSE mine[u]
    BY <1>6 DEF Claim
  <2>4. v \notin raced /\ ~request[d].stale => HeldIsKept(v)' /\ ListedByHolder(v)'
    <3>. SUFFICES ASSUME v \notin raced, ~request[d].stale
                  PROVE  HeldIsKept(v)' /\ ListedByHolder(v)'
      OBVIOUS
    <3>1. HeldIsKept(v)'
      BY <2>1 DEF HeldIsKept, Held
    <3>2. \A u \in Users : v \in mine[u] <=> row[v].holder = u
      BY <1>0, <2>2 DEF ListedByHolder
    <3>3. \A u \in Users : v \in mine'[u] <=> u = kid
      BY <2>2, <2>3, <3>2
    <3>. QED  BY <2>1, <3>1, <3>3 DEF ListedByHolder
  <2>5. \A w \in Vouchers, u \in Users : w # v => (w \in mine'[u] <=> w \in mine[u])
    BY <2>3
  <2>. QED  BY <1>0, <2>1, <2>4, <2>5, WriteFresh
<1>7. CASE Release(d, v) \/ Lapse(d, v)
  <2>1. /\ row'[v].holder = row[v].holder /\ row'[v].status = "issued" /\ hold'[v].until = 0
        /\ \A w \in Vouchers : w # v => row'[w] = row[w] /\ hold'[w] = hold[w]
        /\ Wrote(d, v) /\ UNCHANGED <<mine, grace, winback>>
    BY <1>0, <1>7 DEF Release, Lapse, Row, NoHold
  <2>2. ~request[d].stale => row[v].status = "reserved"
    BY <1>1, <1>7 DEF Release, Lapse, At, Fresh
  <2>3. v \notin raced /\ ~request[d].stale => HeldIsKept(v)' /\ ListedByHolder(v)'
    BY <1>0, <2>1, <2>2 DEF HeldIsKept, ListedByHolder, Held
  <2>. QED  BY <1>0, <2>1, <2>3, WriteFresh
<1>8. CASE End(d, v)
  <2>1. /\ row'[v].holder = row[v].holder /\ row'[v].status \in {"void", "cancelled"}
        /\ \A w \in Vouchers : w # v => row'[w] = row[w]
        /\ Wrote(d, v) /\ UNCHANGED <<hold, mine, grace, winback>>
    BY <1>0, <1>8 DEF End, At, RequestOK, Row
  <2>2. ~request[d].stale => row[v].status # "none"
    BY <1>1, <1>8 DEF End, At, Fresh
  <2>3. v \notin raced /\ ~request[d].stale => HeldIsKept(v)' /\ ListedByHolder(v)'
    BY <1>0, <2>1, <2>2 DEF HeldIsKept, ListedByHolder, Held
  <2>. QED  BY <1>0, <2>1, <2>3, WriteFresh
<1>9. CASE Grace(d, v)
  <2>1. /\ row'[v].holder = row[v].holder /\ row'[v].status = "issued"
        /\ \A w \in Vouchers : w # v => row'[w] = row[w] /\ grace'[w] = grace[w]
        /\ grace'[v] = grace[v] + 1
        /\ Wrote(d, v) /\ UNCHANGED <<hold, mine, winback>>
    BY <1>0, <1>9 DEF Grace, Row
  <2>2. ~request[d].stale => row[v].status \in {"issued", "claimed", "expired"} /\ grace[v] = 0
    BY <1>1, <1>9 DEF Grace, At, Fresh, Open
  <2>3. v \notin raced /\ ~request[d].stale => HeldIsKept(v)' /\ ListedByHolder(v)'
    BY <1>0, <2>1, <2>2 DEF HeldIsKept, ListedByHolder, Held
  <2>. QED  BY <1>0, <2>1, <2>2, <2>3, WriteFresh
<1>10. CASE Expire(d, v)
  <2>1. /\ row'[v].holder = row[v].holder /\ row'[v].status = "expired"
        /\ \A w \in Vouchers : w # v => row'[w] = row[w]
        /\ Wrote(d, v) /\ UNCHANGED <<hold, mine, grace, winback>>
    BY <1>0, <1>10 DEF Expire, Row
  <2>2. ~request[d].stale => Open(v)
    BY <1>1, <1>10 DEF Expire, At, Fresh
  <2>3. v \notin raced /\ ~request[d].stale => HeldIsKept(v)' /\ ListedByHolder(v)'
    BY <1>0, <2>1, <2>2 DEF HeldIsKept, ListedByHolder, Held, Open
  <2>. QED  BY <1>0, <2>1, <2>3, WriteFresh
<1>11. CASE AutoExtend(d, v)
  <2>1. /\ row'[v].holder = row[v].holder /\ row'[v].status = row[v].status
        /\ \A w \in Vouchers : w # v => row'[w] = row[w] /\ grace'[w] = grace[w]
        /\ grace'[v] = grace[v] + 1
        /\ Wrote(d, v) /\ UNCHANGED <<hold, mine, winback>>
    BY <1>0, <1>11 DEF AutoExtend, Row
  <2>2. ~request[d].stale => Open(v) /\ grace[v] = 0
    BY <1>1, <1>11 DEF AutoExtend, At, Fresh
  <2>3. v \notin raced /\ ~request[d].stale => HeldIsKept(v)' /\ ListedByHolder(v)'
    BY <1>0, <2>1, <2>2 DEF HeldIsKept, ListedByHolder, Held
  <2>. QED  BY <1>0, <2>1, <2>2, <2>3, WriteFresh
<1>12. CASE Winback(d, v)
  <2>1. /\ row'[v].holder = row[v].holder /\ row'[v].status = "expired"
        /\ \A w \in Vouchers : w # v => row'[w] = row[w] /\ winback'[w] = winback[w]
        /\ winback'[v] = winback[v] + 1
        /\ Wrote(d, v) /\ UNCHANGED <<hold, mine, grace>>
    BY <1>0, <1>12 DEF Winback, Row
  <2>2. ~request[d].stale => Open(v) /\ winback[v] = 0
    BY <1>1, <1>12 DEF Winback, At, Fresh
  <2>3. v \notin raced /\ ~request[d].stale => HeldIsKept(v)' /\ ListedByHolder(v)'
    BY <1>0, <2>1, <2>2 DEF HeldIsKept, ListedByHolder, Held, Open
  <2>. QED  BY <1>0, <2>1, <2>2, <2>3, WriteFresh
<1>13. CASE ReleaseNothing(d, v)
  <2>1. UNCHANGED <<row, mine, grace, winback, raced>>
    BY <1>13 DEF ReleaseNothing
  <2>2. \A w \in Vouchers : hold'[w] \in {hold[w], NoHold}
    BY <1>0, <1>13 DEF ReleaseNothing
  <2>3. \A e \in Tills : request'[e] \in {request[e], Idle}
    BY <1>13 DEF ReleaseNothing, RaceInv, PayInv, TypeOK
  <2>4. \A e \in Tills : FreshOK(request'[e])
    BY <2>3, IdleFresh DEF RaceInv
  <2>. QED  BY <2>1, <2>2, <2>4, QuietKeeps
<1>. QED  BY <1>2, <1>3, <1>4, <1>5, <1>6, <1>7, <1>8, <1>9, <1>10, <1>11, <1>12, <1>13 DEF Write

\* A new voucher was nobody's, and no request is at a step that takes one for issued.
LEMMA IssueFresh ==
  ASSUME RaceInv, PayInv', NEW v \in Vouchers, NEW u \in Users, NEW kid \in BOOLEAN,
         NEW face \in Faces, NEW max \in MaxUses, NEW life \in Lives,
         Issue(v, u, kid, face, max, life)
  PROVE  RaceInv'
<1>1. /\ row[v].status = "none" /\ row'[v].status = "issued" /\ row'[v].holder = u
      /\ \A w \in Vouchers : w # v => row'[w] = row[w]
      /\ UNCHANGED <<hold, grace, winback, request, raced>>
      /\ \A x \in Users : mine'[x] = IF x = u THEN mine[x] \cup {v} ELSE mine[x]
  BY DEF Issue, RaceInv, PayInv, TypeOK
<1>2. ASSUME NEW d \in Tills PROVE FreshOK(request[d])'
  <2>. SUFFICES ASSUME NEW w \in Vouchers, request[d].v = w, ~request[d].stale
                PROVE  Fresh(request[d], w)'
    BY <1>1 DEF FreshOK
  <2>1. Fresh(request[d], w)
    BY DEF RaceInv, FreshOK
  <2>2. CASE w = v
    BY <1>1, <2>1, <2>2 DEF Fresh, Open
  <2>3. CASE w # v
    BY <1>1, <2>1, <2>3 DEF Fresh, Open
  <2>. QED  BY <2>2, <2>3
<1>3. ASSUME NEW w \in Vouchers \ raced PROVE HeldIsKept(w)' /\ ListedByHolder(w)'
  <2>1. HeldIsKept(w) /\ ListedByHolder(w)
    BY DEF RaceInv, HoldersAgree
  <2>2. CASE w = v
    BY <1>1, <2>1, <2>2 DEF HeldIsKept, ListedByHolder, Held
  <2>3. CASE w # v
    <3>1. ASSUME NEW x \in Users PROVE w \in mine'[x] <=> w \in mine[x]
      <4>1. mine'[x] = IF x = u THEN mine[x] \cup {v} ELSE mine[x]
        BY <1>1
      <4>. QED  BY <2>3, <4>1
    <3>2. row'[w] = row[w] /\ hold'[w] = hold[w]
      BY <1>1, <2>3
    <3>3. HeldIsKept(w)'
      BY <2>1, <3>2 DEF HeldIsKept, Held
    <3>4. ListedByHolder(w)'
      BY <2>1, <3>1, <3>2 DEF ListedByHolder
    <3>. QED  BY <3>3, <3>4
  <2>. QED  BY <2>2, <2>3
<1>4. HoldersAgree' /\ GraceOnce'
  BY <1>1, <1>3 DEF RaceInv, HoldersAgree, GraceOnce
<1>. QED  BY <1>2, <1>4 DEF RaceInv

LEMMA NextFresh == RaceInv /\ [Next]_vars => RaceInv'
<1>. SUFFICES ASSUME RaceInv, [Next]_vars PROVE RaceInv'
  OBVIOUS
<1>0. PayInv'
  BY NextKeeps DEF RaceInv
<1>1. CASE Tick \/ UNCHANGED vars
  <2>1. /\ UNCHANGED <<row, mine, grace, winback, raced, request>>
        /\ \A v \in Vouchers : hold'[v] \in {hold[v], NoHold}
    BY <1>1 DEF Tick, vars
  <2>. QED  BY <1>0, <2>1, QuietKeeps DEF RaceInv
<1>2. ASSUME NEW v \in Vouchers, HoldLapses(v) PROVE RaceInv'
  <2>1. /\ UNCHANGED <<row, mine, grace, winback, raced, request>>
        /\ \A w \in Vouchers : hold'[w] \in {hold[w], NoHold}
    BY <1>2 DEF HoldLapses, RaceInv, PayInv, TypeOK
  <2>. QED  BY <1>0, <2>1, QuietKeeps DEF RaceInv
<1>3. ASSUME NEW v \in Vouchers, NEW u \in Users, NEW kid \in BOOLEAN, NEW face \in Faces,
             NEW max \in MaxUses, NEW life \in Lives, Issue(v, u, kid, face, max, life)
      PROVE  RaceInv'
  BY <1>0, <1>3, IssueFresh
<1>4. ASSUME NEW d \in Tills, NEW v \in Vouchers, Ask(d, v) \/ Read(d, v) \/ Write(d, v)
      PROVE  RaceInv'
  BY <1>0, <1>4, AskFresh, ReadFresh, WriteStepFresh
<1>5. ASSUME NEW d \in Tills, Abandon(d) PROVE RaceInv'
  BY <1>0, <1>5, IdleFresh, BecomeFresh DEF Abandon
<1>. QED  BY <1>1, <1>2, <1>3, <1>4, <1>5 DEF Next

LEMMA FreshInit == Init => RaceInv
<1>. SUFFICES ASSUME Init PROVE RaceInv
  OBVIOUS
<1>1. HoldersAgree /\ GraceOnce
  BY DEF Init, HoldersAgree, GraceOnce, HeldIsKept, ListedByHolder, Held, NoRow, NoHold
<1>2. \A d \in Tills : FreshOK(request[d])
  BY IdleFresh DEF Init
<1>. QED  BY <1>1, <1>2, TypedInit DEF RaceInv

(***************************************************************************)
(* For any vouchers, users and requests: unless a write raced, a           *)
(* reservation stands on a voucher that is reserved or ended, and the list *)
(* of a user shows exactly the vouchers the user holds (_do_issue,         *)
(* reserve_voucher, claim_voucher, transfer_voucher).                      *)
(***************************************************************************)
THEOREM VoucherHoldersAgree == Spec => []HoldersAgree
<1>1. RaceInv => HoldersAgree
  BY DEF RaceInv
<1>. QED  BY FreshInit, NextFresh, <1>1, PTL DEF Spec

(***************************************************************************)
(* And by hand and by worker together it is extended at most once, and wins*)
(* at most one win-back offer (extend_grace, _process_voucher).            *)
(***************************************************************************)
THEOREM VoucherGraceOnce == Spec => []GraceOnce
<1>1. RaceInv => GraceOnce
  BY DEF RaceInv
<1>. QED  BY FreshInit, NextFresh, <1>1, PTL DEF Spec
-----------------------------------------------------------------------------
\* Only extensions of a reservation, ends and empty releases meet a final voucher.
LEMMA FinalStays ==
  ASSUME RaceInv, NEW d \in Tills, NEW v \in Vouchers, Write(d, v),
         v \notin raced', row[v].status \in Final
  PROVE  row'[v].status \in Final /\ paid'[v] = paid[v]
<1>0. /\ row \in [Vouchers -> Row] /\ RequestOK(request[d])
      /\ ~request[d].stale /\ request[d].v = v => Fresh(request[d], v)
  BY DEF RaceInv, PayInv, TypeOK, FreshOK
<1>1. Wrote(d, v) => ~request[d].stale
  BY DEF Wrote
<1>2. CASE End(d, v)
  BY <1>0, <1>2 DEF End, At, RequestOK, Row
<1>3. CASE ReleaseNothing(d, v) \/ Extend(d, v)
  BY <1>3 DEF ReleaseNothing, Extend
<1>4. CASE Redeem(d, v) \/ Transfer(d, v) \/ Reserve(d, v)
  BY <1>0, <1>4 DEF Redeem, Transfer, Reserve, At, Fresh, Open
<1>5. ASSUME NEW kid \in Users, Claim(d, v, kid) PROVE FALSE
  BY <1>0, <1>1, <1>5 DEF Claim, At, Fresh
<1>6. CASE Release(d, v) \/ Lapse(d, v)
  BY <1>0, <1>1, <1>6 DEF Release, Lapse, At, Fresh
<1>7. CASE Grace(d, v) \/ Expire(d, v) \/ AutoExtend(d, v) \/ Winback(d, v)
  BY <1>0, <1>1, <1>7 DEF Grace, Expire, AutoExtend, Winback, At, Fresh, Open
<1>. QED  BY <1>2, <1>3, <1>4, <1>5, <1>6, <1>7 DEF Write

\* A write of one voucher is no business of another.
LEMMA OthersStay ==
  ASSUME RaceInv, NEW d \in Tills, NEW v \in Vouchers, Write(d, v),
         NEW w \in Vouchers, w # v
  PROVE  row'[w] = row[w] /\ paid'[w] = paid[w]
<1>. USE DEF RaceInv, PayInv, TypeOK
<1>1. CASE Redeem(d, v)
  BY <1>1 DEF Redeem, WriteRedemption
<1>2. CASE Transfer(d, v) \/ Reserve(d, v) \/ Extend(d, v) \/ Release(d, v) \/ ReleaseNothing(d, v)
  BY <1>2 DEF Transfer, Reserve, Extend, Release, ReleaseNothing
<1>3. ASSUME NEW kid \in Users, Claim(d, v, kid) PROVE row'[w] = row[w] /\ paid'[w] = paid[w]
  BY <1>3 DEF Claim
<1>4. CASE End(d, v) \/ Grace(d, v) \/ Lapse(d, v) \/ Expire(d, v)
  BY <1>4 DEF End, Grace, Lapse, Expire
<1>5. CASE AutoExtend(d, v) \/ Winback(d, v)
  BY <1>5 DEF AutoExtend, Winback
<1>. QED  BY <1>1, <1>2, <1>3, <1>4, <1>5 DEF Write

LEMMA NextFinal ==
  ASSUME RaceInv, [Next]_vars, NEW w \in Vouchers \ raced', row[w].status \in Final
  PROVE  row'[w].status \in Final /\ paid'[w] = paid[w]
<1>1. ASSUME NEW d \in Tills, NEW v \in Vouchers, Write(d, v)
      PROVE  row'[w].status \in Final /\ paid'[w] = paid[w]
  BY <1>1, FinalStays, OthersStay
<1>2. ASSUME NEW d \in Tills, NEW v \in Vouchers, Ask(d, v) \/ Read(d, v)
      PROVE  row' = row /\ paid' = paid
  BY <1>2 DEF Ask, AskRedeem, AskTransfer, AskReserve, AskHeld, AskEnd, AskGrace, Begin, Become,
              Read, Retry, ClaimRead, ReleaseRead, GraceFlag, LapseLook, AutoFlag, WinbackFlag,
              SweepHold, SweepExpired, SweepLifecycle, Goto
<1>3. ASSUME NEW v \in Vouchers, NEW u \in Users, NEW kid \in BOOLEAN, NEW face \in Faces,
             NEW max \in MaxUses, NEW life \in Lives, Issue(v, u, kid, face, max, life)
      PROVE  row'[w] = row[w] /\ paid'[w] = paid[w]
  BY <1>3 DEF Issue, RaceInv, PayInv, TypeOK
<1>. QED  BY <1>1, <1>2, <1>3 DEF Next, Tick, HoldLapses, Abandon, Become, vars

(***************************************************************************)
(* A voucher redeemed, voided or cancelled stays so and pays nothing more, *)
(* whatever sweeps and requests were under way, unless a write raced: the  *)
(* action property the run checks, for every size.                         *)
(***************************************************************************)
THEOREM VoucherEndIsFinal == Spec => EndIsFinal
<1>1. RaceInv /\ [Next]_vars
        => [\A v \in Vouchers \ raced' :
               row[v].status \in Final => row'[v].status \in Final /\ paid'[v] = paid[v]]_vars
  BY NextFinal
<1>. QED  BY FreshInit, NextFresh, <1>1, PTL DEF Spec, EndIsFinal
=============================================================================
