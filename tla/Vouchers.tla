------------------------------ MODULE Vouchers ------------------------------
(***************************************************************************)
(* The life of a cross-store voucher (app/routers/vouchers.py) and the     *)
(* hourly worker that extends or ends it                                   *)
(* (app/workers/voucher_lifecycle_worker.py). Redeem, transfer and reserve *)
(* WATCH the voucher's hash and start over when somebody has written it    *)
(* since; every other operation reads the hash, decides, and writes its    *)
(* fields back without looking again. The reservation of a voucher is a    *)
(* key of its own that Redis drops when its time is up. The hash's own     *)
(* expiry, thirty days after the voucher's, lies beyond the modelled time. *)
(***************************************************************************)
EXTENDS Integers

CONSTANTS Vouchers, Users,
          Tills,        \* bound: requests and worker passes running at once
          Faces,        \* value_cents
          MaxUses,
          Orders,       \* order_amount_cents
          Lives,        \* time to expiry given at issue, 0 for none
          HoldTtl,      \* ttl_seconds of a reservation
          GraceHours,   \* grace_hours of /extend-grace
          AutoGrace,    \* TIER_CADENCE: the worker's grace for the face values it looks at
          Attempts,     \* tries of a WATCH loop
          LastTime,     \* bound: when the clock stops
          Nobody

ASSUME VouchersAssumption ==
    /\ {HoldTtl, GraceHours, Attempts} \subseteq Nat \ {0}
    /\ Faces \cup Orders \cup MaxUses \subseteq Nat \ {0}
    /\ Lives \subseteq Nat
    /\ \E tiered \in SUBSET Faces : AutoGrace \in [tiered -> Nat]
    /\ LastTime \in Nat
    /\ Nobody \notin Users \cup Vouchers

VARIABLES now,
          row,       \* voucher:{vid}
          hold,      \* voucher:{vid}:reservation
          mine,      \* user:{uid}:vouchers
          grace,     \* extensions given; voucher:{vid}:grace_applied says whether any was
          winback,   \* win-back offers made; voucher:{vid}:winback_offered likewise
          paid,      \* voucher:{vid}:redemption_history: its redemptions and their value
          request,
          raced      \* history: vouchers written on an out-of-date reading

vars == <<now, row, hold, mine, grace, winback, paid, request, raced>>

Final    == {"redeemed", "void", "cancelled"}
Statuses == {"none", "issued", "reserved", "claimed", "expired"} \cup Final
Row == [status : Statuses, holder : Users \cup {Nobody}, kid : BOOLEAN, face : Nat, left : Nat,
        uses : Nat, max : Nat, until : Nat]
NoRow == [status |-> "none", holder |-> Nobody, kid |-> FALSE, face |-> 0, left |-> 0,
          uses |-> 0, max |-> 0, until |-> 0]
Hold   == [by : Users \cup {Nobody}, until : Nat]
NoHold == [by |-> Nobody, until |-> 0]

\* A pc names the next step; those of Watched re-read when v has been written.
Watched == {"redeem", "transfer", "reserve", "extend"}
Blind   == {"claim_read", "claim", "release_read", "release", "discard", "end", "grace_flag", "grace",
            "lapse_look", "lapse", "expire", "auto_flag", "auto_grace", "winback_flag", "winback"}
Request == [pc : Watched \cup Blind \cup {"idle"}, v : Vouchers \cup {Nobody},
            who : Users \cup {Nobody}, to : Users \cup Final \cup {Nobody}, amount : Nat,
            tries : Nat, since : Nat, seen : Row, stale : BOOLEAN]

TypeOK == /\ now \in Nat
          /\ row \in [Vouchers -> Row]
          /\ hold \in [Vouchers -> Hold]
          /\ mine \in [Users -> SUBSET Vouchers]
          /\ grace \in [Vouchers -> Nat]
          /\ winback \in [Vouchers -> Nat]
          /\ paid \in [Vouchers -> [times : Nat, value : Nat]]
          /\ request \in [Tills -> Request]
          /\ raced \subseteq Vouchers

Idle == [pc |-> "idle", v |-> Nobody, who |-> Nobody, to |-> Nobody, amount |-> 0,
         tries |-> 1, since |-> 0, seen |-> NoRow, stale |-> FALSE]

Init == /\ now = 0
        /\ row = [v \in Vouchers |-> NoRow]
        /\ hold = [v \in Vouchers |-> NoHold]
        /\ mine = [u \in Users |-> {}]
        /\ grace = [v \in Vouchers |-> 0]
        /\ winback = [v \in Vouchers |-> 0]
        /\ paid = [v \in Vouchers |-> [times |-> 0, value |-> 0]]
        /\ request = [d \in Tills |-> Idle]
        /\ raced = {}
-----------------------------------------------------------------------------
At(d, pc, v) == request[d].pc = pc /\ request[d].v = v
Become(d, r) == /\ request' = [request EXCEPT ![d] = r]
                /\ UNCHANGED <<now, row, hold, mine, grace, winback, paid, raced>>
Begin(d, r)  == request[d].pc = "idle" /\ Become(d, r)
Goto(d, pc)  == Become(d, [request[d] EXCEPT !.pc = pc])

\* d has written v's hash: whoever read it before is out of date.
Wrote(d, v) ==
    /\ request' = [e \in Tills |->
           IF e = d THEN Idle
           ELSE IF request[e].v = v THEN [request[e] EXCEPT !.stale = TRUE] ELSE request[e]]
    /\ raced' = IF request[d].stale THEN raced \cup {v} ELSE raced

Expired(v, t) == row[v].until # 0 /\ row[v].until <= t
Open(v)       == row[v].status \in {"issued", "claimed"}
Held(v)       == hold[v].until # 0

\* _do_issue, for a registered user or for an anonymous device.
Issue(v, u, kid, face, max, life) ==
    /\ row[v].status = "none"
    /\ row' = [row EXCEPT ![v] = [status |-> "issued", holder |-> u, kid |-> kid, face |-> face,
                                  left |-> face, uses |-> 0, max |-> max,
                                  until |-> IF life = 0 THEN 0 ELSE now + life]]
    /\ mine' = [mine EXCEPT ![u] = @ \cup {v}]
    /\ UNCHANGED <<now, hold, grace, winback, paid, request, raced>>
-----------------------------------------------------------------------------
(***************************************************************************)
(* Under WATCH: redeem, transfer, reserve. Each looks at the voucher, asks *)
(* other keys about network, conditions and template, and executes.        *)
(***************************************************************************)
Redeemable(v)         == Open(v) /\ ~Expired(v, now) /\ row[v].uses < row[v].max
Transferable(v, from) == Open(v) /\ ~Expired(v, now) /\ row[v].holder = from

AskRedeem(d, v, order) ==
    /\ Redeemable(v)
    /\ Begin(d, [Idle EXCEPT !.pc = "redeem", !.v = v, !.amount = order,
                       !.seen = row[v]])

\* Written from what was read. The rest of a partly used voucher is "issued"
\* again, claimed or not.
Applied(d) == IF request[d].amount < request[d].seen.left THEN request[d].amount
              ELSE request[d].seen.left
WriteRedemption(d, v) ==
    LET left == request[d].seen.left - Applied(d)
        uses == request[d].seen.uses + 1
    IN  /\ row' = [row EXCEPT ![v].left = left, ![v].uses = uses, ![v].status =
                       IF uses >= request[d].seen.max \/ left = 0 THEN "redeemed" ELSE "issued"]
        /\ paid' = [paid EXCEPT ![v] = [times |-> @.times + 1, value |-> @.value + Applied(d)]]
        /\ Wrote(d, v)
        /\ UNCHANGED <<now, hold, mine, grace, winback>>

\* Mutant: the watch is forgotten.
RedeemUnwatched(d, v) == At(d, "redeem", v) /\ WriteRedemption(d, v)
Redeem(d, v) == At(d, "redeem", v) /\ ~request[d].stale /\ WriteRedemption(d, v)

AskTransfer(d, v, from, to) ==
    /\ from # to /\ Transferable(v, from)
    /\ Begin(d, [Idle EXCEPT !.pc = "transfer", !.v = v, !.who = from, !.to = to])

Transfer(d, v) ==
    LET from == request[d].who
        to   == request[d].to
    IN  /\ At(d, "transfer", v) /\ ~request[d].stale
        /\ row' = [row EXCEPT ![v].holder = to]
        /\ mine' = [u \in Users |-> IF u = to THEN mine[u] \cup {v}
                                    ELSE IF u = from THEN mine[u] \ {v} ELSE mine[u]]
        /\ Wrote(d, v)
        /\ UNCHANGED <<now, hold, grace, winback, paid>>

\* The holder of the reservation gets more time, anybody a free voucher.
ReserveStep(v, who) == IF row[v].status = "issued" THEN "reserve"
                       ELSE IF row[v].status = "reserved" /\ Held(v) /\ hold[v].by = who THEN "extend"
                       ELSE "idle"
AskReserve(d, v, who) ==
    /\ ReserveStep(v, who) # "idle"
    /\ Begin(d, [Idle EXCEPT !.pc = ReserveStep(v, who), !.v = v, !.who = who])

Reserve(d, v) ==
    /\ At(d, "reserve", v) /\ ~request[d].stale
    /\ row' = [row EXCEPT ![v].status = "reserved"]
    /\ hold' = [hold EXCEPT ![v] = [by |-> request[d].who, until |-> now + HoldTtl]]
    /\ Wrote(d, v)
    /\ UNCHANGED <<now, mine, grace, winback, paid>>

\* The key may have gone since it was read; HSET then makes one without an owner.
Extend(d, v) ==
    /\ At(d, "extend", v) /\ ~request[d].stale
    /\ hold' = [hold EXCEPT ![v].until = now + HoldTtl]
    /\ Wrote(d, v)
    /\ UNCHANGED <<now, row, mine, grace, winback, paid>>

\* EXEC refused: read again, and go on if the voucher still admits it.
Again(d, v) ==
    LET q == request[d]
    IN  CASE q.pc = "redeem"   -> IF Redeemable(v) THEN q.pc ELSE "idle"
          [] q.pc = "transfer" -> IF Transferable(v, q.who) THEN q.pc ELSE "idle"
          [] OTHER             -> ReserveStep(v, q.who)
Retry(d, v) ==
    /\ request[d].v = v /\ request[d].pc \in Watched /\ request[d].stale
    /\ Become(d, IF Again(d, v) = "idle" \/ request[d].tries = Attempts THEN Idle
                 ELSE [request[d] EXCEPT !.pc = Again(d, v), !.tries = @ + 1, !.stale = FALSE,
                                         !.seen = IF @.status = "none" THEN @ ELSE row[v]])
-----------------------------------------------------------------------------
(***************************************************************************)
(* Claim and release read the reservation, then the voucher, then write.   *)
(***************************************************************************)
AskHeld(d, v, who, pc) ==
    /\ Held(v) /\ hold[v].by = who
    /\ Begin(d, [Idle EXCEPT !.pc = pc, !.v = v, !.who = who])

ClaimRead(d, v) ==
    /\ At(d, "claim_read", v) /\ row[v].status = "reserved"
    /\ Become(d, [request[d] EXCEPT !.pc = "claim", !.seen = row[v]])

\* Mutant: the voucher stays on the list of the one who held it.
ClaimKeepsListing(d, v, kid) ==
    /\ At(d, "claim", v)
    /\ row' = [row EXCEPT ![v].status = "claimed", ![v].holder = kid, ![v].kid = TRUE]
    /\ mine' = [mine EXCEPT ![kid] = @ \cup {v}]
    /\ hold' = [hold EXCEPT ![v] = NoHold]
    /\ Wrote(d, v)
    /\ UNCHANGED <<now, grace, winback, paid>>
\* The kid may be the one who reserved, or one a phone number leads to.
Claim(d, v, kid) ==
    /\ At(d, "claim", v)
    /\ row' = [row EXCEPT ![v].status = "claimed", ![v].holder = kid, ![v].kid = TRUE]
    /\ mine' = [u \in Users |-> IF u = kid THEN mine[u] \cup {v}
                                ELSE IF u = request[d].seen.holder THEN mine[u] \ {v} ELSE mine[u]]
    /\ hold' = [hold EXCEPT ![v] = NoHold]
    /\ Wrote(d, v)
    /\ UNCHANGED <<now, grace, winback, paid>>

ReleaseRead(d, v) ==
    /\ At(d, "release_read", v)
    /\ Goto(d, IF row[v].status = "reserved" THEN "release" ELSE "discard")

\* Not reserved any more when it was read: only the reservation goes, whoever's it is by now.
ReleaseNothing(d, v) ==
    /\ At(d, "discard", v)
    /\ hold' = [hold EXCEPT ![v] = NoHold]
    /\ request' = [request EXCEPT ![d] = Idle]
    /\ UNCHANGED <<now, row, mine, grace, winback, paid, raced>>

\* Mutant: the reservation is left to its expiry.
ReleaseStatusOnly(d, v) ==
    /\ At(d, "release", v)
    /\ row' = [row EXCEPT ![v].status = "issued"]
    /\ Wrote(d, v)
    /\ UNCHANGED <<now, hold, mine, grace, winback, paid>>

Release(d, v) ==
    /\ At(d, "release", v)
    /\ row' = [row EXCEPT ![v].status = "issued"]
    /\ hold' = [hold EXCEPT ![v] = NoHold]
    /\ Wrote(d, v)
    /\ UNCHANGED <<now, mine, grace, winback, paid>>

\* Redis drops a reservation whose time is up; the voucher stays "reserved".
HoldLapses(v) ==
    /\ Held(v) /\ hold[v].until <= now
    /\ hold' = [hold EXCEPT ![v] = NoHold]
    /\ UNCHANGED <<now, row, mine, grace, winback, paid, request, raced>>
-----------------------------------------------------------------------------
(***************************************************************************)
(* /void, and /cancel and /bulk-cancel through _do_cancel.                 *)
(***************************************************************************)
Endable(v, to) == row[v].status \notin {"none", "redeemed", "void", "expired"}
                      \cup (IF to = "cancelled" THEN {"cancelled"} ELSE {})
AskEnd(d, v, to) ==
    /\ Endable(v, to)
    /\ Begin(d, [Idle EXCEPT !.pc = "end", !.v = v, !.to = to])

End(d, v) ==
    /\ At(d, "end", v)
    /\ row' = [row EXCEPT ![v].status = request[d].to]
    /\ Wrote(d, v)
    /\ UNCHANGED <<now, hold, mine, grace, winback, paid>>

(***************************************************************************)
(* /extend-grace: the voucher, then the flag, then one pipeline.           *)
(***************************************************************************)
\* Mutant: whatever has not run out of its time may be extended.
AskGraceAny(d, v) ==
    /\ row[v].status # "none"
    /\ Begin(d, [Idle EXCEPT !.pc = "grace_flag", !.v = v, !.seen = row[v]])

AskGrace(d, v) ==
    /\ Open(v) \/ row[v].status = "expired"
    /\ Begin(d, [Idle EXCEPT !.pc = "grace_flag", !.v = v, !.seen = row[v]])

\* Mutant: the flag is not asked for.
GraceFlagless(d, v) ==
    /\ At(d, "grace_flag", v) /\ request[d].seen.until # 0
    /\ Goto(d, "grace")

GraceFlag(d, v) ==
    /\ At(d, "grace_flag", v) /\ grace[v] = 0 /\ request[d].seen.until # 0
    /\ Goto(d, "grace")

Later(s, t) == IF s > t THEN s ELSE t
Grace(d, v) ==
    /\ At(d, "grace", v)
    /\ row' = [row EXCEPT ![v].status = "issued",
                          ![v].until = Later(request[d].seen.until, now) + GraceHours]
    /\ grace' = [grace EXCEPT ![v] = @ + 1]
    /\ Wrote(d, v)
    /\ UNCHANGED <<now, hold, mine, winback, paid>>
-----------------------------------------------------------------------------
(***************************************************************************)
(* The sweeps read the clock once, and then visit every voucher that SCAN  *)
(* returns, in any order and perhaps more than once: the clock of a visit  *)
(* may be any number of ticks behind.                                      *)
(***************************************************************************)
\* /admin/cleanup-expired-reservations
SweepHold(d, v, since) ==
    /\ row[v].status = "reserved" /\ since <= now
    /\ Begin(d, [Idle EXCEPT !.pc = "lapse_look", !.v = v, !.since = since])

LapseLook(d, v) ==
    /\ At(d, "lapse_look", v) /\ hold[v].until <= request[d].since
    /\ Goto(d, "lapse")

Lapse(d, v) ==
    /\ At(d, "lapse", v)
    /\ row' = [row EXCEPT ![v].status = "issued"]
    /\ hold' = [hold EXCEPT ![v] = NoHold]
    /\ Wrote(d, v)
    /\ UNCHANGED <<now, mine, grace, winback, paid>>

\* /admin/cleanup-expired
SweepExpired(d, v, since) ==
    /\ Open(v) /\ Expired(v, since) /\ since <= now
    /\ Begin(d, [Idle EXCEPT !.pc = "expire", !.v = v])

Expire(d, v) ==
    /\ At(d, "expire", v)
    /\ row' = [row EXCEPT ![v].status = "expired"]
    /\ Wrote(d, v)
    /\ UNCHANGED <<now, hold, mine, grace, winback, paid>>

\* _process_voucher, past the expiry of a registered user's voucher. The time
\* since then decides whether it may still be extended.
SweepLifecycle(d, v, since) ==
    LET extra == AutoGrace[row[v].face]
    IN  /\ Open(v) /\ Expired(v, since) /\ since <= now
        /\ row[v].kid /\ row[v].face \in DOMAIN AutoGrace
        /\ Begin(d, [Idle EXCEPT !.v = v, !.seen = row[v], !.pc =
                         IF extra > 0 /\ since - row[v].until <= extra
                         THEN "auto_flag" ELSE "winback_flag"])

\* Quiet hours put the extension off to a later pass (Abandon).
AutoFlag(d, v) ==
    /\ At(d, "auto_flag", v)
    /\ Goto(d, IF grace[v] = 0 THEN "auto_grace" ELSE "winback_flag")

AutoExtend(d, v) ==
    /\ At(d, "auto_grace", v)
    /\ row' = [row EXCEPT ![v].until = request[d].seen.until + AutoGrace[request[d].seen.face]]
    /\ grace' = [grace EXCEPT ![v] = @ + 1]
    /\ Wrote(d, v)
    /\ UNCHANGED <<now, hold, mine, winback, paid>>

WinbackFlag(d, v) ==
    /\ At(d, "winback_flag", v) /\ winback[v] = 0
    /\ Goto(d, "winback")

Winback(d, v) ==
    /\ At(d, "winback", v)
    /\ row' = [row EXCEPT ![v].status = "expired"]
    /\ winback' = [winback EXCEPT ![v] = @ + 1]
    /\ Wrote(d, v)
    /\ UNCHANGED <<now, hold, mine, grace, paid>>
-----------------------------------------------------------------------------
\* A request is refused by what it reads, put off by quiet hours, or its process dies.
Abandon(d) == request[d].pc # "idle" /\ Become(d, Idle)

Tick == now < LastTime /\ now' = now + 1
        /\ UNCHANGED <<row, hold, mine, grace, winback, paid, request, raced>>

Ask(d, v) == \/ \E order \in Orders : AskRedeem(d, v, order)
             \/ \E from, to \in Users : AskTransfer(d, v, from, to)
             \/ \E who \in Users : \/ AskReserve(d, v, who)
                                   \/ AskHeld(d, v, who, "claim_read")
                                   \/ AskHeld(d, v, who, "release_read")
             \/ \E to \in {"void", "cancelled"} : AskEnd(d, v, to)
             \/ AskGrace(d, v)
Read(d, v) == \/ Retry(d, v)
              \/ ClaimRead(d, v) \/ ReleaseRead(d, v) \/ GraceFlag(d, v)
              \/ LapseLook(d, v) \/ AutoFlag(d, v) \/ WinbackFlag(d, v)
              \/ \E since \in 0..LastTime : \/ SweepHold(d, v, since)
                                           \/ SweepExpired(d, v, since)
                                           \/ SweepLifecycle(d, v, since)
Write(d, v) == \/ Redeem(d, v) \/ Transfer(d, v) \/ Reserve(d, v) \/ Extend(d, v)
               \/ \E kid \in Users : Claim(d, v, kid)
               \/ ReleaseNothing(d, v) \/ Release(d, v)
               \/ End(d, v) \/ Grace(d, v)
               \/ Lapse(d, v) \/ Expire(d, v) \/ AutoExtend(d, v) \/ Winback(d, v)
Next == \/ Tick
        \/ \E v \in Vouchers :
             \/ HoldLapses(v)
             \/ \E u \in Users, kid \in BOOLEAN, face \in Faces, max \in MaxUses, life \in Lives :
                    Issue(v, u, kid, face, max, life)
             \/ \E d \in Tills : Ask(d, v) \/ Read(d, v) \/ Write(d, v)
        \/ \E d \in Tills : Abandon(d)

Spec == Init /\ [][Next]_vars
-----------------------------------------------------------------------------
(***************************************************************************)
(* However requests and sweeps overtake each other, even those that write  *)
(* without looking again, the redemptions of a voucher never exceed its    *)
(* face value or its number of uses: what is left and the uses are written *)
(* under WATCH only.                                                       *)
(***************************************************************************)
PaidOutOnce == \A v \in Vouchers :
                  /\ paid[v].value + row[v].left = row[v].face
                  /\ paid[v].times = row[v].uses /\ row[v].uses <= row[v].max

(***************************************************************************)
(* A reservation somebody can still claim stands on a voucher nobody else  *)
(* can redeem, transfer or extend: it is reserved, or ended for good. And a*)
(* user's list shows the vouchers the user holds and no others. Both hold  *)
(* unless a write raced.                                                   *)
(***************************************************************************)
HeldIsKept(v) == Held(v) => row[v].status \in {"reserved", "void", "cancelled"}
ListedByHolder(v) ==
    \A u \in Users : v \in mine[u] <=> row[v].status # "none" /\ row[v].holder = u

HoldersAgree == \A v \in Vouchers \ raced : HeldIsKept(v) /\ ListedByHolder(v)

(***************************************************************************)
(* A voucher is extended at most once, by the worker or by hand, and wins  *)
(* its holder at most one win-back offer, unless a write raced.            *)
(***************************************************************************)
GraceOnce == \A v \in Vouchers \ raced : grace[v] <= 1 /\ winback[v] <= 1

(***************************************************************************)
(* A redeemed, voided or cancelled voucher is not used again, unless a     *)
(* write raced: no sweep, extension or lapsed reservation brings it back.  *)
(***************************************************************************)
EndIsFinal == [][\A v \in Vouchers \ raced' :
                    row[v].status \in Final => row'[v].status \in Final /\ paid'[v] = paid[v]]_vars
=============================================================================
