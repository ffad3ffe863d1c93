---------------------------- MODULE Reservations ----------------------------
(***************************************************************************)
(* The bookings of one resource of one brand and the series some of them   *)
(* belong to (app/routers/reservations.py). A handler reads the hash of a  *)
(* booking, decides, and writes it back in one pipeline (MULTI/EXEC) that  *)
(* also moves the sorted-set calendars and the brand's counters; nothing   *)
(* ties the write to the read. Another handler may act in between, and the *)
(* process may die between any two steps.                                  *)
(***************************************************************************)
EXTENDS Integers, FiniteSets, FiniteSetsExt

CONSTANTS MaxBookings,    \* bound: reservations made
          Desks,          \* bound: the requests made, all of them perhaps at once
          LastTime,       \* bound: when a behaviour stops
          HalfHour,       \* 1800 s: how far back a conflict is looked for
          Durations,      \* lengths a client books
          Grace,          \* check_in_grace_minutes
          Cutoff,         \* cutoff_seconds of the no-show scan
          FreeBefore,     \* free_before_hours of the cancellation policy
          GeoWindow,      \* window_seconds of the geofence check-in
          SeriesLength, Cadence,
          Rewards,        \* the brand's "issue_voucher" triggers, by the event they answer
          NotListed

Cancelled == {"cancelled_by_user", "cancelled_by_brand", "cancelled_with_penalty"}
Outcomes  == Cancelled \cup {"honored", "no_show"}
Events    == {"created", "confirmed", "rescheduled"} \cup Outcomes

ASSUME ReservationsAssumption ==
    /\ Rewards \in [Events -> Nat]
    /\ MaxBookings \in Nat
    /\ {HalfHour, Grace, Cutoff, FreeBefore, GeoWindow, Cadence, LastTime} \subseteq Nat
    /\ SeriesLength \in Nat \ {0}
    /\ Durations \subseteq Nat \ {0}
    /\ NotListed \notin Nat

VARIABLES now,
          row,        \* reservation:{rid}
          listed,     \* brand:{b}:reservations:by_resource:{res}; the other calendars move with it
          total,      \* brand:{b}:reservation_stats
          vouchers,   \* vouchers issued for each booking, by what issued them
          series,     \* reservation_series:{sid} and its list of bookings
          request,    \* where each running request is
          raced       \* history: bookings written by a request whose reading was out of date

bookVars == <<row, listed, total>>
vars == <<now, bookVars, vouchers, series, request, raced>>

\* The k-th reservation made stands for its uuid4.
Bookings  == 1..MaxBookings

\* "made" is how the booking got its slot: through a /create that has seen all
\* there is, through one that was overtaken or could not read, by a series, or
\* by a move.
Row == [status : Outcomes \cup {"none", "confirmed"}, at : Nat, dur : Nat,
        made : {"desk", "unseen", "series", "moved"}]
NoRow == [status |-> "none", at |-> 0, dur |-> 0, made |-> "desk"]

Steps == {"idle", "look", "honor", "cancel", "move", "scan", "absent", "recover",
          "series", "push", "drop", "drop_one", "shift", "shift_one", "emit", "done"}
\* "loop" is the step a request goes on with once its event is published; "to"
\* is the outcome it is to write and the event it is to publish; "stale" says
\* that what it has read is out of date, or was not read at all.
Request == [pc : Steps, loop : Steps, b : 0..MaxBookings, at : Nat, dur : Nat,
            to : Events, since : Nat, left : SUBSET Nat, stale : BOOLEAN]
Idle == [pc |-> "idle", loop |-> "idle", b |-> 0, at |-> 0, dur |-> 0,
         to |-> "honored", since |-> 0, left |-> {}, stale |-> FALSE]

Counters == Events \ {"created"}

\* The event's name hides the penalty. A voucher comes from the no-show scan's
\* own recovery, or from a trigger of the event.
Published(to) == IF to = "cancelled_with_penalty" THEN "cancelled_by_user" ELSE to
Sources == {"recovery"} \cup Events

TypeOK == /\ now \in 0..LastTime
          /\ row \in [Bookings -> Row]
          /\ listed \in [Bookings -> Nat \cup {NotListed}]
          /\ total \in [Counters -> Nat]
          /\ vouchers \in [Bookings \X Sources -> Nat]
          /\ series \in [status : {"none", "active", "cancelled"}, members : SUBSET Bookings,
                         since : Nat]
          /\ request \in [Desks -> Request]
          /\ raced \subseteq Bookings

Init == /\ now = 0
        /\ row = [b \in Bookings |-> NoRow]
        /\ listed = [b \in Bookings |-> NotListed]
        /\ total = [c \in Counters |-> 0]
        /\ vouchers = [i \in Bookings \X Sources |-> 0]
        /\ series = [status |-> "none", members |-> {}, since |-> 0]
        /\ request = [d \in Desks |-> Idle]
        /\ raced = {}
-----------------------------------------------------------------------------
New(b)       == row[b].status = "none" /\ \A c \in 1..(b - 1) : row[c].status # "none"
Confirmed(b) == row[b].status = "confirmed"
At(d, pc)    == request[d].pc = pc
Goto(d, pc)  == request' = [request EXCEPT ![d].pc = pc]
Begin(d, r)  == At(d, "idle") /\ request' = [request EXCEPT ![d] = r]
Done         == [Idle EXCEPT !.pc = "done"]
Finish(d)    == request' = [request EXCEPT ![d] = Done]

(***************************************************************************)
(* What a write does to the other requests: those that have read booking b *)
(* and not yet written it are out of date, and so are the conflict checks  *)
(* under way when a slot is taken.                                         *)
(***************************************************************************)
Writing(e)     == request[e].pc \in {"honor", "cancel", "move", "absent", "drop_one", "shift_one"}
Overtaken(e, b) == Writing(e) /\ request[e].b = b
AfterWrite(d, b, next, takesSlot) ==
    request' = [e \in Desks |->
        IF e = d THEN IF request[d].loop = "idle" THEN [Idle EXCEPT !.pc = next, !.b = b, !.to = request[d].to]
                      ELSE [request[d] EXCEPT !.pc = next, !.b = b, !.stale = FALSE]
        ELSE IF Overtaken(e, b) \/ (takesSlot /\ At(e, "look"))
        THEN [request[e] EXCEPT !.stale = TRUE] ELSE request[e]]
NoteRace(d) == raced' = IF request[d].stale THEN raced \cup {request[d].b} ELSE raced
Count(c)    == total' = [total EXCEPT ![c] = @ + 1]

\* An outcome is written: status, calendars and counter in one pipeline.
Settle(d, outcome, next) ==
    LET b == request[d].b IN
    /\ row' = [row EXCEPT ![b].status = outcome]
    /\ listed' = IF outcome = "honored" THEN listed ELSE [listed EXCEPT ![b] = NotListed]
    /\ Count(outcome)
    /\ AfterWrite(d, b, next, FALSE)
    /\ NoteRace(d)

\* A new time is written, whatever the status was: the booking is confirmed again.
Reslot(d, at, next) ==
    LET b == request[d].b IN
    /\ row' = [row EXCEPT ![b].status = "confirmed", ![b].at = at, ![b].made = "moved"]
    /\ listed' = [listed EXCEPT ![b] = at]
    /\ Count("rescheduled")
    /\ AfterWrite(d, b, next, TRUE)
    /\ NoteRace(d)

\* A fresh booking is written.
Enter(d, b, at, dur, made, next) ==
    /\ New(b)
    /\ row' = [row EXCEPT ![b] = [status |-> "confirmed", at |-> at, dur |-> dur, made |-> made]]
    /\ listed' = [listed EXCEPT ![b] = at]
    /\ Count("confirmed")
    /\ AfterWrite(d, b, next, TRUE)
-----------------------------------------------------------------------------
(***************************************************************************)
(* /create: the calendar is read for starts from half an hour before to    *)
(* the end of the slot, then the rows found there one by one. A calendar   *)
(* that cannot be read is taken for empty, a row that cannot be read for   *)
(* one that is not in the way.                                             *)
(***************************************************************************)
\* Mutant: only starts inside the new slot are looked for.
InTheWayAhead(at, dur) ==
    {c \in Bookings : listed[c] # NotListed /\ at <= listed[c] /\ listed[c] <= at + dur}
InTheWay(at, dur) ==
    {c \in Bookings : listed[c] # NotListed /\ at - HalfHour <= listed[c] /\ listed[c] <= at + dur}

AskBook(d, at, dur) ==
    /\ at > now
    /\ \E unread \in BOOLEAN :
         Begin(d, [Idle EXCEPT !.pc = "look", !.to = "created", !.at = at, !.dur = dur,
                               !.left = IF unread THEN {} ELSE InTheWay(at, dur),
                               !.stale = unread])
    /\ UNCHANGED <<now, bookVars, vouchers, series, raced>>

LookAt(d, c) ==
    /\ At(d, "look") /\ c \in request[d].left
    /\ \/ Confirmed(c) /\ Finish(d)
       \/ ~Confirmed(c) /\ request' = [request EXCEPT ![d].left = @ \ {c}]
       \/ request' = [request EXCEPT ![d].left = @ \ {c}, ![d].stale = TRUE]
    /\ UNCHANGED <<now, bookVars, vouchers, series, raced>>

Book(d, b) ==
    /\ At(d, "look") /\ request[d].left = {}
    /\ Enter(d, b, request[d].at, request[d].dur,
             IF request[d].stale THEN "unseen" ELSE "desk", "emit")
    /\ UNCHANGED <<now, vouchers, series, raced>>

(***************************************************************************)
(* /{rid}/check-in, and the geofence's maybe_auto_check_in, which finds    *)
(* the booking in the user's calendar first.                               *)
(***************************************************************************)
InGrace(b) == row[b].at - Grace <= now /\ now <= row[b].at + Grace

AskCheckIn(d, b) ==
    /\ Confirmed(b) /\ InGrace(b)
    /\ Begin(d, [Idle EXCEPT !.pc = "honor", !.b = b, !.to = "honored"])
    /\ UNCHANGED <<now, bookVars, vouchers, series, raced>>

AutoCheckIn(d, b) ==
    /\ listed[b] # NotListed /\ now - Grace <= listed[b] /\ listed[b] <= now + GeoWindow
    /\ AskCheckIn(d, b)

CheckIn(d) ==
    /\ At(d, "honor")
    /\ Settle(d, "honored", "emit")
    /\ UNCHANGED <<now, vouchers, series>>

(***************************************************************************)
(* /{rid}/cancel and /{rid}/reschedule.                                    *)
(***************************************************************************)
CancelOutcome(b, by) ==
    IF by = "brand" THEN "cancelled_by_brand"
    ELSE IF Max({0, row[b].at - now}) >= FreeBefore THEN "cancelled_by_user" ELSE "cancelled_with_penalty"

AskCancel(d, b, by) ==
    /\ Confirmed(b)
    /\ Begin(d, [Idle EXCEPT !.pc = "cancel", !.b = b, !.to = CancelOutcome(b, by)])
    /\ UNCHANGED <<now, bookVars, vouchers, series, raced>>

\* Mutant: the resource's calendar is forgotten.
CancelStillListed(d) ==
    /\ At(d, "cancel")
    /\ row' = [row EXCEPT ![request[d].b].status = request[d].to]
    /\ Count(request[d].to)
    /\ AfterWrite(d, request[d].b, "emit", FALSE)
    /\ NoteRace(d)
    /\ UNCHANGED <<now, listed, vouchers, series>>
Cancel(d) ==
    /\ At(d, "cancel")
    /\ Settle(d, request[d].to, "emit")
    /\ UNCHANGED <<now, vouchers, series>>

AskMove(d, b, at) ==
    /\ Confirmed(b) /\ at > now
    /\ Begin(d, [Idle EXCEPT !.pc = "move", !.b = b, !.to = "rescheduled", !.at = at])
    /\ UNCHANGED <<now, bookVars, vouchers, series, raced>>

Move(d) ==
    /\ At(d, "move")
    /\ Reslot(d, request[d].at, "emit")
    /\ UNCHANGED <<now, vouchers, series>>

(***************************************************************************)
(* /scan-no-shows: one reading of the clock, then every key SCAN returns,  *)
(* in any order and perhaps more than once.                                *)
(***************************************************************************)
StartScan(d) ==
    /\ Begin(d, [Idle EXCEPT !.pc = "scan", !.loop = "scan", !.to = "no_show", !.since = now])
    /\ UNCHANGED <<now, bookVars, vouchers, series, raced>>

\* Mutant: the status is not looked at, as if the index held live bookings only.
ScanAny(d, b) ==
    /\ At(d, "scan") /\ row[b].status # "none"
    /\ row[b].at + Grace <= request[d].since - Cutoff
    /\ request' = [request EXCEPT ![d].pc = "absent", ![d].b = b]
    /\ UNCHANGED <<now, bookVars, vouchers, series, raced>>
ScanRow(d, b) ==
    /\ At(d, "scan") /\ Confirmed(b)
    /\ row[b].at + Grace <= request[d].since - Cutoff
    /\ request' = [request EXCEPT ![d].pc = "absent", ![d].b = b]
    /\ UNCHANGED <<now, bookVars, vouchers, series, raced>>

MarkNoShow(d) ==
    /\ At(d, "absent")
    /\ Settle(d, "no_show", "recover")
    /\ UNCHANGED <<now, vouchers, series>>

\* The recovery voucher is best effort: its failure is logged and forgotten.
IssueRecoveryVoucher(d) ==
    /\ At(d, "recover")
    /\ \/ vouchers' = [vouchers EXCEPT ![<<request[d].b, "recovery">>] = @ + 1]
       \/ UNCHANGED vouchers
    /\ Goto(d, "emit")
    /\ UNCHANGED <<now, bookVars, series, raced>>

ScanDone(d) == At(d, "scan") /\ Finish(d) /\ UNCHANGED <<now, bookVars, vouchers, series, raced>>

(***************************************************************************)
(* Series. The header is written first; each booking is then written       *)
(* without any conflict check, and pushed on the series' list in a call of *)
(* its own. "left" is the indices still to make.                           *)
(***************************************************************************)
StartSeries(d, first, dur) ==
    /\ series.status = "none"
    /\ first > now
    /\ series' = [series EXCEPT !.status = "active"]
    /\ Begin(d, [Idle EXCEPT !.pc = "series", !.loop = "push", !.to = "created",
                             !.at = first, !.dur = dur, !.left = 1..SeriesLength])
    /\ UNCHANGED <<now, bookVars, vouchers, raced>>

SeriesBook(d, b) ==
    /\ At(d, "series")
    /\ Enter(d, b, request[d].at + (Min(request[d].left) - 1) * Cadence, request[d].dur,
             "series", "emit")
    /\ UNCHANGED <<now, vouchers, series, raced>>

\* A push behind the back of a cancellation that has read the list is a race.
Dropping == \E e \in Desks : request[e].loop = "drop"
SeriesPush(d) ==
    /\ At(d, "push")
    /\ series' = [series EXCEPT !.members = @ \cup {request[d].b}]
    /\ raced' = IF Dropping \/ series.status = "cancelled" THEN raced \cup {request[d].b} ELSE raced
    /\ LET rest == request[d].left \ {Min(request[d].left)} IN
       request' = [request EXCEPT
           ![d] = IF rest = {} THEN Done ELSE [request[d] EXCEPT !.pc = "series", !.left = rest]]
    /\ UNCHANGED <<now, bookVars, vouchers>>

CancelSeries(d) ==
    /\ series.status = "active"
    /\ Begin(d, [Idle EXCEPT !.pc = "drop", !.loop = "drop", !.to = "cancelled_by_user",
                             !.since = now, !.left = series.members])
    /\ UNCHANGED <<now, bookVars, vouchers, series, raced>>

DropRead(d) ==
    /\ At(d, "drop") /\ request[d].left # {}
    /\ LET b == Min(request[d].left) IN
       request' = [request EXCEPT
           ![d] = IF Confirmed(b) /\ row[b].at > request[d].since
                  THEN [request[d] EXCEPT !.pc = "drop_one", !.b = b, !.left = @ \ {b}]
                  ELSE [request[d] EXCEPT !.left = @ \ {b}]]
    /\ UNCHANGED <<now, bookVars, vouchers, series, raced>>

DropWrite(d) ==
    /\ At(d, "drop_one")
    /\ Settle(d, "cancelled_by_user", "emit")
    /\ UNCHANGED <<now, vouchers, series>>

\* Mutant: the header says cancelled before the bookings are.
DropHastily(d) ==
    /\ At(d, "drop")
    /\ series' = [series EXCEPT !.status = "cancelled", !.since = request[d].since]
    /\ Finish(d)
    /\ UNCHANGED <<now, bookVars, vouchers, raced>>
DropDone(d) ==
    /\ At(d, "drop") /\ request[d].left = {}
    /\ series' = [series EXCEPT !.status = "cancelled", !.since = request[d].since]
    /\ Finish(d)
    /\ UNCHANGED <<now, bookVars, vouchers, raced>>

\* reschedule_series, anchored at a new time or at the one the first booking
\* has: "at" is the time of the next member of the list.
MoveSeries(d, from, anchor) ==
    /\ series.status = "active" /\ from \in series.members
    /\ anchor > now \/ anchor = row[from].at
    /\ Begin(d, [Idle EXCEPT !.pc = "shift", !.loop = "shift", !.to = "rescheduled",
                             !.since = now, !.at = anchor, !.left = {b \in series.members : b >= from}])
    /\ UNCHANGED <<now, bookVars, vouchers, series, raced>>

ShiftRead(d) ==
    /\ At(d, "shift") /\ request[d].left # {}
    /\ LET b == Min(request[d].left) IN
       request' = [request EXCEPT
           ![d] = IF Confirmed(b) /\ request[d].at > request[d].since
                  THEN [request[d] EXCEPT !.pc = "shift_one", !.b = b, !.left = @ \ {b}]
                  ELSE [request[d] EXCEPT !.at = @ + Cadence, !.left = @ \ {b}]]
    /\ UNCHANGED <<now, bookVars, vouchers, series, raced>>

ShiftWrite(d) ==
    /\ At(d, "shift_one")
    /\ Reslot(d, request[d].at, "emit")
    /\ UNCHANGED <<now, vouchers, series>>

ShiftDone(d) ==
    /\ At(d, "shift") /\ request[d].left = {}
    /\ Finish(d)
    /\ UNCHANGED <<now, bookVars, vouchers, series, raced>>
-----------------------------------------------------------------------------
(***************************************************************************)
(* _emit_event: each trigger the brand has registered for the event issues *)
(* its voucher, or fails and is forgotten. /create publishes two events.   *)
(***************************************************************************)
Emit(d) ==
    /\ At(d, "emit")
    /\ LET e == Published(request[d].to) IN
       \E issued \in 0..Rewards[e] :
           vouchers' = [vouchers EXCEPT ![<<request[d].b, e>>] = @ + issued]
    /\ request' = [request EXCEPT
           ![d] = IF request[d].loop # "idle"
                  THEN [request[d] EXCEPT !.pc = request[d].loop,
                        !.b = IF request[d].loop = "push" THEN @ ELSE 0,
                        !.at = IF request[d].loop = "shift" THEN @ + Cadence ELSE @]
                  ELSE IF request[d].to = "created" THEN [request[d] EXCEPT !.to = "confirmed"]
                  ELSE Done]
    /\ UNCHANGED <<now, bookVars, series, raced>>

\* The process dies or the client hangs up.
Die(d) ==
    /\ ~At(d, "idle") /\ ~At(d, "done")
    /\ Finish(d)
    /\ UNCHANGED <<now, bookVars, vouchers, series, raced>>

Tick == now < LastTime /\ now' = now + 1 /\ UNCHANGED <<bookVars, vouchers, series, request, raced>>

Slots == 1..LastTime

Next == \/ Tick
        \/ \E d \in Desks :
             \/ \E at \in Slots, dur \in Durations : AskBook(d, at, dur)
             \/ \E b \in Bookings :
                  \/ LookAt(d, b) \/ Book(d, b)
                  \/ AskCheckIn(d, b) \/ AutoCheckIn(d, b)
                  \/ \E by \in {"user", "brand"} : AskCancel(d, b, by)
                  \/ \E at \in Slots : AskMove(d, b, at)
                  \/ ScanRow(d, b)
                  \/ SeriesBook(d, b)
                  \/ \E at \in Slots : MoveSeries(d, b, at)
             \/ CheckIn(d) \/ Cancel(d) \/ Move(d)
             \/ StartScan(d) \/ MarkNoShow(d) \/ IssueRecoveryVoucher(d) \/ ScanDone(d)
             \/ \E at \in Slots, dur \in Durations : StartSeries(d, at, dur)
             \/ SeriesPush(d)
             \/ CancelSeries(d) \/ DropRead(d) \/ DropWrite(d) \/ DropDone(d)
             \/ ShiftRead(d) \/ ShiftWrite(d) \/ ShiftDone(d)
             \/ Emit(d) \/ Die(d)

Spec == Init /\ [][Next]_vars
-----------------------------------------------------------------------------
(***************************************************************************)
(* However requests overtake each other, the calendars show a booking at   *)
(* its own time and only while it stands: a confirmed booking is listed,   *)
(* a cancelled or missed one never is (resource_availability promises "live *)
(* commitments", and /create looks for conflicts nowhere else).            *)
(***************************************************************************)
CalendarShowsLive ==
    \A b \in Bookings :
        /\ Confirmed(b) => listed[b] = row[b].at
        /\ listed[b] # NotListed => row[b].status \in {"confirmed", "honored"} /\ listed[b] = row[b].at

(***************************************************************************)
(* Two standing bookings of at most half an hour never overlap when both   *)
(* came through a /create that could read what it looked for, with nothing *)
(* else booked between the check and the write. (Longer bookings, raced    *)
(* and unread ones, series and moves are not protected by the code: the    *)
(* check looks half an hour back, once, in /create only, and an error of   *)
(* it counts as a free slot.)                                              *)
(***************************************************************************)
Overlap(b, c) == row[b].at < row[c].at + row[c].dur /\ row[c].at < row[b].at + row[b].dur
Guarded(b)    == Confirmed(b) /\ row[b].made = "desk" /\ row[b].dur <= HalfHour
ShortBookingsDontOverlap ==
    \A b, c \in Bookings : b # c /\ Guarded(b) /\ Guarded(c) => ~Overlap(b, c)

(***************************************************************************)
(* While no booking has been written on an out-of-date reading, the        *)
(* brand's counters are the outcomes of its bookings, a missed booking had *)
(* its whole grace and cutoff, and no outcome is paid for twice: the       *)
(* scan's recovery voucher goes to a missed booking once, and a trigger    *)
(* answers once to the outcome the booking has. (Together they may give a  *)
(* missed booking two vouchers, and an event no outcome goes with, such as *)
(* "rescheduled", is answered every time.)                                 *)
(***************************************************************************)
WithStatus(s) == {b \in Bookings : row[b].status = s}
PaidOnce == {"recovery"} \cup {Published(o) : o \in Outcomes}
Limit(s) == IF s = "recovery" THEN 1 ELSE Rewards[s]
Earns(status, s) == IF s = "recovery" THEN status = "no_show"
                    ELSE status \in Outcomes /\ Published(status) = s
Paid(b) == \A s \in PaidOnce : /\ vouchers[b, s] <= Limit(s)
                               /\ vouchers[b, s] > 0 => Earns(row[b].status, s)
UnracedIsConsistent ==
    raced = {} =>
        /\ total["confirmed"] = Cardinality(Bookings \ WithStatus("none"))
        /\ \A o \in Outcomes : total[o] = Cardinality(WithStatus(o))
        /\ \A b \in Bookings :
             /\ Paid(b)
             /\ row[b].status = "no_show" => row[b].at + Grace + Cutoff <= now

(***************************************************************************)
(* A cancelled series leaves no booking standing that was still to come    *)
(* when it was cancelled, unless another request raced with it or moved    *)
(* the booking.                                                            *)
(***************************************************************************)
CancelledSeriesIsEmpty ==
    series.status = "cancelled" =>
        \A b \in series.members \ raced :
            Confirmed(b) /\ row[b].made = "series" => row[b].at <= series.since
=============================================================================
