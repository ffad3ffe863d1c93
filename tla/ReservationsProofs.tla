------------------------- MODULE ReservationsProofs -------------------------
(***************************************************************************)
(* Proofs about the bookings of one resource, for any number of bookings   *)
(* and of requests, all of them perhaps at once, and any durations, grace  *)
(* and cutoff. Each invariant pairs what is promised of the stored rows    *)
(* with what a request may still believe of them between its reading and   *)
(* its write.                                                              *)
(***************************************************************************)
EXTENDS Reservations, WellFoundedInduction, FiniteSetTheorems, TLAPS

USE ReservationsAssumption

\* A set of natural numbers has a least element, by which loops pick the next.
LEMMA MinExists ==
  ASSUME NEW S, S \subseteq Nat, S # {}
  PROVE  Min(S) \in S
<1>. DEFINE Below == {p \in Nat \X Nat : p[1] < p[2]}
<1>1. IsWellFoundedOn(Below, Nat)
  <2>1. OpToRel(<, Nat) = Below
    BY DEF OpToRel
  <2>. QED  BY <2>1, NatLessThanWellFounded
<1>2. PICK x \in S : \A y \in S : ~(<<y, x>> \in Below)
  <2>. HIDE DEF Below
  <2>. QED  BY <1>1, WFMin
<1>3. ASSUME NEW y \in S PROVE x <= y
  <2>1. x \in Nat /\ y \in Nat /\ (y < x => <<y, x>> \in Below)
    OBVIOUS
  <2>. QED  BY <1>2, <2>1
<1>. QED  BY <1>3 DEF Min
-----------------------------------------------------------------------------
(***************************************************************************)
(* Where a request can be: which loop it is in at which step, the indices  *)
(* or bookings the loop has left, and that it is aimed at a booking when it*)
(* is about to write one or has an event of one to publish. What a request *)
(* is to write, it publishes.                                              *)
(***************************************************************************)
Loops == {"idle", "scan", "push", "drop", "shift"}

InLoop(pc, loop) ==
    /\ loop \in Loops
    /\ pc \in {"series", "push"} => loop = "push"
    /\ pc \in {"scan", "absent", "recover"} => loop = "scan"
    /\ pc \in {"drop", "drop_one"} => loop = "drop"
    /\ pc \in {"shift", "shift_one"} => loop = "shift"
    /\ pc \in {"idle", "look", "honor", "cancel", "move", "done"} => loop = "idle"

Writes == {"honor", "cancel", "move", "absent", "drop_one", "shift_one"}

Aimed(r) == \/ r.pc \in Writes \cup {"recover", "emit"}
            \/ r.pc = "push"

Says(r) == /\ r.pc = "look" => r.to = "created"
           /\ r.pc = "honor" => r.to = "honored"
           /\ r.pc = "cancel" => r.to \in Cancelled
           /\ r.pc = "move" => r.to = "rescheduled"
           /\ r.loop = "push" => r.to = "created"
           /\ r.loop = "scan" => r.to = "no_show"
           /\ r.loop = "drop" => r.to = "cancelled_by_user"
           /\ r.loop = "shift" => r.to = "rescheduled"

Shape(r) == /\ r \in Request
            /\ InLoop(r.pc, r.loop)
            /\ r.loop = "push" => r.left # {} /\ r.left \subseteq Nat \ {0}
            /\ r.loop \in {"drop", "shift"} => r.left \subseteq Bookings
            /\ Aimed(r) => r.b \in Bookings
            /\ Says(r)

Shapes == request \in [Desks -> Request] /\ \A d \in Desks : Shape(request[d])

ShapeInv == TypeOK /\ Shapes

LEMMA IdleIs ==
  /\ Idle \in Request /\ Idle.pc = "idle" /\ Idle.loop = "idle" /\ Idle.left = {}
  /\ ~Idle.stale /\ Idle.b = 0 /\ Idle.since = 0
<1>1. /\ "idle" \in Steps /\ 0 \in 0..MaxBookings /\ "honored" \in Events /\ {} \in SUBSET Nat
  BY DEF Steps, Events, Outcomes
<1>. QED  BY <1>1 DEF Idle, Request

LEMMA IdleShape ==
  ASSUME NEW pc \in {"idle", "done"}
  PROVE  Shape([Idle EXCEPT !.pc = pc])
<1>. DEFINE r == [Idle EXCEPT !.pc = pc]
<1>1. pc \in Steps
  BY DEF Steps
<1>2. r \in Request /\ r.pc = pc /\ r.loop = "idle"
  BY <1>1, IdleIs DEF Request
<1>. HIDE DEF r
<1>3. Shape(r)
  BY <1>2 DEF Shape, InLoop, Loops, Aimed, Writes, Says
<1>. QED  BY <1>3 DEF r

LEMMA PublishShape ==
  ASSUME NEW b \in Bookings, NEW to \in Events
  PROVE  Shape([Idle EXCEPT !.pc = "emit", !.b = b, !.to = to])
<1>. DEFINE pc == "emit"
            r == [Idle EXCEPT !.pc = pc, !.b = b, !.to = to]
<1>1. pc \in Steps /\ b \in 0..MaxBookings
  BY DEF Steps, Bookings
<1>. HIDE DEF pc
<1>2. r \in Request /\ r.pc = pc /\ r.loop = "idle" /\ r.b = b
  BY <1>1, IdleIs DEF Request
<1>. HIDE DEF r
<1>3. Shape(r)
  BY <1>2 DEF Shape, InLoop, Loops, Aimed, Writes, Says, pc
<1>. QED  BY <1>3 DEF r, pc

LEMMA ShapeMoves ==
  ASSUME Shapes, NEW d \in Desks, NEW r2, Shape(r2), request' = [request EXCEPT ![d] = r2]
  PROVE  Shapes'
<1>1. request' \in [Desks -> Request]
  BY DEF Shapes, Shape
<1>2. ASSUME NEW e \in Desks PROVE Shape(request'[e])
  BY DEF Shapes
<1>3. ASSUME NEW e \in Desks, Shape(request'[e]) PROVE Shape(request[e])'
  BY <1>3 DEF Shape, InLoop, Aimed, Says
<1>. QED  BY <1>1, <1>2, <1>3 DEF Shapes

LEMMA StaleShape == ASSUME NEW r, Shape(r) PROVE Shape([r EXCEPT !.stale = TRUE])
  BY DEF Shape, Request, InLoop, Aimed, Says

LEMMA WrittenShape ==
  ASSUME NEW r, Shape(r), NEW b \in Bookings, NEW next \in {"emit", "recover"},
         next = "recover" => r.loop = "scan"
  PROVE  Shape([r EXCEPT !.pc = next, !.b = b, !.stale = FALSE])
<1>. DEFINE r2 == [r EXCEPT !.pc = next, !.b = b, !.stale = FALSE]
<1>1. r2 \in Request
  <2>. DEFINE f == FALSE
  <2>1. /\ next \in Steps /\ b \in 0..MaxBookings /\ f \in BOOLEAN /\ r \in Request
        /\ r2 = [r EXCEPT !.pc = next, !.b = b, !.stale = f]
    BY DEF Shape, Steps, Bookings
  <2>. HIDE DEF r2, f
  <2>. QED  BY <2>1 DEF Request
<1>2. /\ r2.pc = next /\ r2.b = b /\ r2.loop = r.loop /\ r2.left = r.left /\ r2.to = r.to
  BY DEF Shape, Request
<1>. HIDE DEF r2
<1>. QED  BY <1>1, <1>2 DEF Shape, InLoop, Aimed, Says, r2

LEMMA ShapeWrites ==
  ASSUME Shapes, NEW d \in Desks, NEW b \in Bookings, NEW next \in {"emit", "recover"},
         NEW slot \in BOOLEAN, next = "recover" => request[d].loop = "scan",
         AfterWrite(d, b, next, slot)
  PROVE  Shapes'
<1>1. ASSUME NEW e \in Desks PROVE Shape(request'[e])
  <2>1. CASE e = d /\ request[d].loop = "idle"
    <3>. DEFINE to == request[d].to
    <3>1. request'[e] = [Idle EXCEPT !.pc = "emit", !.b = b, !.to = to]
      BY <2>1 DEF AfterWrite
    <3>2. to \in Events
      <4>1. request[d] \in Request
        BY DEF Shapes
      <4>. QED  BY <4>1 DEF Request
    <3>. HIDE DEF to
    <3>3. Shape([Idle EXCEPT !.pc = "emit", !.b = b, !.to = to])
      BY <3>2, PublishShape
    <3>. QED  BY <3>1, <3>3
  <2>2. CASE e = d /\ request[d].loop # "idle"
    <3>1. request'[e] = [request[d] EXCEPT !.pc = next, !.b = b, !.stale = FALSE]
      BY <2>2 DEF AfterWrite
    <3>2. Shape(request[d])
      BY DEF Shapes
    <3>3. Shape([request[d] EXCEPT !.pc = next, !.b = b, !.stale = FALSE])
      BY <3>2, WrittenShape
    <3>. QED  BY <2>2, <3>1, <3>3
  <2>3. CASE e # d
    <3>1. \/ request'[e] = [request[e] EXCEPT !.stale = TRUE]
          \/ request'[e] = request[e]
      BY <2>3 DEF AfterWrite
    <3>2. CASE request'[e] = [request[e] EXCEPT !.stale = TRUE]
      BY <3>2, StaleShape DEF Shapes
    <3>3. CASE request'[e] = request[e]
      BY <3>3 DEF Shapes
    <3>. QED  BY <3>1, <3>2, <3>3
  <2>. QED  BY <2>1, <2>2, <2>3
<1>2. request' \in [Desks -> Request]
  <2>1. DOMAIN request' = Desks /\ request' = [e \in Desks |-> request'[e]]
    BY DEF AfterWrite
  <2>2. \A e \in Desks : request'[e] \in Request
    BY <1>1 DEF Shape
  <2>. QED  BY <2>1, <2>2
<1>3. ASSUME NEW e \in Desks, Shape(request'[e]) PROVE Shape(request[e])'
  BY <1>3 DEF Shape, InLoop, Aimed, Says
<1>. QED  BY <1>1, <1>2, <1>3 DEF Shapes

\* Each action of a request that writes no booking.
BeginStep(d) ==
    \/ \E at \in Slots, dur \in Durations : AskBook(d, at, dur)
    \/ \E b \in Bookings : AskCheckIn(d, b)
    \/ \E b \in Bookings, by \in {"user", "brand"} : AskCancel(d, b, by)
    \/ \E b \in Bookings, at \in Slots : AskMove(d, b, at)
    \/ StartScan(d) \/ CancelSeries(d)
    \/ \E at \in Slots, dur \in Durations : StartSeries(d, at, dur)
    \/ \E b \in Bookings, at \in Slots : MoveSeries(d, b, at)

ProceedStep(d) ==
    \/ \E b \in Bookings : LookAt(d, b) \/ ScanRow(d, b)
    \/ IssueRecoveryVoucher(d) \/ ScanDone(d)
    \/ SeriesPush(d) \/ DropRead(d) \/ DropDone(d) \/ ShiftRead(d) \/ ShiftDone(d)
    \/ Emit(d) \/ Die(d)

LEMMA BeginShape ==
  ASSUME ShapeInv, NEW d \in Desks, BeginStep(d)
  PROVE  Shapes'
<1>0. /\ Bookings \subseteq Nat /\ Bookings \subseteq 0..MaxBookings
      /\ now \in Nat /\ Slots \subseteq Nat /\ Durations \subseteq Nat
      /\ series.members \subseteq Bookings /\ Shapes
  BY DEF ShapeInv, TypeOK, Bookings, Slots
<1>. USE IdleIs
<1>1. ASSUME NEW at \in Slots, NEW dur \in Durations, AskBook(d, at, dur) PROVE Shapes'
  <2>. DEFINE pc == "look"
              to == "created"
  <2>0. PICK unread \in BOOLEAN :
          request' = [request EXCEPT ![d] =
              [Idle EXCEPT !.pc = pc, !.to = to, !.at = at, !.dur = dur,
                           !.left = IF unread THEN {} ELSE InTheWay(at, dur), !.stale = unread]]
    BY <1>1 DEF AskBook, Begin
  <2>. DEFINE left == IF unread THEN {} ELSE InTheWay(at, dur)
              r2 == [Idle EXCEPT !.pc = pc, !.to = to, !.at = at, !.dur = dur,
                                 !.left = left, !.stale = unread]
  <2>1. request' = [request EXCEPT ![d] = r2] /\ left \subseteq Nat /\ pc \in Steps
        /\ to \in Events /\ at \in Nat /\ dur \in Nat
    BY <1>0, <2>0 DEF InTheWay, Steps, Events
  <2>. HIDE DEF left
  <2>2. r2.pc = "look" /\ r2.loop = "idle" /\ r2.to = "created"
    BY DEF Request
  <2>. HIDE DEF pc, to
  <2>3. r2 \in Request
    BY <2>1 DEF Request
  <2>. HIDE DEF r2
  <2>4. Shape(r2)
    BY <2>2, <2>3 DEF Shape, InLoop, Loops, Aimed, Writes, Says
  <2>. QED  BY <1>0, <2>1, <2>4, ShapeMoves
<1>2. ASSUME NEW b \in Bookings, AskCheckIn(d, b) PROVE Shapes'
  <2>. DEFINE pc == "honor"
              to == "honored"
              r2 == [Idle EXCEPT !.pc = pc, !.b = b, !.to = to]
  <2>1. request' = [request EXCEPT ![d] = r2] /\ pc \in Steps /\ to \in Events
    BY <1>2 DEF AskCheckIn, Begin, Steps, Events, Outcomes
  <2>2. r2.pc = "honor" /\ r2.loop = "idle" /\ r2.b = b /\ r2.to = "honored"
    BY DEF Request
  <2>. HIDE DEF pc, to
  <2>3. r2 \in Request
    BY <1>0, <2>1 DEF Request
  <2>. HIDE DEF r2
  <2>4. Shape(r2)
    BY <2>2, <2>3 DEF Shape, InLoop, Loops, Aimed, Writes, Says
  <2>. QED  BY <1>0, <2>1, <2>4, ShapeMoves
<1>3. ASSUME NEW b \in Bookings, NEW by \in {"user", "brand"}, AskCancel(d, b, by) PROVE Shapes'
  <2>. DEFINE pc == "cancel"
              to == CancelOutcome(b, by)
              r2 == [Idle EXCEPT !.pc = pc, !.b = b, !.to = to]
  <2>1. request' = [request EXCEPT ![d] = r2] /\ pc \in Steps
    BY <1>3 DEF AskCancel, Begin, Steps
  <2>2. to \in Cancelled /\ to \in Events
    BY DEF CancelOutcome, Events, Outcomes, Cancelled
  <2>3. r2.pc = "cancel" /\ r2.loop = "idle" /\ r2.b = b /\ r2.to = to
    BY DEF Request
  <2>. HIDE DEF pc, to
  <2>4. r2 \in Request
    BY <1>0, <2>1, <2>2 DEF Request
  <2>. HIDE DEF r2
  <2>5. Shape(r2)
    BY <2>3, <2>4, <2>2 DEF Shape, InLoop, Loops, Aimed, Writes, Says
  <2>. QED  BY <1>0, <2>1, <2>5, ShapeMoves
<1>4. ASSUME NEW b \in Bookings, NEW at \in Slots, AskMove(d, b, at) PROVE Shapes'
  <2>. DEFINE pc == "move"
              to == "rescheduled"
              r2 == [Idle EXCEPT !.pc = pc, !.b = b, !.to = to, !.at = at]
  <2>1. request' = [request EXCEPT ![d] = r2] /\ pc \in Steps /\ to \in Events /\ at \in Nat
    BY <1>0, <1>4 DEF AskMove, Begin, Steps, Events
  <2>2. r2.pc = "move" /\ r2.loop = "idle" /\ r2.b = b /\ r2.to = "rescheduled"
    BY DEF Request
  <2>. HIDE DEF pc, to
  <2>3. r2 \in Request
    BY <1>0, <2>1 DEF Request
  <2>. HIDE DEF r2
  <2>4. Shape(r2)
    BY <2>2, <2>3 DEF Shape, InLoop, Loops, Aimed, Writes, Says
  <2>. QED  BY <1>0, <2>1, <2>4, ShapeMoves
<1>5. CASE StartScan(d)
  <2>. DEFINE pc == "scan"
              to == "no_show"
              r2 == [Idle EXCEPT !.pc = pc, !.loop = pc, !.to = to, !.since = now]
  <2>1. request' = [request EXCEPT ![d] = r2] /\ pc \in Steps /\ to \in Events
    BY <1>5 DEF StartScan, Begin, Steps, Events, Outcomes
  <2>2. r2.pc = "scan" /\ r2.loop = "scan" /\ r2.to = "no_show"
    BY DEF Request
  <2>. HIDE DEF pc, to
  <2>3. r2 \in Request
    BY <1>0, <2>1 DEF Request
  <2>. HIDE DEF r2
  <2>4. Shape(r2)
    BY <2>2, <2>3 DEF Shape, InLoop, Loops, Aimed, Writes, Says
  <2>. QED  BY <1>0, <2>1, <2>4, ShapeMoves
<1>6. CASE CancelSeries(d)
  <2>. DEFINE pc == "drop"
              left == series.members
              to == "cancelled_by_user"
              r2 == [Idle EXCEPT !.pc = pc, !.loop = pc, !.to = to, !.since = now, !.left = left]
  <2>1. request' = [request EXCEPT ![d] = r2] /\ pc \in Steps /\ to \in Events
    BY <1>6 DEF CancelSeries, Begin, Steps, Events, Outcomes, Cancelled
  <2>2. r2.pc = "drop" /\ r2.loop = "drop" /\ r2.left = left /\ r2.to = "cancelled_by_user"
    BY DEF Request
  <2>3. left \subseteq Nat /\ left \subseteq Bookings
    BY <1>0
  <2>. HIDE DEF pc, to, left
  <2>4. r2 \in Request
    BY <1>0, <2>1, <2>3 DEF Request
  <2>. HIDE DEF r2
  <2>5. Shape(r2)
    BY <2>2, <2>4, <2>3 DEF Shape, InLoop, Loops, Aimed, Writes, Says
  <2>. QED  BY <1>0, <2>1, <2>5, ShapeMoves
<1>7. ASSUME NEW at \in Slots, NEW dur \in Durations, StartSeries(d, at, dur) PROVE Shapes'
  <2>. DEFINE pc == "series"
              loop == "push"
              left == 1..SeriesLength
              to == "created"
              r2 == [Idle EXCEPT !.pc = pc, !.loop = loop, !.to = to, !.at = at, !.dur = dur,
                                 !.left = left]
  <2>1. request' = [request EXCEPT ![d] = r2] /\ pc \in Steps /\ loop \in Steps /\ to \in Events
        /\ at \in Nat /\ dur \in Nat
    BY <1>0, <1>7 DEF StartSeries, Begin, Steps, Events
  <2>2. r2.pc = "series" /\ r2.loop = "push" /\ r2.left = left /\ r2.to = "created"
    BY DEF Request
  <2>3. left \subseteq Nat /\ left # {} /\ left \subseteq Nat \ {0}
    OBVIOUS
  <2>. HIDE DEF pc, loop, left, to
  <2>4. r2 \in Request
    BY <2>1, <2>3 DEF Request
  <2>. HIDE DEF r2
  <2>5. Shape(r2)
    BY <2>2, <2>4, <2>3 DEF Shape, InLoop, Loops, Aimed, Writes, Says
  <2>. QED  BY <1>0, <2>1, <2>5, ShapeMoves
<1>8. ASSUME NEW b \in Bookings, NEW at \in Slots, MoveSeries(d, b, at) PROVE Shapes'
  <2>. DEFINE pc == "shift"
              left == {c \in series.members : c >= b}
              to == "rescheduled"
              r2 == [Idle EXCEPT !.pc = pc, !.loop = pc, !.to = to, !.since = now, !.at = at,
                                 !.left = left]
  <2>1. request' = [request EXCEPT ![d] = r2] /\ pc \in Steps /\ to \in Events /\ at \in Nat
    BY <1>0, <1>8 DEF MoveSeries, Begin, Steps, Events
  <2>2. r2.pc = "shift" /\ r2.loop = "shift" /\ r2.left = left /\ r2.to = "rescheduled"
    BY DEF Request
  <2>3. left \subseteq Nat /\ left \subseteq Bookings
    BY <1>0
  <2>. HIDE DEF pc, left, to
  <2>4. r2 \in Request
    BY <1>0, <2>1, <2>3 DEF Request
  <2>. HIDE DEF r2
  <2>5. Shape(r2)
    BY <2>2, <2>4, <2>3 DEF Shape, InLoop, Loops, Aimed, Writes, Says
  <2>. QED  BY <1>0, <2>1, <2>5, ShapeMoves
<1>. QED  BY <1>1, <1>2, <1>3, <1>4, <1>5, <1>6, <1>7, <1>8 DEF BeginStep

LEMMA FinishShape == ASSUME Shapes, NEW d \in Desks, Finish(d) PROVE Shapes'
<1>1. Shape(Done)
  BY IdleShape DEF Done
<1>. QED  BY <1>1, ShapeMoves DEF Finish

LEMMA ProceedShape ==
  ASSUME ShapeInv, NEW d \in Desks, ProceedStep(d)
  PROVE  Shapes'
<1>. DEFINE r == request[d]
<1>0. /\ Shapes /\ Shape(r) /\ r \in Request /\ Bookings \subseteq 0..MaxBookings
      /\ Bookings \subseteq Nat /\ r.at \in Nat /\ r.left \subseteq Nat
      /\ r.b \in 0..MaxBookings /\ r.loop \in Steps /\ InLoop(r.pc, r.loop)
  BY DEF ShapeInv, Shapes, Shape, Bookings, Request
<1>1. ASSUME NEW b \in Bookings, LookAt(d, b) PROVE Shapes'
  <2>1. CASE Finish(d)
    BY <1>0, <2>1, FinishShape
  <2>2. ASSUME NEW stale \in BOOLEAN,
               request' = [request EXCEPT ![d] = [r EXCEPT !.left = r.left \ {b}, !.stale = stale]]
        PROVE  Shapes'
    <3>. DEFINE left == r.left \ {b}
                r2 == [r EXCEPT !.left = left, !.stale = stale]
    <3>1. request' = [request EXCEPT ![d] = r2] /\ left \subseteq Nat /\ r.pc = "look"
      BY <1>0, <1>1, <2>2 DEF LookAt, At
    <3>. HIDE DEF left, r
    <3>2. r2 \in Request /\ r2.pc = r.pc /\ r2.loop = r.loop /\ r2.to = r.to
      BY <1>0, <3>1 DEF Request
    <3>. HIDE DEF r2
    <3>3. Shape(r2)
      BY <1>0, <3>1, <3>2 DEF Shape, InLoop, Aimed, Writes, Says
    <3>. QED  BY <1>0, <3>1, <3>3, ShapeMoves
  <2>3. \/ Finish(d)
        \/ request' = [request EXCEPT ![d] = [r EXCEPT !.left = r.left \ {b}, !.stale = r.stale]]
        \/ request' = [request EXCEPT ![d] = [r EXCEPT !.left = r.left \ {b}, !.stale = TRUE]]
    BY <1>0, <1>1 DEF LookAt, Request
  <2>4. r.stale \in BOOLEAN
    BY <1>0 DEF Request
  <2>. QED  BY <2>1, <2>2, <2>3, <2>4
<1>2. ASSUME NEW b \in Bookings, ScanRow(d, b) PROVE Shapes'
  <2>. DEFINE pc == "absent"
              r2 == [r EXCEPT !.pc = pc, !.b = b]
  <2>1. request' = [request EXCEPT ![d] = r2] /\ pc \in Steps /\ r.pc = "scan"
    BY <1>2 DEF ScanRow, At, Steps
  <2>. HIDE DEF pc, r
  <2>2. /\ r2 \in Request /\ r2.pc = pc /\ r2.loop = r.loop /\ r2.b = b /\ r2.left = r.left
        /\ r2.to = r.to
    BY <1>0, <2>1 DEF Request
  <2>. HIDE DEF r2
  <2>3. Shape(r2)
    BY <1>0, <2>1, <2>2 DEF Shape, InLoop, Aimed, Writes, Says, pc
  <2>. QED  BY <1>0, <2>1, <2>3, ShapeMoves
<1>3. CASE IssueRecoveryVoucher(d)
  <2>. DEFINE pc == "emit"
              r2 == [r EXCEPT !.pc = pc]
  <2>1. request' = [request EXCEPT ![d] = r2] /\ pc \in Steps /\ r.pc = "recover"
    BY <1>3 DEF IssueRecoveryVoucher, Goto, At, Steps
  <2>. HIDE DEF pc, r
  <2>2. /\ r2 \in Request /\ r2.pc = pc /\ r2.loop = r.loop /\ r2.b = r.b /\ r2.left = r.left
        /\ r2.to = r.to
    BY <1>0, <2>1 DEF Request
  <2>. HIDE DEF r2
  <2>3. Shape(r2)
    BY <1>0, <2>1, <2>2 DEF Shape, InLoop, Aimed, Writes, Says, pc
  <2>. QED  BY <1>0, <2>1, <2>3, ShapeMoves
<1>4. CASE ScanDone(d) \/ DropDone(d) \/ ShiftDone(d) \/ Die(d)
  <2>1. Finish(d)
    BY <1>4 DEF ScanDone, DropDone, ShiftDone, Die
  <2>. QED  BY <1>0, <2>1, FinishShape
<1>5. CASE SeriesPush(d)
  <2>. DEFINE rest == r.left \ {Min(r.left)}
              pc == "series"
              r2 == [r EXCEPT !.pc = pc, !.left = rest]
  <2>1. request' = [request EXCEPT ![d] = IF rest = {} THEN Done ELSE r2]
        /\ pc \in Steps /\ r.pc = "push" /\ rest \subseteq Nat
    BY <1>0, <1>5 DEF SeriesPush, At, Steps
  <2>2. CASE rest = {}
    BY <1>0, <2>1, <2>2, FinishShape DEF Finish
  <2>3. CASE rest # {}
    <3>1. rest \subseteq Nat \ {0}
      BY <1>0, <2>1 DEF Shape, InLoop
    <3>. HIDE DEF pc, rest, r
    <3>2. r2 \in Request /\ r2.pc = pc /\ r2.loop = r.loop /\ r2.left = rest /\ r2.to = r.to
      BY <1>0, <2>1 DEF Request
    <3>. HIDE DEF r2
    <3>3. Shape(r2)
      BY <1>0, <2>1, <2>3, <3>1, <3>2 DEF Shape, InLoop, Aimed, Writes, Says, pc
    <3>. QED  BY <1>0, <2>1, <2>3, <3>3, ShapeMoves
  <2>. QED  BY <2>2, <2>3
<1>6. CASE DropRead(d) \/ ShiftRead(d)
  <2>. DEFINE b == Min(r.left)
              left == r.left \ {b}
              pc == IF r.pc = "drop" THEN "drop_one" ELSE "shift_one"
              r2 == [r EXCEPT !.pc = pc, !.b = b, !.left = left]
              r3 == [r EXCEPT !.at = r.at + Cadence, !.left = left]
              r4 == [r EXCEPT !.left = left]
  <2>1. /\ \/ request' = [request EXCEPT ![d] = r2]
           \/ request' = [request EXCEPT ![d] = r3]
           \/ request' = [request EXCEPT ![d] = r4]
        /\ r.pc \in {"drop", "shift"} /\ pc \in Steps /\ r.left # {}
    <3>1. CASE DropRead(d)
      BY <3>1 DEF DropRead, At, Steps
    <3>2. CASE ShiftRead(d)
      BY <3>2 DEF ShiftRead, At, Steps
    <3>. QED  BY <1>6, <3>1, <3>2
  <2>2. /\ b \in Bookings /\ left \subseteq Bookings /\ left \subseteq Nat
        /\ r.at + Cadence \in Nat
    <3>1. r.left \subseteq Bookings
      BY <1>0, <2>1 DEF Shape, InLoop
    <3>2. Min(r.left) \in r.left
      BY <1>0, <2>1, MinExists
    <3>. QED  BY <1>0, <3>1, <3>2
  <2>. DEFINE at == r.at + Cadence
  <2>3. r3 = [r EXCEPT !.at = at, !.left = left] /\ at \in Nat
    BY <2>2
  <2>4. (r.pc = "drop" => pc = "drop_one") /\ (r.pc = "shift" => pc = "shift_one")
    OBVIOUS
  <2>. HIDE DEF pc, b, left, r, at, r3
  <2>5. /\ r2 \in Request /\ r2.pc = pc /\ r2.loop = r.loop /\ r2.b = b /\ r2.left = left
        /\ r2.to = r.to
        /\ r3 \in Request /\ r3.pc = r.pc /\ r3.loop = r.loop /\ r3.left = left /\ r3.to = r.to
        /\ r4 \in Request /\ r4.pc = r.pc /\ r4.loop = r.loop /\ r4.left = left /\ r4.to = r.to
    BY <1>0, <2>1, <2>2, <2>3 DEF Request
  <2>. HIDE DEF r2, r4
  <2>6. Shape(r2) /\ Shape(r3) /\ Shape(r4)
    BY <1>0, <2>1, <2>2, <2>4, <2>5 DEF Shape, InLoop, Aimed, Writes, Says
  <2>. QED  BY <1>0, <2>1, <2>6, ShapeMoves
<1>7. CASE Emit(d)
  <2>. DEFINE b == IF r.loop = "push" THEN r.b ELSE 0
              at == IF r.loop = "shift" THEN r.at + Cadence ELSE r.at
              r2 == [r EXCEPT !.pc = r.loop, !.b = b, !.at = at]
  <2>. DEFINE to == "confirmed"
              r3 == [r EXCEPT !.to = to]
  <2>1. /\ request' = [request EXCEPT ![d] = IF r.loop # "idle" THEN r2
                                             ELSE IF r.to = "created" THEN r3 ELSE Done]
        /\ r.pc = "emit"
    BY <1>7 DEF Emit, At
  <2>2. b \in 0..MaxBookings /\ at \in Nat /\ (r.loop = "push" => b \in Bookings)
    <3>1. r.loop = "push" => r.b \in Bookings
      BY <1>0, <2>1 DEF Shape, Aimed
    <3>. QED  BY <1>0, <3>1
  <2>3. CASE r.loop = "idle" /\ r.to # "created"
    BY <1>0, <2>1, <2>3, FinishShape DEF Finish
  <2>4. CASE r.loop # "idle"
    <3>. HIDE DEF b, at, r
    <3>1. /\ r2 \in Request /\ r2.pc = r.loop /\ r2.loop = r.loop /\ r2.b = b /\ r2.left = r.left
          /\ r2.to = r.to
      BY <1>0, <2>2 DEF Request
    <3>. HIDE DEF r2
    <3>2. Shape(r2)
      BY <1>0, <2>2, <2>4, <3>1 DEF Shape, InLoop, Loops, Aimed, Writes, Says
    <3>. QED  BY <1>0, <2>1, <2>4, <3>2, ShapeMoves
  <2>5. CASE r.loop = "idle" /\ r.to = "created"
    <3>1. to \in Events /\ request' = [request EXCEPT ![d] = r3]
      BY <2>1, <2>5 DEF Events
    <3>. HIDE DEF to, r
    <3>2. /\ r3 \in Request /\ r3.pc = r.pc /\ r3.loop = r.loop /\ r3.b = r.b /\ r3.left = r.left
      BY <1>0, <3>1 DEF Request
    <3>. HIDE DEF r3
    <3>3. Shape(r3)
      BY <1>0, <2>1, <2>5, <3>2 DEF Shape, InLoop, Loops, Aimed, Writes, Says
    <3>. QED  BY <1>0, <3>1, <3>3, ShapeMoves
  <2>. QED  BY <2>3, <2>4, <2>5
<1>. QED  BY <1>1, <1>2, <1>3, <1>4, <1>5, <1>6, <1>7 DEF ProceedStep
-----------------------------------------------------------------------------
\* The three ways to write a booking: an outcome, a new time, a fresh booking.
LEMMA SettleTypes ==
  ASSUME ShapeInv, NEW d \in Desks, NEW outcome \in Outcomes, NEW next \in {"emit", "recover"},
         request[d].pc \in Writes, next = "recover" => request[d].loop = "scan",
         Settle(d, outcome, next), UNCHANGED <<now, vouchers, series>>
  PROVE  ShapeInv'
<1>. DEFINE b == request[d].b
            row2 == [row[b] EXCEPT !.status = outcome]
<1>0. /\ b \in Bookings /\ row[b] \in Row /\ row \in [Bookings -> Row] /\ Shapes
      /\ total \in [Counters -> Nat] /\ listed \in [Bookings -> Nat \cup {NotListed}]
      /\ raced \subseteq Bookings
  BY DEF ShapeInv, TypeOK, Shapes, Shape, Aimed
<1>1. row2 \in Row
  BY <1>0 DEF Row
<1>2. /\ row' = [row EXCEPT ![b] = row2]
      /\ listed' = listed \/ listed' = [listed EXCEPT ![b] = NotListed]
      /\ total' = [total EXCEPT ![outcome] = @ + 1]
      /\ AfterWrite(d, b, next, FALSE)
      /\ raced' = raced \/ raced' = raced \cup {b}
  BY DEF Settle, Count, NoteRace
<1>. HIDE DEF b, row2
<1>3. Shapes'
  <2>. DEFINE slot == FALSE
  <2>1. AfterWrite(d, b, next, slot) /\ slot \in BOOLEAN
    BY <1>2
  <2>. HIDE DEF slot
  <2>. QED  BY <1>0, <2>1, ShapeWrites
<1>4. row' \in [Bookings -> Row] /\ listed' \in [Bookings -> Nat \cup {NotListed}]
      /\ raced' \subseteq Bookings
  BY <1>0, <1>1, <1>2
<1>5. total' \in [Counters -> Nat]
  BY <1>0, <1>2 DEF Counters, Events, Outcomes, Cancelled
<1>6. request' \in [Desks -> Request]
  BY <1>3 DEF Shapes
<1>. QED  BY <1>3, <1>4, <1>5, <1>6 DEF ShapeInv, TypeOK

LEMMA ReslotTypes ==
  ASSUME ShapeInv, NEW d \in Desks, NEW at \in Nat, request[d].pc \in Writes,
         Reslot(d, at, "emit"), UNCHANGED <<now, vouchers, series>>
  PROVE  ShapeInv'
<1>. DEFINE b == request[d].b
            st == "confirmed"
            made == "moved"
            row2 == [row[b] EXCEPT !.status = st, !.at = at, !.made = made]
<1>0. /\ b \in Bookings /\ row[b] \in Row /\ row \in [Bookings -> Row] /\ Shapes
      /\ total \in [Counters -> Nat] /\ listed \in [Bookings -> Nat \cup {NotListed}]
      /\ raced \subseteq Bookings
  BY DEF ShapeInv, TypeOK, Shapes, Shape, Aimed
<1>1. /\ row' = [row EXCEPT ![b] = row2]
      /\ listed' = [listed EXCEPT ![b] = at]
      /\ total' = [total EXCEPT !["rescheduled"] = @ + 1]
      /\ AfterWrite(d, b, "emit", TRUE)
      /\ raced' = raced \/ raced' = raced \cup {b}
  BY DEF Reslot, Count, NoteRace
<1>2. row2 \in Row
  <2>1. st \in Outcomes \cup {"none", "confirmed"} /\ made \in {"desk", "unseen", "series", "moved"}
    OBVIOUS
  <2>. HIDE DEF st, made
  <2>. QED  BY <1>0, <2>1 DEF Row
<1>. HIDE DEF b, row2
<1>3. Shapes'
  <2>. DEFINE slot == TRUE
              next == "emit"
  <2>1. AfterWrite(d, b, next, slot) /\ slot \in BOOLEAN /\ next \in {"emit", "recover"}
        /\ next # "recover"
    BY <1>1
  <2>. HIDE DEF slot, next
  <2>. QED  BY <1>0, <2>1, ShapeWrites
<1>4. row' \in [Bookings -> Row] /\ listed' \in [Bookings -> Nat \cup {NotListed}]
      /\ raced' \subseteq Bookings
  BY <1>0, <1>2, <1>1
<1>5. total' \in [Counters -> Nat]
  BY <1>0, <1>1 DEF Counters, Events, Outcomes, Cancelled
<1>6. request' \in [Desks -> Request]
  BY <1>3 DEF Shapes
<1>. QED  BY <1>3, <1>4, <1>5, <1>6 DEF ShapeInv, TypeOK

LEMMA EnterTypes ==
  ASSUME ShapeInv, NEW d \in Desks, NEW b \in Bookings, NEW at \in Nat, NEW dur \in Nat,
         NEW made \in {"desk", "unseen", "series", "moved"}, Enter(d, b, at, dur, made, "emit"),
         UNCHANGED <<now, vouchers, series, raced>>
  PROVE  ShapeInv'
<1>. DEFINE row2 == [status |-> "confirmed", at |-> at, dur |-> dur, made |-> made]
<1>0. /\ row \in [Bookings -> Row] /\ Shapes
      /\ total \in [Counters -> Nat] /\ listed \in [Bookings -> Nat \cup {NotListed}]
  BY DEF ShapeInv, TypeOK
<1>1. row2 \in Row
  BY DEF Row
<1>2. /\ row' = [row EXCEPT ![b] = row2]
      /\ listed' = [listed EXCEPT ![b] = at]
      /\ total' = [total EXCEPT !["confirmed"] = @ + 1]
      /\ AfterWrite(d, b, "emit", TRUE)
  BY DEF Enter, Count
<1>. HIDE DEF row2
<1>3. Shapes'
  <2>. DEFINE slot == TRUE
              next == "emit"
  <2>1. AfterWrite(d, b, next, slot) /\ slot \in BOOLEAN /\ next \in {"emit", "recover"}
        /\ next # "recover"
    BY <1>2
  <2>. HIDE DEF slot, next
  <2>. QED  BY <1>0, <2>1, ShapeWrites
<1>4. row' \in [Bookings -> Row] /\ listed' \in [Bookings -> Nat \cup {NotListed}]
  BY <1>0, <1>1, <1>2
<1>5. total' \in [Counters -> Nat]
  BY <1>0, <1>2 DEF Counters, Events, Outcomes, Cancelled
<1>6. request' \in [Desks -> Request]
  BY <1>3 DEF Shapes
<1>. QED  BY <1>3, <1>4, <1>5, <1>6 DEF ShapeInv, TypeOK

(***************************************************************************)
(* What a step of a request may be: one of the three writes, at the stage  *)
(* that makes it, or a step that touches no booking.                       *)
(***************************************************************************)
BookStep(d, b) ==
    /\ At(d, "look") /\ request[d].left = {}
    /\ Enter(d, b, request[d].at, request[d].dur,
             IF request[d].stale THEN "unseen" ELSE "desk", "emit")

SeriesStep(d, b, at) ==
    At(d, "series") /\ at \in Nat /\ Enter(d, b, at, request[d].dur, "series", "emit")

SettleStep(d, outcome, next) ==
    /\ Settle(d, outcome, next) /\ outcome = request[d].to
    /\ \/ At(d, "absent") /\ outcome = "no_show" /\ next = "recover"
       \/ request[d].pc \in Writes \ {"absent"} /\ outcome # "no_show" /\ next = "emit"

ReslotStep(d) ==
    /\ request[d].pc \in Writes /\ request[d].to = "rescheduled"
    /\ Reslot(d, request[d].at, "emit")

WriteStep(d) ==
    /\ UNCHANGED <<now, vouchers, series>>
    /\ \/ /\ UNCHANGED raced
          /\ \E b \in Bookings : BookStep(d, b) \/ \E at \in Nat : SeriesStep(d, b, at)
       \/ \E outcome \in Outcomes, next \in {"emit", "recover"} : SettleStep(d, outcome, next)
       \/ ReslotStep(d)

LEMMA StepIs ==
  ASSUME ShapeInv, [Next]_vars
  PROVE  \/ Tick \/ UNCHANGED vars
         \/ \E d \in Desks : BeginStep(d) \/ ProceedStep(d) \/ WriteStep(d)
<1>. SUFFICES ASSUME Next, ~Tick
              PROVE  \E d \in Desks : BeginStep(d) \/ ProceedStep(d) \/ WriteStep(d)
  OBVIOUS
<1>1. ASSUME NEW d \in Desks, CheckIn(d) PROVE WriteStep(d)
  <2>1. SettleStep(d, "honored", "emit")
    BY <1>1 DEF CheckIn, SettleStep, At, Writes, ShapeInv, Shapes, Shape, Says
  <2>. QED  BY <1>1, <2>1 DEF CheckIn, WriteStep, Outcomes
<1>2. ASSUME NEW d \in Desks, Cancel(d) PROVE WriteStep(d)
  <2>. DEFINE to == request[d].to
  <2>1. to \in Cancelled /\ request[d].pc = "cancel"
    BY <1>2 DEF Cancel, At, ShapeInv, Shapes, Shape, Says
  <2>2. to \in Outcomes /\ to # "no_show"
    BY <2>1 DEF Outcomes, Cancelled
  <2>3. SettleStep(d, to, "emit")
    BY <1>2, <2>1, <2>2 DEF Cancel, SettleStep, Writes
  <2>. HIDE DEF to
  <2>. QED  BY <1>2, <2>2, <2>3 DEF Cancel, WriteStep
<1>3. ASSUME NEW d \in Desks, MarkNoShow(d) PROVE WriteStep(d)
  <2>1. SettleStep(d, "no_show", "recover")
    BY <1>3 DEF MarkNoShow, SettleStep, At, ShapeInv, Shapes, Shape, InLoop, Says
  <2>. QED  BY <1>3, <2>1 DEF MarkNoShow, WriteStep, Outcomes
<1>4. ASSUME NEW d \in Desks, DropWrite(d) PROVE WriteStep(d)
  <2>1. SettleStep(d, "cancelled_by_user", "emit")
    BY <1>4 DEF DropWrite, SettleStep, At, Writes, ShapeInv, Shapes, Shape, InLoop, Says
  <2>. QED  BY <1>4, <2>1 DEF DropWrite, WriteStep, Outcomes, Cancelled
<1>5. ASSUME NEW d \in Desks, Move(d) \/ ShiftWrite(d) PROVE WriteStep(d)
  BY <1>5 DEF Move, ShiftWrite, ReslotStep, WriteStep, At, Writes, ShapeInv, Shapes, Shape, InLoop,
              Says
<1>6. ASSUME NEW d \in Desks, NEW b \in Bookings, Book(d, b) PROVE WriteStep(d)
  BY <1>6 DEF Book, BookStep, WriteStep
<1>7. ASSUME NEW d \in Desks, NEW b \in Bookings, SeriesBook(d, b) PROVE WriteStep(d)
  <2>. DEFINE left == request[d].left
              at == request[d].at + (Min(left) - 1) * Cadence
  <2>1. left \subseteq Nat \ {0} /\ left # {} /\ request[d].at \in Nat
    BY <1>7 DEF SeriesBook, At, ShapeInv, Shapes, Shape, InLoop, Request
  <2>2. Min(left) \in left
    BY <2>1, MinExists
  <2>3. Min(left) - 1 \in Nat /\ Cadence \in Nat
    BY <2>1, <2>2
  <2>4. at \in Nat
    <3>. DEFINE m == Min(left) - 1
                x == m * Cadence
    <3>. HIDE DEF m
    <3>1. x \in Nat
      BY <2>3 DEF m
    <3>. QED  BY <2>1, <3>1 DEF m
  <2>5. SeriesStep(d, b, at)
    BY <1>7, <2>4 DEF SeriesBook, SeriesStep
  <2>6. UNCHANGED <<now, vouchers, series, raced>>
    BY <1>7 DEF SeriesBook
  <2>. HIDE DEF at
  <2>. QED  BY <2>4, <2>5, <2>6 DEF WriteStep
<1>. QED
  BY <1>1, <1>2, <1>3, <1>4, <1>5, <1>6, <1>7 DEF Next, BeginStep, ProceedStep, AutoCheckIn

LEMMA WriteTypes ==
  ASSUME ShapeInv, NEW d \in Desks, WriteStep(d)
  PROVE  ShapeInv'
<1>. DEFINE r == request[d]
<1>0. r.at \in Nat /\ r.dur \in Nat
  BY DEF ShapeInv, Shapes, Shape, Request
<1>1. ASSUME NEW b \in Bookings, BookStep(d, b), UNCHANGED raced PROVE ShapeInv'
  <2>. DEFINE made == IF r.stale THEN "unseen" ELSE "desk"
  <2>1. made \in {"desk", "unseen", "series", "moved"} /\ Enter(d, b, r.at, r.dur, made, "emit")
        /\ UNCHANGED <<now, vouchers, series, raced>>
    BY <1>1 DEF BookStep, WriteStep
  <2>. HIDE DEF made, r
  <2>. QED  BY <1>0, <2>1, EnterTypes
<1>2. ASSUME NEW b \in Bookings, NEW at \in Nat, SeriesStep(d, b, at), UNCHANGED raced
      PROVE  ShapeInv'
  <2>. DEFINE made == "series"
  <2>1. made \in {"desk", "unseen", "series", "moved"} /\ Enter(d, b, at, r.dur, made, "emit")
        /\ UNCHANGED <<now, vouchers, series, raced>>
    BY <1>2 DEF SeriesStep, WriteStep
  <2>. HIDE DEF made, r
  <2>. QED  BY <1>0, <2>1, EnterTypes
<1>3. ASSUME NEW outcome \in Outcomes, NEW next \in {"emit", "recover"}, SettleStep(d, outcome, next)
      PROVE  ShapeInv'
  <2>1. /\ request[d].pc \in Writes /\ (next = "recover" => request[d].loop = "scan")
        /\ Settle(d, outcome, next) /\ UNCHANGED <<now, vouchers, series>>
    BY <1>3 DEF SettleStep, WriteStep, At, Writes, ShapeInv, Shapes, Shape, InLoop
  <2>. QED  BY <2>1, SettleTypes
<1>4. CASE ReslotStep(d)
  <2>1. /\ request[d].pc \in Writes /\ Reslot(d, r.at, "emit") /\ UNCHANGED <<now, vouchers, series>>
    BY <1>4 DEF ReslotStep, WriteStep
  <2>. HIDE DEF r
  <2>. QED  BY <1>0, <2>1, ReslotTypes
<1>. QED  BY <1>1, <1>2, <1>3, <1>4 DEF WriteStep

\* What issues vouchers: the recovery, or the triggers of the event published.
Issues(b, s, n) == /\ b \in Bookings /\ s \in Sources /\ n \in Nat
                   /\ vouchers' = [vouchers EXCEPT ![<<b, s>>] = @ + n]

LEMMA VouchersAre ==
  ASSUME ShapeInv, NEW d \in Desks
  PROVE  /\ IssueRecoveryVoucher(d) => \/ UNCHANGED vouchers
                                       \/ Issues(request[d].b, "recovery", 1)
         /\ Emit(d) => /\ Published(request[d].to) \in Events
                       /\ \E n \in 0..Rewards[Published(request[d].to)] :
                             Issues(request[d].b, Published(request[d].to), n)
<1>. DEFINE e == Published(request[d].to)
<1>1. Shape(request[d])
  BY DEF ShapeInv, Shapes
<1>2. request[d].to \in Events
  BY <1>1 DEF Shape, Request
<1>3. e \in Events
  BY <1>2 DEF Published, Events, Outcomes, Cancelled
<1>4. IssueRecoveryVoucher(d) \/ Emit(d) => request[d].b \in Bookings
  BY <1>1 DEF IssueRecoveryVoucher, Emit, At, Shape, Aimed
<1>5. IssueRecoveryVoucher(d) => UNCHANGED vouchers \/ Issues(request[d].b, "recovery", 1)
  BY <1>4 DEF IssueRecoveryVoucher, Issues, Sources
<1>6. ASSUME Emit(d) PROVE \E n \in 0..Rewards[e] : Issues(request[d].b, e, n)
  <2>1. PICK n \in 0..Rewards[e] : vouchers' = [vouchers EXCEPT ![<<request[d].b, e>>] = @ + n]
    BY <1>6 DEF Emit
  <2>2. Rewards[e] \in Nat
    BY <1>3
  <2>3. n \in Nat
    BY <2>2
  <2>. HIDE DEF e
  <2>4. Issues(request[d].b, e, n)
    BY <1>3, <1>4, <1>6, <2>1, <2>3 DEF Issues, Sources
  <2>. QED  BY <2>4
<1>. QED  BY <1>3, <1>5, <1>6

LEMMA VouchersGrow ==
  ASSUME ShapeInv, NEW d \in Desks, IssueRecoveryVoucher(d) \/ Emit(d)
  PROVE  vouchers' \in [Bookings \X Sources -> Nat]
<1>0. vouchers \in [Bookings \X Sources -> Nat]
  BY DEF ShapeInv, TypeOK
<1>1. \/ UNCHANGED vouchers
      \/ \E b \in Bookings, s \in Sources, n \in Nat : Issues(b, s, n)
  BY VouchersAre DEF Issues
<1>2. ASSUME NEW b \in Bookings, NEW s \in Sources, NEW n \in Nat, Issues(b, s, n)
      PROVE  vouchers' \in [Bookings \X Sources -> Nat]
  <2>. DEFINE i == <<b, s>>
  <2>1. i \in Bookings \X Sources /\ vouchers' = [vouchers EXCEPT ![i] = @ + n]
    BY <1>2 DEF Issues
  <2>. HIDE DEF i
  <2>. QED  BY <1>0, <2>1
<1>. QED  BY <1>0, <1>1, <1>2

LEMMA QuietTypes ==
  ASSUME ShapeInv, NEW d \in Desks, BeginStep(d) \/ ProceedStep(d)
  PROVE  ShapeInv'
<1>1. Shapes'
  BY BeginShape, ProceedShape
<1>2. request' \in [Desks -> Request]
  BY <1>1 DEF Shapes
<1>3. UNCHANGED <<now, row, listed, total>>
  BY DEF BeginStep, ProceedStep, AskBook, AskCheckIn, AskCancel, AskMove, StartScan, CancelSeries,
         StartSeries, MoveSeries, LookAt, ScanRow, IssueRecoveryVoucher, ScanDone, SeriesPush,
         DropRead, DropDone, ShiftRead, ShiftDone, Emit, Die, bookVars
<1>4. /\ vouchers' \in [Bookings \X Sources -> Nat]
      /\ series' \in [status : {"none", "active", "cancelled"}, members : SUBSET Bookings, since : Nat]
      /\ raced' \subseteq Bookings
  <2>0. /\ vouchers \in [Bookings \X Sources -> Nat]
        /\ series \in [status : {"none", "active", "cancelled"}, members : SUBSET Bookings, since : Nat]
        /\ raced \subseteq Bookings /\ request[d] \in Request /\ Shape(request[d])
    BY DEF ShapeInv, TypeOK, Shapes, Shape
  <2>1. CASE UNCHANGED <<vouchers, series, raced>>
    BY <2>0, <2>1
  <2>2. CASE IssueRecoveryVoucher(d) \/ Emit(d)
    <3>1. UNCHANGED <<series, raced>>
      BY <2>2 DEF IssueRecoveryVoucher, Emit
    <3>2. vouchers' \in [Bookings \X Sources -> Nat]
      BY <2>0, <2>2, VouchersGrow
    <3>. QED  BY <2>0, <3>1, <3>2
  <2>3. CASE \E at \in Slots, dur \in Durations : StartSeries(d, at, dur)
    <3>. DEFINE st == "active"
    <3>1. series' = [series EXCEPT !.status = st] /\ UNCHANGED <<vouchers, raced>>
          /\ st \in {"none", "active", "cancelled"}
      BY <2>3 DEF StartSeries
    <3>. HIDE DEF st
    <3>. QED  BY <2>0, <3>1
  <2>4. CASE SeriesPush(d)
    <3>1. request[d].b \in Bookings
      BY <2>0, <2>4 DEF SeriesPush, At, Shape, InLoop, Aimed
    <3>2. series' = [series EXCEPT !.members = @ \cup {request[d].b}] /\ UNCHANGED vouchers
          /\ (raced' = raced \/ raced' = raced \cup {request[d].b})
      BY <2>4 DEF SeriesPush
    <3>. QED  BY <2>0, <3>1, <3>2
  <2>5. CASE DropDone(d)
    <3>. DEFINE st == "cancelled"
                since == request[d].since
    <3>1. series' = [series EXCEPT !.status = st, !.since = since] /\ UNCHANGED <<vouchers, raced>>
          /\ st \in {"none", "active", "cancelled"} /\ since \in Nat
      BY <2>0, <2>5 DEF DropDone, Request
    <3>. HIDE DEF st, since
    <3>. QED  BY <2>0, <3>1
  <2>. QED
    BY <2>1, <2>2, <2>3, <2>4, <2>5
       DEF BeginStep, ProceedStep, AskBook, AskCheckIn, AskCancel, AskMove, StartScan, CancelSeries,
           MoveSeries, LookAt, ScanRow, ScanDone, DropRead, ShiftRead, ShiftDone, Die
<1>. QED  BY <1>1, <1>2, <1>3, <1>4 DEF ShapeInv, TypeOK

LEMMA ShapeInit == Init => ShapeInv
<1>. SUFFICES ASSUME Init PROVE ShapeInv
  OBVIOUS
<1>1. Shape(Idle)
  BY IdleIs DEF Shape, InLoop, Loops, Aimed, Writes, Says
<1>2. Shapes
  BY <1>1, IdleIs DEF Init, Shapes
<1>3. TypeOK
  BY IdleIs DEF Init, TypeOK, Row, NoRow, Outcomes, Bookings, Counters
<1>. QED  BY <1>2, <1>3 DEF ShapeInv

LEMMA ShapeNext == ShapeInv /\ [Next]_vars => ShapeInv'
<1>. SUFFICES ASSUME ShapeInv, [Next]_vars PROVE ShapeInv'
  OBVIOUS
<1>1. CASE Tick
  <2>1. now' \in 0..LastTime
    BY <1>1 DEF Tick, ShapeInv, TypeOK
  <2>. QED  BY <1>1, <2>1 DEF Tick, ShapeInv, TypeOK, Shapes, Shape, InLoop, Aimed, Says, bookVars
<1>2. CASE UNCHANGED vars
  BY <1>2 DEF vars, bookVars, ShapeInv, TypeOK, Shapes, Shape, InLoop, Aimed
<1>. QED  BY <1>1, <1>2, StepIs, WriteTypes, QuietTypes

(***************************************************************************)
(* Every request keeps its stage, loop and aim consistent, whatever dies   *)
(* and however requests interleave.                                        *)
(***************************************************************************)
THEOREM ReservationsTyped == Spec => []TypeOK
<1>1. ShapeInv => TypeOK
  BY DEF ShapeInv
<1>. QED  BY <1>1, ShapeInit, ShapeNext, PTL DEF Spec
-----------------------------------------------------------------------------
\* What each write makes of the rows, field by field.
Others(b) == \A c \in Bookings \ {b} : row'[c] = row[c] /\ listed'[c] = listed[c]

LEMMA BookIs ==
  ASSUME ShapeInv, NEW d \in Desks, NEW b \in Bookings, BookStep(d, b)
  PROVE  /\ row[b].status = "none" /\ Others(b) /\ listed'[b] = request[d].at
         /\ row'[b].status = "confirmed" /\ row'[b].at = request[d].at
         /\ row'[b].dur = request[d].dur
         /\ row'[b].made = IF request[d].stale THEN "unseen" ELSE "desk"
         /\ AfterWrite(d, b, "emit", TRUE)
         /\ total' = [total EXCEPT !["confirmed"] = @ + 1]
  BY DEF BookStep, Enter, New, Others, ShapeInv, TypeOK, Count

LEMMA SeriesIs ==
  ASSUME ShapeInv, NEW d \in Desks, NEW b \in Bookings, NEW at \in Nat, SeriesStep(d, b, at)
  PROVE  /\ row[b].status = "none" /\ Others(b) /\ listed'[b] = at
         /\ row'[b].status = "confirmed" /\ row'[b].at = at
         /\ row'[b].dur = request[d].dur /\ row'[b].made = "series"
         /\ AfterWrite(d, b, "emit", TRUE)
         /\ total' = [total EXCEPT !["confirmed"] = @ + 1]
  BY DEF SeriesStep, Enter, New, Others, ShapeInv, TypeOK, Count

\* The booking a request is about to write.
Aim(d) == request[d].b

LEMMA SettleIs ==
  ASSUME ShapeInv, NEW d \in Desks, NEW outcome \in Outcomes, NEW next \in {"emit", "recover"},
         SettleStep(d, outcome, next)
  PROVE  /\ Aim(d) \in Bookings /\ request[d].pc \in Writes /\ Others(Aim(d))
         /\ row'[Aim(d)].status = outcome /\ row'[Aim(d)].at = row[Aim(d)].at
         /\ row'[Aim(d)].dur = row[Aim(d)].dur /\ row'[Aim(d)].made = row[Aim(d)].made
         /\ listed'[Aim(d)] = IF outcome = "honored" THEN listed[Aim(d)] ELSE NotListed
         /\ AfterWrite(d, Aim(d), next, FALSE) /\ NoteRace(d)
         /\ total' = [total EXCEPT ![outcome] = @ + 1]
<1>. DEFINE b == Aim(d)
<1>1. request[d].pc \in Writes
  BY DEF SettleStep, At, Writes
<1>2. b \in Bookings
  BY <1>1 DEF ShapeInv, Shapes, Shape, Aimed, Aim
<1>3. /\ row \in [Bookings -> Row] /\ row[b] \in Row
      /\ listed \in [Bookings -> Nat \cup {NotListed}]
  BY <1>2 DEF ShapeInv, TypeOK
<1>4. /\ row' = [row EXCEPT ![b].status = outcome]
      /\ listed' = IF outcome = "honored" THEN listed ELSE [listed EXCEPT ![b] = NotListed]
      /\ AfterWrite(d, b, next, FALSE) /\ NoteRace(d)
      /\ total' = [total EXCEPT ![outcome] = @ + 1]
  BY DEF SettleStep, Settle, Count, Aim
<1>. HIDE DEF b
<1>5. Others(b)
  BY <1>2, <1>3, <1>4 DEF Others
<1>6. /\ row'[b].status = outcome /\ row'[b].at = row[b].at
      /\ row'[b].dur = row[b].dur /\ row'[b].made = row[b].made
  BY <1>2, <1>3, <1>4 DEF Row
<1>7. listed'[b] = IF outcome = "honored" THEN listed[b] ELSE NotListed
  BY <1>2, <1>3, <1>4
<1>. QED  BY <1>1, <1>2, <1>4, <1>5, <1>6, <1>7 DEF b

LEMMA ReslotIs ==
  ASSUME ShapeInv, NEW d \in Desks, ReslotStep(d)
  PROVE  /\ Aim(d) \in Bookings /\ request[d].pc \in Writes /\ Others(Aim(d))
         /\ row'[Aim(d)].status = "confirmed" /\ row'[Aim(d)].at = request[d].at
         /\ row'[Aim(d)].dur = row[Aim(d)].dur /\ row'[Aim(d)].made = "moved"
         /\ listed'[Aim(d)] = request[d].at
         /\ AfterWrite(d, Aim(d), "emit", TRUE) /\ NoteRace(d)
         /\ total' = [total EXCEPT !["rescheduled"] = @ + 1]
<1>. DEFINE b == Aim(d)
<1>1. request[d].pc \in Writes
  BY DEF ReslotStep
<1>2. b \in Bookings
  BY <1>1 DEF ShapeInv, Shapes, Shape, Aimed, Aim
<1>3. /\ row \in [Bookings -> Row] /\ row[b] \in Row
      /\ listed \in [Bookings -> Nat \cup {NotListed}]
  BY <1>2 DEF ShapeInv, TypeOK
<1>4. /\ row' = [row EXCEPT ![b].status = "confirmed", ![b].at = request[d].at, ![b].made = "moved"]
      /\ listed' = [listed EXCEPT ![b] = request[d].at]
      /\ AfterWrite(d, b, "emit", TRUE) /\ NoteRace(d)
      /\ total' = [total EXCEPT !["rescheduled"] = @ + 1]
  BY DEF ReslotStep, Reslot, Count, Aim
<1>. HIDE DEF b
<1>5. Others(b) /\ listed'[b] = request[d].at
  BY <1>2, <1>3, <1>4 DEF Others
<1>6. /\ row'[b].status = "confirmed" /\ row'[b].at = request[d].at
      /\ row'[b].dur = row[b].dur /\ row'[b].made = "moved"
  BY <1>2, <1>3, <1>4 DEF Row
<1>. QED  BY <1>1, <1>2, <1>4, <1>5, <1>6 DEF b

LEMMA QuietIs ==
  ASSUME NEW d \in Desks, BeginStep(d) \/ ProceedStep(d)
  PROVE  UNCHANGED <<now, row, listed, total>>
  BY DEF BeginStep, ProceedStep, AskBook, AskCheckIn, AskCancel, AskMove, StartScan, CancelSeries,
         StartSeries, MoveSeries, LookAt, ScanRow, IssueRecoveryVoucher, ScanDone, SeriesPush,
         DropRead, DropDone, ShiftRead, ShiftDone, Emit, Die, bookVars

LEMMA CalendarNext ==
  ASSUME ShapeInv, CalendarShowsLive, [Next]_vars
  PROVE  CalendarShowsLive'
<1>. DEFINE Shown(b) == /\ Confirmed(b) => listed[b] = row[b].at
                        /\ listed[b] # NotListed => /\ row[b].status \in {"confirmed", "honored"}
                                                    /\ listed[b] = row[b].at
<1>0. \A b \in Bookings : Shown(b)
  BY DEF CalendarShowsLive
<1>1. CASE UNCHANGED <<row, listed>>
  BY <1>0, <1>1 DEF CalendarShowsLive, Confirmed
<1>2. ASSUME NEW b \in Bookings, Others(b), Shown(b)' PROVE CalendarShowsLive'
  <2>1. ASSUME NEW c \in Bookings, c # b PROVE Shown(c)'
    BY <1>0, <1>2, <2>1 DEF Others, Confirmed
  <2>. QED  BY <1>2, <2>1 DEF CalendarShowsLive
<1>3. ASSUME NEW d \in Desks, NEW b \in Bookings, BookStep(d, b) PROVE CalendarShowsLive'
  <2>1. Others(b) /\ row'[b].status = "confirmed" /\ row'[b].at = request[d].at
        /\ listed'[b] = request[d].at
    BY <1>3, BookIs
  <2>. QED  BY <1>2, <2>1 DEF Confirmed
<1>4. ASSUME NEW d \in Desks, NEW b \in Bookings, NEW at \in Nat, SeriesStep(d, b, at)
      PROVE  CalendarShowsLive'
  <2>1. Others(b) /\ row'[b].status = "confirmed" /\ row'[b].at = at /\ listed'[b] = at
    BY ONLY ShapeInv, <1>4, SeriesIs
  <2>. QED  BY <1>2, <2>1 DEF Confirmed
<1>5. ASSUME NEW d \in Desks, NEW outcome \in Outcomes, NEW next \in {"emit", "recover"},
             SettleStep(d, outcome, next)
      PROVE  CalendarShowsLive'
  <2>. DEFINE b == Aim(d)
  <2>1. /\ b \in Bookings /\ Others(b) /\ row'[b].status = outcome /\ row'[b].at = row[b].at
        /\ listed'[b] = IF outcome = "honored" THEN listed[b] ELSE NotListed
    BY <1>5, SettleIs
  <2>. HIDE DEF b
  <2>2. outcome # "confirmed"
    BY DEF Outcomes, Cancelled
  <2>. QED  BY <1>0, <1>2, <2>1, <2>2 DEF Confirmed
<1>6. ASSUME NEW d \in Desks, ReslotStep(d) PROVE CalendarShowsLive'
  <2>. DEFINE b == Aim(d)
  <2>1. /\ b \in Bookings /\ Others(b) /\ row'[b].status = "confirmed"
        /\ row'[b].at = request[d].at /\ listed'[b] = request[d].at
    BY <1>6, ReslotIs
  <2>. HIDE DEF b
  <2>. QED  BY <1>2, <2>1 DEF Confirmed
<1>. QED
  BY <1>1, <1>3, <1>4, <1>5, <1>6, StepIs, QuietIs DEF WriteStep, Tick, vars, bookVars

(***************************************************************************)
(* However many requests overtake each other, the calendars show a booking *)
(* at its own time and only while it stands (create_reservation, cancel,   *)
(* reschedule, check-in, the no-show scan and the series calls all write   *)
(* row and calendars in one pipeline).                                     *)
(***************************************************************************)
THEOREM CalendarHolds == Spec => []CalendarShowsLive
<1>. DEFINE Inv == ShapeInv /\ CalendarShowsLive
<1>1. Init => Inv
  <2>1. Init => CalendarShowsLive
    BY DEF Init, CalendarShowsLive, Confirmed, NoRow
  <2>. QED  BY <2>1, ShapeInit
<1>2. Inv /\ [Next]_vars => Inv'
  BY ShapeNext, CalendarNext
<1>. QED  BY <1>1, <1>2, PTL DEF Spec
-----------------------------------------------------------------------------
\* What a write and a quiet step make of the requests.
LEMMA AfterWriteIs ==
  ASSUME ShapeInv, NEW d \in Desks, NEW b \in Bookings, NEW next, NEW slot, AfterWrite(d, b, next, slot),
         NEW e \in Desks
  PROVE  /\ request'[d].pc = next
         /\ request[d].loop # "idle" => /\ request'[d].loop = request[d].loop
                                        /\ request'[d].since = request[d].since
                                        /\ request'[d].left = request[d].left
         /\ request[d].loop = "idle" => request'[d].loop = "idle" /\ request'[d].since = 0
         /\ request'[d].b = b /\ request'[d].to = request[d].to
         /\ e # d => /\ request'[e].pc = request[e].pc /\ request'[e].loop = request[e].loop
                     /\ request'[e].b = request[e].b /\ request'[e].at = request[e].at
                     /\ request'[e].dur = request[e].dur /\ request'[e].since = request[e].since
                     /\ request'[e].left = request[e].left /\ request'[e].to = request[e].to
                     /\ ~request'[e].stale => /\ ~request[e].stale /\ ~Overtaken(e, b)
                                              /\ slot => request[e].pc # "look"
<1>1. request[d] \in Request /\ request[e] \in Request
  BY DEF ShapeInv, Shapes
<1>2. request'[d] = IF request[d].loop = "idle"
                    THEN [Idle EXCEPT !.pc = next, !.b = b, !.to = request[d].to]
                    ELSE [request[d] EXCEPT !.pc = next, !.b = b, !.stale = FALSE]
  BY DEF AfterWrite
<1>3. /\ request'[d].pc = next
      /\ request[d].loop # "idle" => /\ request'[d].loop = request[d].loop
                                     /\ request'[d].since = request[d].since
                                     /\ request'[d].left = request[d].left
      /\ request[d].loop = "idle" => request'[d].loop = "idle" /\ request'[d].since = 0
      /\ request'[d].b = b /\ request'[d].to = request[d].to
  BY <1>1, <1>2, IdleIs DEF Request
<1>4. CASE e # d
  <2>1. request'[e] = IF Overtaken(e, b) \/ (slot /\ At(e, "look"))
                      THEN [request[e] EXCEPT !.stale = TRUE] ELSE request[e]
    BY <1>4 DEF AfterWrite
  <2>. QED  BY <1>1, <1>3, <2>1 DEF Request, At
<1>. QED  BY <1>3, <1>4

LEMMA SlotTaken ==
  ASSUME ShapeInv, NEW d \in Desks, NEW b \in Bookings, AfterWrite(d, b, "emit", TRUE),
         NEW e \in Desks
  PROVE  request'[e].pc # "look" \/ request'[e].stale
<1>1. CASE e = d
  BY <1>1, IdleIs DEF AfterWrite, ShapeInv, Shapes, Request
<1>2. CASE e # d
  BY <1>2 DEF AfterWrite, At, ShapeInv, Shapes, Request
<1>. QED  BY <1>1, <1>2

LEMMA QuietMoves ==
  ASSUME ShapeInv, NEW d \in Desks, BeginStep(d) \/ ProceedStep(d)
  PROVE  \A e \in Desks \ {d} : request'[e] = request[e]
<1>1. \E r2 : request' = [request EXCEPT ![d] = r2]
  BY DEF BeginStep, ProceedStep, AskBook, AskCheckIn, AskCancel, AskMove, StartScan, CancelSeries,
         StartSeries, MoveSeries, LookAt, ScanRow, IssueRecoveryVoucher, ScanDone, SeriesPush,
         DropRead, DropDone, ShiftRead, ShiftDone, Emit, Die, Begin, Finish, Goto
<1>. QED  BY <1>1 DEF ShapeInv, Shapes

\* Where a quiet step takes its request.
LEMMA BeginIs ==
  ASSUME ShapeInv, NEW d \in Desks, BeginStep(d)
  PROVE  \/ /\ request'[d].pc = "look" /\ request'[d].loop = "idle" /\ request'[d].since = 0
            /\ UNCHANGED <<series, raced>> /\ \E at \in Slots, dur \in Durations : AskBook(d, at, dur)
         \/ /\ request'[d].pc \in {"honor", "cancel", "move"} /\ request'[d].loop = "idle"
            /\ request'[d].since = 0 /\ Confirmed(request'[d].b) /\ UNCHANGED <<series, raced>>
         \/ /\ request'[d].pc \in {"scan", "shift"} /\ request'[d].loop = request'[d].pc
            /\ request'[d].since = now /\ UNCHANGED <<series, raced>>
         \/ /\ request'[d].pc = "drop" /\ request'[d].loop = "drop" /\ request'[d].since = now
            /\ request'[d].left = series.members /\ UNCHANGED <<series, raced>>
         \/ /\ request'[d].pc = "series" /\ request'[d].loop = "push" /\ request'[d].since = 0
            /\ series'.members = series.members /\ series'.status = "active" /\ raced' = raced
<1>0. request \in [Desks -> Request]
  BY DEF ShapeInv, Shapes
<1>1. ASSUME NEW at \in Slots, NEW dur \in Durations, AskBook(d, at, dur)
      PROVE  /\ request'[d].pc = "look" /\ request'[d].loop = "idle" /\ request'[d].since = 0
             /\ UNCHANGED <<series, raced>>
  BY <1>0, <1>1, IdleIs DEF AskBook, Begin, Request
<1>2. ASSUME NEW b \in Bookings, AskCheckIn(d, b)
      PROVE  /\ request'[d].pc = "honor" /\ request'[d].loop = "idle" /\ request'[d].since = 0
             /\ request'[d].b = b /\ Confirmed(b) /\ UNCHANGED <<series, raced>>
  BY <1>0, <1>2, IdleIs DEF AskCheckIn, Begin, Request
<1>3. ASSUME NEW b \in Bookings, NEW by, AskCancel(d, b, by)
      PROVE  /\ request'[d].pc = "cancel" /\ request'[d].loop = "idle" /\ request'[d].since = 0
             /\ request'[d].b = b /\ Confirmed(b) /\ UNCHANGED <<series, raced>>
  BY <1>0, <1>3, IdleIs DEF AskCancel, Begin, Request
<1>4. ASSUME NEW b \in Bookings, NEW at \in Slots, AskMove(d, b, at)
      PROVE  /\ request'[d].pc = "move" /\ request'[d].loop = "idle" /\ request'[d].since = 0
             /\ request'[d].b = b /\ Confirmed(b) /\ UNCHANGED <<series, raced>>
  BY <1>0, <1>4, IdleIs DEF AskMove, Begin, Request
<1>5. ASSUME StartScan(d)
      PROVE  /\ request'[d].pc = "scan" /\ request'[d].loop = "scan" /\ request'[d].since = now
             /\ UNCHANGED <<series, raced>>
  BY <1>0, <1>5, IdleIs DEF StartScan, Begin, Request
<1>6. ASSUME CancelSeries(d)
      PROVE  /\ request'[d].pc = "drop" /\ request'[d].loop = "drop" /\ request'[d].since = now
             /\ request'[d].left = series.members /\ UNCHANGED <<series, raced>>
  BY <1>0, <1>6, IdleIs DEF CancelSeries, Begin, Request
<1>7. ASSUME NEW at \in Slots, NEW dur \in Durations, StartSeries(d, at, dur)
      PROVE  /\ request'[d].pc = "series" /\ request'[d].loop = "push" /\ request'[d].since = 0
             /\ series'.members = series.members /\ series'.status = "active" /\ raced' = raced
  BY <1>0, <1>7, IdleIs DEF StartSeries, Begin, Request, ShapeInv, TypeOK
<1>8. ASSUME NEW b \in Bookings, NEW at \in Slots, MoveSeries(d, b, at)
      PROVE  /\ request'[d].pc = "shift" /\ request'[d].loop = "shift" /\ request'[d].since = now
             /\ UNCHANGED <<series, raced>>
  BY <1>0, <1>8, IdleIs DEF MoveSeries, Begin, Request
<1>. QED  BY <1>1, <1>2, <1>3, <1>4, <1>5, <1>6, <1>7, <1>8 DEF BeginStep

LEMMA ProceedIs ==
  ASSUME ShapeInv, NEW d \in Desks, ProceedStep(d)
  PROVE  /\ Finish(d) => request'[d].pc = "done" /\ request'[d].loop = "idle" /\ request'[d].since = 0
         /\ ~Finish(d) => request'[d].since = request[d].since /\ request'[d].loop = request[d].loop
         /\ request'[d].pc # "recover"
         /\ request'[d].pc = "emit" => IssueRecoveryVoucher(d) \/ Emit(d)
         /\ request'[d].pc = "look" => \E b \in Bookings : LookAt(d, b) /\ ~Finish(d)
         /\ request'[d].pc = "absent" => \E b \in Bookings : ScanRow(d, b)
         /\ request'[d].pc \in Writes => \/ DropRead(d) \/ ShiftRead(d)
                                        \/ \E b \in Bookings : ScanRow(d, b)
<1>0. request \in [Desks -> Request] /\ Shape(request[d])
  BY DEF ShapeInv, Shapes
<1>1. ASSUME Finish(d)
      PROVE  request'[d].pc = "done" /\ request'[d].loop = "idle" /\ request'[d].since = 0
  BY <1>0, <1>1, IdleIs DEF Finish, Done, Request
<1>. DEFINE Same == request'[d].since = request[d].since /\ request'[d].loop = request[d].loop
<1>2. ASSUME NEW b \in Bookings, LookAt(d, b), ~Finish(d) PROVE Same /\ request'[d].pc = "look"
  BY <1>0, <1>2 DEF LookAt, At, Request
<1>3. ASSUME NEW b \in Bookings, ScanRow(d, b) PROVE Same /\ request'[d].pc = "absent"
  BY <1>0, <1>3 DEF ScanRow, Request
<1>4. ASSUME IssueRecoveryVoucher(d) PROVE Same /\ request'[d].pc = "emit"
  BY <1>0, <1>4 DEF IssueRecoveryVoucher, Goto, Request
<1>5. ASSUME SeriesPush(d), ~Finish(d) PROVE Same /\ request'[d].pc = "series"
  BY <1>0, <1>5 DEF SeriesPush, Finish, Request
<1>6. ASSUME DropRead(d) PROVE Same /\ request'[d].pc \in {"drop", "drop_one"}
  BY <1>0, <1>6 DEF DropRead, At, Request
<1>7. ASSUME ShiftRead(d) PROVE Same /\ request'[d].pc \in {"shift", "shift_one"}
  BY <1>0, <1>7 DEF ShiftRead, At, Request
<1>8. ASSUME Emit(d), ~Finish(d) PROVE Same /\ request'[d].pc \in (Loops \ {"idle"}) \cup {"emit"}
  BY <1>0, <1>8 DEF Emit, At, Finish, Request, Shape, InLoop, Loops
<1>. HIDE DEF Same
<1>9. \/ Finish(d) /\ request'[d].pc = "done"
      \/ ~Finish(d) /\ Same /\ request'[d].pc = "look" /\ \E b \in Bookings : LookAt(d, b)
      \/ ~Finish(d) /\ Same /\ request'[d].pc = "absent" /\ \E b \in Bookings : ScanRow(d, b)
      \/ ~Finish(d) /\ Same /\ request'[d].pc \in {"series", "drop", "shift", "scan", "push"}
      \/ ~Finish(d) /\ Same /\ request'[d].pc = "emit" /\ (IssueRecoveryVoucher(d) \/ Emit(d))
      \/ ~Finish(d) /\ Same /\ request'[d].pc = "drop_one" /\ DropRead(d)
      \/ ~Finish(d) /\ Same /\ request'[d].pc = "shift_one" /\ ShiftRead(d)
  BY <1>1, <1>2, <1>3, <1>4, <1>5, <1>6, <1>7, <1>8
     DEF ProceedStep, ScanDone, DropDone, ShiftDone, Die, Loops
<1>. QED  BY <1>1, <1>9 DEF Same, Writes

(***************************************************************************)
(* A /create that is looking and has not been overtaken still has before it*)
(* every booking that stands in its way.                                   *)
(***************************************************************************)
Clashes(c, at, dur) == Guarded(c) /\ row[c].at < at + dur /\ at < row[c].at + row[c].dur

Watchful(r) == r.pc = "look" /\ ~r.stale =>
                  \A c \in Bookings : Clashes(c, r.at, r.dur) => c \in r.left

LookInv == \A d \in Desks : Watchful(request[d])

LEMMA UnguardedWrite ==
  ASSUME ShapeInv, LookInv, ShortBookingsDontOverlap, NEW d \in Desks, NEW b \in Bookings,
         NEW next \in {"emit", "recover"}, NEW slot, AfterWrite(d, b, next, slot),
         Others(b), ~Guarded(b)'
  PROVE  LookInv' /\ ShortBookingsDontOverlap'
<1>1. ASSUME NEW c \in Bookings, Guarded(c)'
      PROVE  c # b /\ Guarded(c) /\ row'[c] = row[c]
  BY <1>1 DEF Guarded, Confirmed, Others
<1>2. ShortBookingsDontOverlap'
  BY <1>1 DEF ShortBookingsDontOverlap, Overlap
<1>3. ASSUME NEW e \in Desks PROVE Watchful(request[e])'
  <2>1. CASE e = d
    BY <2>1, AfterWriteIs DEF Watchful
  <2>2. CASE e # d
    <3>1. /\ request'[e].pc = request[e].pc /\ request'[e].at = request[e].at
          /\ request'[e].dur = request[e].dur /\ request'[e].left = request[e].left
          /\ ~request'[e].stale => ~request[e].stale
      BY <2>2, AfterWriteIs
    <3>2. Watchful(request[e])
      BY DEF LookInv
    <3>. QED  BY <1>1, <3>1, <3>2 DEF Watchful, Clashes
  <2>. QED  BY <2>1, <2>2
<1>. QED  BY <1>2, <1>3 DEF LookInv

LEMMA QuietLooks ==
  ASSUME ShapeInv, CalendarShowsLive, LookInv, NEW d \in Desks, BeginStep(d) \/ ProceedStep(d)
  PROVE  Watchful(request[d])'
<1>1. UNCHANGED <<row, listed>>
  BY QuietIs
<1>2. request'[d].pc # "look" => Watchful(request[d])'
  BY DEF Watchful
<1>3. ASSUME NEW at \in Slots, NEW dur \in Durations, AskBook(d, at, dur)
      PROVE  Watchful(request[d])'
  <2>. DEFINE left == InTheWay(at, dur)
  <2>1. PICK unread \in BOOLEAN :
          request'[d] = [Idle EXCEPT !.pc = "look", !.to = "created", !.at = at, !.dur = dur,
                                     !.left = IF unread THEN {} ELSE left, !.stale = unread]
    BY <1>3 DEF AskBook, Begin, ShapeInv, Shapes
  <2>. HIDE DEF left
  <2>2. /\ request'[d].at = at /\ request'[d].dur = dur
        /\ ~request'[d].stale => request'[d].left = left
    BY <2>1, IdleIs DEF Request
  <2>3. ASSUME NEW c \in Bookings, Clashes(c, at, dur) PROVE c \in left
    <3>1. /\ listed[c] = row[c].at /\ row[c].dur <= HalfHour
          /\ row[c].at < at + dur /\ at < row[c].at + row[c].dur
      BY <2>3 DEF Clashes, Guarded, CalendarShowsLive
    <3>2. row[c].at \in Nat /\ row[c].dur \in Nat /\ at \in Nat /\ dur \in Nat /\ HalfHour \in Nat
          /\ NotListed \notin Nat
      BY DEF Slots, ShapeInv, TypeOK, Row
    <3>. QED  BY <3>1, <3>2 DEF InTheWay, left
  <2>. QED  BY <1>1, <2>2, <2>3 DEF Watchful, Clashes, Guarded, Confirmed
<1>4. ASSUME NEW b \in Bookings, LookAt(d, b), ~Finish(d) PROVE Watchful(request[d])'
  <2>1. /\ \/ ~Confirmed(b) /\ request' = [request EXCEPT ![d].left = @ \ {b}]
           \/ request' = [request EXCEPT ![d].left = @ \ {b}, ![d].stale = TRUE]
        /\ request[d].pc = "look"
    BY <1>4 DEF LookAt, At
  <2>2. /\ request'[d].left = request[d].left \ {b} /\ request'[d].at = request[d].at
        /\ request'[d].dur = request[d].dur
        /\ ~request'[d].stale => ~Confirmed(b) /\ ~request[d].stale
    BY <2>1 DEF ShapeInv, Shapes, Request
  <2>3. Watchful(request[d])
    BY DEF LookInv
  <2>. QED  BY <1>1, <2>1, <2>2, <2>3 DEF Watchful, Clashes, Guarded, Confirmed
<1>. QED  BY <1>2, <1>3, <1>4, BeginIs, ProceedIs

LEMMA LookNext ==
  ASSUME ShapeInv, CalendarShowsLive, LookInv, ShortBookingsDontOverlap, [Next]_vars
  PROVE  LookInv' /\ ShortBookingsDontOverlap'
<1>0. /\ \A c \in Bookings : row[c].at \in Nat /\ row[c].dur \in Nat
      /\ \A e \in Desks : request[e].at \in Nat /\ request[e].dur \in Nat
  BY DEF ShapeInv, TypeOK, Shapes, Row, Request
<1>1. ASSUME NEW d \in Desks, NEW b \in Bookings, BookStep(d, b)
      PROVE  LookInv' /\ ShortBookingsDontOverlap'
  <2>1. /\ Others(b) /\ row'[b].at = request[d].at /\ row'[b].dur = request[d].dur
        /\ row'[b].made = IF request[d].stale THEN "unseen" ELSE "desk"
        /\ AfterWrite(d, b, "emit", TRUE)
    BY <1>1, BookIs
  <2>2. CASE request[d].stale
    <3>. DEFINE next == "emit"
    <3>1. ~Guarded(b)' /\ AfterWrite(d, b, next, TRUE) /\ next \in {"emit", "recover"}
      BY <2>1, <2>2 DEF Guarded
    <3>. HIDE DEF next
    <3>. QED  BY <2>1, <3>1, UnguardedWrite
  <2>3. CASE ~request[d].stale
    <3>1. \A c \in Bookings : ~Clashes(c, request[d].at, request[d].dur)
      BY <1>1, <2>3 DEF LookInv, Watchful, BookStep, At
    <3>2. ASSUME NEW c \in Bookings \ {b}, Guarded(c)'
          PROVE  ~Overlap(b, c)' /\ ~Overlap(c, b)' /\ Guarded(c)
      <4>1. row'[c] = row[c] /\ Guarded(c)
        BY <2>1, <3>2 DEF Others, Guarded, Confirmed
      <4>. QED  BY <1>0, <2>1, <3>1, <4>1 DEF Overlap, Clashes
    <3>3. ASSUME NEW c \in Bookings, NEW x \in Bookings, c # x, Guarded(c)', Guarded(x)',
                 c # b, x # b
          PROVE  ~Overlap(c, x)'
      <4>1. row'[c] = row[c] /\ row'[x] = row[x] /\ Guarded(c) /\ Guarded(x)
        BY <2>1, <3>2, <3>3 DEF Others
      <4>. QED  BY <3>3, <4>1 DEF ShortBookingsDontOverlap, Overlap
    <3>4. ShortBookingsDontOverlap'
      BY <3>2, <3>3 DEF ShortBookingsDontOverlap
    <3>5. ASSUME NEW e \in Desks PROVE Watchful(request[e])'
      <4>1. request'[e].pc # "look" \/ request'[e].stale
        BY ONLY ShapeInv, <1>1, <2>1, <3>5, SlotTaken
      <4>. QED  BY <4>1 DEF Watchful
    <3>. QED  BY <3>4, <3>5 DEF LookInv
  <2>. QED  BY <2>2, <2>3
<1>2. ASSUME NEW d \in Desks, NEW b \in Bookings, NEW at \in Nat, SeriesStep(d, b, at)
      PROVE  LookInv' /\ ShortBookingsDontOverlap'
  <2>. DEFINE next == "emit"
  <2>1. Others(b) /\ row'[b].made = "series" /\ AfterWrite(d, b, next, TRUE)
        /\ next \in {"emit", "recover"}
    BY ONLY ShapeInv, <1>2, SeriesIs
  <2>2. ~Guarded(b)'
    BY <2>1 DEF Guarded
  <2>. HIDE DEF next
  <2>. QED  BY <2>1, <2>2, UnguardedWrite
<1>3. ASSUME NEW d \in Desks, NEW outcome \in Outcomes, NEW next \in {"emit", "recover"},
             SettleStep(d, outcome, next)
      PROVE  LookInv' /\ ShortBookingsDontOverlap'
  <2>1. /\ Aim(d) \in Bookings /\ Others(Aim(d)) /\ row'[Aim(d)].status = outcome
        /\ AfterWrite(d, Aim(d), next, FALSE)
    BY ONLY ShapeInv, <1>3, SettleIs
  <2>2. PICK b \in Bookings : b = Aim(d)
    BY <2>1
  <2>3. Others(b) /\ row'[b].status = outcome /\ AfterWrite(d, b, next, FALSE)
    BY <2>1, <2>2
  <2>4. ~Guarded(b)'
    BY <2>3 DEF Guarded, Confirmed, Outcomes, Cancelled
  <2>. QED  BY <2>3, <2>4, UnguardedWrite
<1>4. ASSUME NEW d \in Desks, ReslotStep(d) PROVE LookInv' /\ ShortBookingsDontOverlap'
  <2>. DEFINE next == "emit"
  <2>1. /\ Aim(d) \in Bookings /\ Others(Aim(d)) /\ row'[Aim(d)].made = "moved"
        /\ AfterWrite(d, Aim(d), next, TRUE) /\ next \in {"emit", "recover"}
    BY ONLY ShapeInv, <1>4, ReslotIs
  <2>2. PICK b \in Bookings : b = Aim(d)
    BY <2>1
  <2>3. Others(b) /\ row'[b].made = "moved" /\ AfterWrite(d, b, next, TRUE)
    BY <2>1, <2>2
  <2>4. ~Guarded(b)'
    BY <2>3 DEF Guarded
  <2>. HIDE DEF next
  <2>. QED  BY <2>1, <2>3, <2>4, UnguardedWrite
<1>5. ASSUME UNCHANGED row PROVE ShortBookingsDontOverlap'
  BY <1>5 DEF ShortBookingsDontOverlap, Overlap, Guarded, Confirmed
<1>6. ASSUME UNCHANGED row, NEW e \in Desks, request'[e] = request[e] PROVE Watchful(request[e])'
  <2>1. Watchful(request[e])
    BY DEF LookInv
  <2>. QED  BY <1>6, <2>1 DEF Watchful, Clashes, Guarded, Confirmed
<1>7. ASSUME NEW d \in Desks, BeginStep(d) \/ ProceedStep(d)
      PROVE  LookInv' /\ ShortBookingsDontOverlap'
  <2>1. UNCHANGED <<row, listed>> /\ \A e \in Desks \ {d} : request'[e] = request[e]
    BY <1>7, QuietIs, QuietMoves
  <2>2. Watchful(request[d])'
    BY <1>7, QuietLooks
  <2>. QED  BY <1>5, <1>6, <2>1, <2>2 DEF LookInv
<1>8. CASE Tick \/ UNCHANGED vars
  <2>1. UNCHANGED <<row, request>>
    BY <1>8 DEF Tick, vars, bookVars
  <2>. QED  BY <1>5, <1>6, <2>1 DEF LookInv
<1>. QED  BY <1>1, <1>2, <1>3, <1>4, <1>7, <1>8, StepIs DEF WriteStep

(***************************************************************************)
(* Two standing bookings of at most half an hour, both made by /create with*)
(* nothing else booked between its check and its write, never overlap:     *)
(* what create_reservation's look half an hour back does guarantee.        *)
(***************************************************************************)
THEOREM ShortBookingsHold == Spec => []ShortBookingsDontOverlap
<1>. DEFINE Inv == ShapeInv /\ CalendarShowsLive /\ LookInv /\ ShortBookingsDontOverlap
<1>1. Init => Inv
  <2>1. Init => CalendarShowsLive /\ ShortBookingsDontOverlap
    BY DEF Init, CalendarShowsLive, ShortBookingsDontOverlap, Guarded, Confirmed, NoRow
  <2>2. Init => LookInv
    BY IdleIs DEF Init, LookInv, Watchful
  <2>. QED  BY <2>1, <2>2, ShapeInit
<1>2. Inv /\ [Next]_vars => Inv'
  BY ShapeNext, CalendarNext, LookNext
<1>. QED  BY <1>1, <1>2, PTL DEF Spec
-----------------------------------------------------------------------------
(***************************************************************************)
(* A series lists bookings that were written, and a cancellation under way *)
(* still has before it, or in hand, every booking of the series that stands*)
(* later than the moment it began, but those a push raced in.              *)
(***************************************************************************)
Standing(b, t) == Confirmed(b) /\ row[b].made = "series" /\ ~(row[b].at <= t)

SeriesFits(r) ==
    /\ r.loop = "push" /\ r.pc \in {"emit", "push"} => row[r.b].status # "none"
    /\ r.loop = "drop" => \A b \in series.members \ raced :
                             Standing(b, r.since) => b \in r.left \/ (r.pc = "drop_one" /\ r.b = b)

SeriesInv == /\ \A b \in series.members : row[b].status # "none"
             /\ \A d \in Desks : SeriesFits(request[d])

LEMMA SeriesWrite ==
  ASSUME ShapeInv, SeriesInv, CancelledSeriesIsEmpty, NEW d \in Desks, NEW b \in Bookings,
         NEW next \in {"emit", "recover"}, NEW slot, AfterWrite(d, b, next, slot),
         UNCHANGED series, raced \subseteq raced', Others(b), row'[b].status # "none",
         b \in series.members => ~(row'[b].status = "confirmed" /\ row'[b].made = "series"),
         request[d].loop = "drop" => request[d].b = b
  PROVE  SeriesInv' /\ CancelledSeriesIsEmpty'
<1>0. series.members \subseteq Bookings
  BY DEF ShapeInv, TypeOK
<1>1. ASSUME NEW c \in series.members, NEW t, Standing(c, t)'
      PROVE  c # b /\ Standing(c, t)
  BY <1>0, <1>1 DEF Standing, Confirmed, Others
<1>2. ASSUME NEW c \in Bookings, row[c].status # "none" PROVE row'[c].status # "none"
  BY <1>2 DEF Others
<1>3. ASSUME NEW e \in Desks PROVE SeriesFits(request[e])'
  <2>0. SeriesFits(request[e]) /\ SeriesFits(request[d]) /\ Shape(request[e])
    BY DEF SeriesInv, ShapeInv, Shapes
  <2>1. CASE e = d
    <3>1. /\ request'[d].pc = next
          /\ request'[d].b = b
          /\ request[d].loop # "idle" => /\ request'[d].loop = request[d].loop
                                         /\ request'[d].since = request[d].since
                                         /\ request'[d].left = request[d].left
          /\ request[d].loop = "idle" => request'[d].loop = "idle"
      BY AfterWriteIs
    <3>. QED  BY <1>1, <2>0, <2>1, <3>1 DEF SeriesFits
  <2>2. CASE e # d
    <3>1. /\ request'[e].pc = request[e].pc /\ request'[e].loop = request[e].loop
          /\ request'[e].b = request[e].b /\ request'[e].since = request[e].since
          /\ request'[e].left = request[e].left
      BY <2>2, AfterWriteIs
    <3>2. request[e].loop = "push" /\ request[e].pc \in {"emit", "push"} => request[e].b \in Bookings
      BY <2>0 DEF Shape, Aimed
    <3>. QED  BY <1>1, <1>2, <2>0, <3>1, <3>2 DEF SeriesFits
  <2>. QED  BY <2>1, <2>2
<1>4. SeriesInv'
  BY <1>0, <1>2, <1>3 DEF SeriesInv
<1>5. CancelledSeriesIsEmpty'
  BY <1>1 DEF CancelledSeriesIsEmpty, Standing
<1>. QED  BY <1>4, <1>5

\* A quiet step leaves the rows; it may move the series, its own request and the note of races.
LEMMA SeriesQuiet ==
  ASSUME ShapeInv, SeriesInv, CancelledSeriesIsEmpty, NEW d \in Desks, BeginStep(d) \/ ProceedStep(d)
  PROVE  SeriesInv' /\ CancelledSeriesIsEmpty'
<1>0. /\ UNCHANGED row /\ \A e \in Desks \ {d} : request'[e] = request[e]
      /\ request \in [Desks -> Request] /\ Shape(request[d]) /\ request[d] \in Request
      /\ SeriesFits(request[d])
  BY QuietIs, QuietMoves DEF ShapeInv, Shapes, Shape, SeriesInv
<1>1. ASSUME series'.members = series.members, raced' = raced, SeriesFits(request[d])',
             UNCHANGED series \/ series'.status # "cancelled"
      PROVE  SeriesInv' /\ CancelledSeriesIsEmpty'
  <2>1. ASSUME NEW e \in Desks PROVE SeriesFits(request[e])'
    <3>1. CASE e # d
      <4>1. SeriesFits(request[e]) /\ request'[e] = request[e]
        BY <1>0, <3>1 DEF SeriesInv
      <4>. QED  BY <1>0, <1>1, <4>1 DEF SeriesFits, Standing, Confirmed
    <3>. QED  BY <1>1, <3>1
  <2>. QED  BY <1>0, <1>1, <2>1 DEF SeriesInv, CancelledSeriesIsEmpty, Confirmed
<1>2. request'[d].loop \notin {"push", "drop"} => SeriesFits(request[d])'
  BY DEF SeriesFits
<1>3. Finish(d) => request'[d].loop = "idle"
  BY <1>0, IdleIs DEF Finish, Done, Request
<1>4. ASSUME BeginStep(d) PROVE SeriesInv' /\ CancelledSeriesIsEmpty'
  <2>1. ASSUME request'[d].left = series.members, UNCHANGED <<series, raced>>,
               request'[d].loop = "drop"
        PROVE  SeriesFits(request[d])'
    BY <2>1 DEF SeriesFits
  <2>2. request'[d].loop = "push" /\ request'[d].pc = "series" => SeriesFits(request[d])'
    BY DEF SeriesFits
  <2>. QED  BY <1>1, <1>2, <1>4, <2>1, <2>2, BeginIs
<1>5. ASSUME ProceedStep(d) PROVE SeriesInv' /\ CancelledSeriesIsEmpty'
  <2>1. CASE Finish(d) /\ UNCHANGED <<series, raced>>
    BY <1>1, <1>2, <1>3, <2>1
  <2>2. ASSUME NEW b \in Bookings, LookAt(d, b), ~Finish(d)
        PROVE  request'[d].loop = "idle" /\ UNCHANGED <<series, raced>>
    BY <1>0, <2>2 DEF LookAt, At, Shape, InLoop, Request
  <2>3. ASSUME NEW b \in Bookings, ScanRow(d, b)
        PROVE  request'[d].loop = "scan" /\ UNCHANGED <<series, raced>>
    BY <1>0, <2>3 DEF ScanRow, At, Shape, InLoop, Request
  <2>4. IssueRecoveryVoucher(d) => request'[d].loop = "scan" /\ UNCHANGED <<series, raced>>
    BY <1>0 DEF IssueRecoveryVoucher, Goto, At, Shape, InLoop, Request
  <2>5. ShiftRead(d) => request'[d].loop = "shift" /\ UNCHANGED <<series, raced>>
    BY <1>0 DEF ShiftRead, At, Shape, InLoop, Request
  <2>6. CASE DropRead(d)
    <3>. DEFINE b == Min(request[d].left)
    <3>1. /\ request[d].pc = "drop" /\ request[d].loop = "drop" /\ UNCHANGED <<series, raced>>
      BY <1>0, <2>6 DEF DropRead, At, Shape, InLoop
    <3>2. /\ request'[d].left = request[d].left \ {b} /\ request'[d].since = request[d].since
          /\ request'[d].loop = "drop"
          /\ Standing(b, request[d].since) => request'[d].pc = "drop_one" /\ request'[d].b = b
      <4>1. request'[d] = IF Confirmed(b) /\ row[b].at > request[d].since
                          THEN [request[d] EXCEPT !.pc = "drop_one", !.b = b, !.left = @ \ {b}]
                          ELSE [request[d] EXCEPT !.left = @ \ {b}]
        BY <1>0, <2>6 DEF DropRead
      <4>2. Standing(b, request[d].since) => Confirmed(b) /\ row[b].at > request[d].since
        <5>1. b \in Bookings
          BY <1>0, <2>6, <3>1, MinExists DEF DropRead, Shape, Request
        <5>2. row[b].at \in Nat /\ request[d].since \in Nat
          BY <1>0, <5>1 DEF ShapeInv, TypeOK, Row, Request
        <5>. HIDE DEF b
        <5>. QED  BY <5>2 DEF Standing
      <4>. HIDE DEF b
      <4>. QED  BY <1>0, <3>1, <4>1, <4>2 DEF Request
    <3>. HIDE DEF b
    <3>3. SeriesFits(request[d])'
      BY <1>0, <3>1, <3>2 DEF SeriesFits, Standing, Confirmed
    <3>. QED  BY <1>1, <3>1, <3>3
  <2>7. CASE Emit(d)
    <3>1. UNCHANGED <<series, raced>> /\ request[d].pc = "emit" /\ request[d].loop \in Loops
      BY <1>0, <2>7 DEF Emit, At, Shape, InLoop
    <3>2. CASE request[d].loop = "idle"
      <4>1. request'[d].loop = "idle"
        BY <1>0, <2>7, <3>2, IdleIs DEF Emit, Done, Request
      <4>. QED  BY <1>1, <1>2, <3>1, <4>1
    <3>3. CASE request[d].loop # "idle"
      <4>1. /\ request'[d].loop = request[d].loop /\ request'[d].pc = request[d].loop
            /\ request'[d].left = request[d].left /\ request'[d].since = request[d].since
            /\ request[d].loop = "push" => request'[d].b = request[d].b
        BY <1>0, <2>7, <3>3 DEF Emit, Request
      <4>2. SeriesFits(request[d])'
        BY <1>0, <3>1, <4>1 DEF SeriesFits, Standing, Confirmed
      <4>. QED  BY <1>1, <3>1, <4>2
    <3>. QED  BY <3>2, <3>3
  <2>8. CASE SeriesPush(d)
    <3>. DEFINE b == request[d].b
    <3>1. /\ b \in Bookings /\ row[b].status # "none"
          /\ series'.members = series.members \cup {b} /\ series'.status = series.status
          /\ series'.since = series.since
          /\ raced \subseteq raced' /\ (Dropping \/ series.status = "cancelled" => b \in raced')
      BY <1>0, <2>8 DEF SeriesPush, At, Shape, InLoop, Aimed, SeriesFits, ShapeInv, TypeOK
    <3>2. request'[d].loop # "drop" /\ request'[d].pc \in {"done", "series"}
      BY <1>0, <2>8, IdleIs DEF SeriesPush, At, Done, Shape, InLoop, Request
    <3>. HIDE DEF b
    <3>3. ASSUME NEW e \in Desks PROVE SeriesFits(request[e])'
      <4>1. CASE e = d
        BY <3>2, <4>1 DEF SeriesFits
      <4>2. CASE e # d
        <5>1. SeriesFits(request[e]) /\ request'[e] = request[e]
          BY <1>0, <4>2 DEF SeriesInv
        <5>2. request[e].loop = "drop" => b \in raced'
          BY <3>1 DEF Dropping
        <5>. QED  BY <1>0, <3>1, <5>1, <5>2 DEF SeriesFits, Standing, Confirmed
      <4>. QED  BY <4>1, <4>2
    <3>4. CancelledSeriesIsEmpty'
      BY <1>0, <3>1 DEF CancelledSeriesIsEmpty, Confirmed
    <3>. QED  BY <1>0, <3>1, <3>3, <3>4 DEF SeriesInv
  <2>9. CASE DropDone(d)
    <3>1. /\ request[d].pc = "drop" /\ request[d].loop = "drop" /\ request[d].left = {}
          /\ series'.members = series.members /\ series'.since = request[d].since /\ raced' = raced
      BY <1>0, <2>9 DEF DropDone, At, Shape, InLoop, ShapeInv, TypeOK
    <3>2. CancelledSeriesIsEmpty'
      BY <1>0, <3>1 DEF CancelledSeriesIsEmpty, SeriesFits, Standing, Confirmed
    <3>3. ASSUME NEW e \in Desks PROVE SeriesFits(request[e])'
      <4>1. CASE e = d
        BY <1>2, <1>3, <2>9, <4>1 DEF DropDone
      <4>2. CASE e # d
        <5>1. SeriesFits(request[e]) /\ request'[e] = request[e]
          BY <1>0, <4>2 DEF SeriesInv
        <5>. QED  BY <1>0, <3>1, <5>1 DEF SeriesFits, Standing, Confirmed
      <4>. QED  BY <4>1, <4>2
    <3>. QED  BY <1>0, <3>1, <3>2, <3>3 DEF SeriesInv
  <2>. QED
    <3>1. CASE \E b \in Bookings : LookAt(d, b)
      BY <1>1, <1>2, <2>1, <2>2, <3>1 DEF LookAt
    <3>2. ScanDone(d) \/ ShiftDone(d) \/ Die(d) => Finish(d) /\ UNCHANGED <<series, raced>>
      BY DEF ScanDone, ShiftDone, Die
    <3>. QED
      BY <1>1, <1>2, <1>5, <2>1, <2>3, <2>4, <2>5, <2>6, <2>7, <2>8, <2>9, <3>1, <3>2 DEF ProceedStep
<1>. QED  BY <1>4, <1>5

LEMMA SeriesNext ==
  ASSUME ShapeInv, SeriesInv, CancelledSeriesIsEmpty, [Next]_vars
  PROVE  SeriesInv' /\ CancelledSeriesIsEmpty'
<1>1. ASSUME NEW d \in Desks, NEW b \in Bookings, BookStep(d, b), UNCHANGED <<series, raced>>
      PROVE  SeriesInv' /\ CancelledSeriesIsEmpty'
  <2>. DEFINE next == "emit"
              slot == TRUE
  <2>1. /\ row[b].status = "none" /\ Others(b) /\ row'[b].status = "confirmed"
        /\ AfterWrite(d, b, next, slot) /\ next \in {"emit", "recover"}
    BY <1>1, BookIs
  <2>2. request[d].loop = "idle" /\ b \notin series.members
    BY <1>1, <2>1 DEF BookStep, At, ShapeInv, Shapes, Shape, InLoop, SeriesInv
  <2>3. row'[b].status # "none" /\ request[d].loop # "drop" /\ raced \subseteq raced'
        /\ UNCHANGED series
    BY <1>1, <2>1, <2>2
  <2>. HIDE DEF next, slot
  <2>. QED  BY <2>1, <2>2, <2>3, SeriesWrite
<1>2. ASSUME NEW d \in Desks, NEW b \in Bookings, NEW at \in Nat, SeriesStep(d, b, at),
             UNCHANGED <<series, raced>>
      PROVE  SeriesInv' /\ CancelledSeriesIsEmpty'
  <2>. DEFINE next == "emit"
              slot == TRUE
  <2>1. /\ row[b].status = "none" /\ Others(b) /\ row'[b].status = "confirmed"
        /\ AfterWrite(d, b, next, slot) /\ next \in {"emit", "recover"}
    BY ONLY ShapeInv, <1>2, SeriesIs
  <2>2. request[d].loop = "push" /\ b \notin series.members
    BY <1>2, <2>1 DEF SeriesStep, At, ShapeInv, Shapes, Shape, InLoop, SeriesInv
  <2>3. row'[b].status # "none" /\ request[d].loop # "drop" /\ raced \subseteq raced'
        /\ UNCHANGED series
    BY <1>2, <2>1, <2>2
  <2>. HIDE DEF next, slot
  <2>. QED  BY <2>1, <2>2, <2>3, SeriesWrite
<1>3. ASSUME NEW d \in Desks, NEW outcome \in Outcomes, NEW next \in {"emit", "recover"},
             SettleStep(d, outcome, next), UNCHANGED series
      PROVE  SeriesInv' /\ CancelledSeriesIsEmpty'
  <2>. DEFINE slot == FALSE
  <2>1. /\ Aim(d) \in Bookings /\ Others(Aim(d)) /\ row'[Aim(d)].status = outcome
        /\ AfterWrite(d, Aim(d), next, slot) /\ NoteRace(d)
    BY ONLY ShapeInv, <1>3, SettleIs
  <2>2. PICK b \in Bookings : b = Aim(d)
    BY <2>1
  <2>3. /\ Others(b) /\ row'[b].status = outcome /\ AfterWrite(d, b, next, slot)
        /\ raced \subseteq raced' /\ request[d].b = b
    BY <2>1, <2>2 DEF NoteRace, Aim
  <2>4. row'[b].status # "none" /\ row'[b].status # "confirmed"
    BY <2>3 DEF Outcomes, Cancelled
  <2>5. UNCHANGED series
    BY <1>3
  <2>. HIDE DEF slot
  <2>. QED  BY <2>3, <2>4, <2>5, SeriesWrite
<1>4. ASSUME NEW d \in Desks, ReslotStep(d), UNCHANGED series
      PROVE  SeriesInv' /\ CancelledSeriesIsEmpty'
  <2>. DEFINE next == "emit"
              slot == TRUE
  <2>1. /\ Aim(d) \in Bookings /\ Others(Aim(d)) /\ row'[Aim(d)].status = "confirmed"
        /\ row'[Aim(d)].made = "moved" /\ AfterWrite(d, Aim(d), next, slot) /\ NoteRace(d)
        /\ next \in {"emit", "recover"}
    BY ONLY ShapeInv, <1>4, ReslotIs
  <2>2. PICK b \in Bookings : b = Aim(d)
    BY <2>1
  <2>3. /\ Others(b) /\ AfterWrite(d, b, next, slot)
        /\ raced \subseteq raced' /\ request[d].b = b
    BY <2>1, <2>2 DEF NoteRace, Aim
  <2>4. row'[b].status # "none" /\ row'[b].made # "series"
    BY <2>1, <2>2
  <2>5. UNCHANGED series
    BY <1>4
  <2>. HIDE DEF next, slot
  <2>. QED  BY <2>1, <2>3, <2>4, <2>5, SeriesWrite
<1>5. CASE Tick \/ UNCHANGED vars
  <2>1. UNCHANGED <<row, series, request, raced>>
    BY <1>5 DEF Tick, vars, bookVars
  <2>. QED  BY <2>1 DEF SeriesInv, SeriesFits, Standing, Confirmed, CancelledSeriesIsEmpty
<1>6. ASSUME NEW d \in Desks, WriteStep(d) PROVE SeriesInv' /\ CancelledSeriesIsEmpty'
  BY <1>1, <1>2, <1>3, <1>4, <1>6 DEF WriteStep
<1>. QED  BY <1>5, <1>6, StepIs, SeriesQuiet

(***************************************************************************)
(* A cancelled series leaves no booking standing that was still to come,   *)
(* but one a push or another write raced in, or one that was moved         *)
(* (cancel_series reads the list once and takes the bookings one by one).  *)
(***************************************************************************)
THEOREM CancelledSeriesHolds == Spec => []CancelledSeriesIsEmpty
<1>. DEFINE Inv == ShapeInv /\ SeriesInv /\ CancelledSeriesIsEmpty
<1>1. Init => Inv
  <2>1. Init => SeriesInv /\ CancelledSeriesIsEmpty
    BY IdleIs DEF Init, SeriesInv, SeriesFits, CancelledSeriesIsEmpty
  <2>. QED  BY <2>1, ShapeInit
<1>2. Inv /\ [Next]_vars => Inv'
  BY ShapeNext, SeriesNext
<1>. QED  BY <1>1, <1>2, PTL DEF Spec
-----------------------------------------------------------------------------
(***************************************************************************)
(* A request about to write a booking nobody has overtaken has read it     *)
(* confirmed, and the no-show scan has read that its grace and cutoff are  *)
(* over.                                                                   *)
(***************************************************************************)
Current(r) ==
    /\ r.since <= now
    /\ r.pc \in Writes /\ ~r.stale =>
         /\ Confirmed(r.b)
         /\ r.pc = "absent" => row[r.b].at + Grace + Cutoff <= r.since

CurrentInv == \A d \in Desks : Current(request[d])

LEMMA CurrentWrite ==
  ASSUME ShapeInv, CurrentInv, NEW d \in Desks, NEW b \in Bookings, NEW next \in {"emit", "recover"},
         NEW slot, AfterWrite(d, b, next, slot), Others(b), UNCHANGED now
  PROVE  CurrentInv'
<1>0. now \in Nat
  BY DEF ShapeInv, TypeOK
<1>1. ASSUME NEW e \in Desks PROVE Current(request[e])'
  <2>0. Current(request[e]) /\ Current(request[d]) /\ Shape(request[e])
    BY DEF CurrentInv, ShapeInv, Shapes
  <2>1. CASE e = d
    <3>1. /\ request'[d].pc = next
          /\ request[d].loop # "idle" => request'[d].since = request[d].since
          /\ request[d].loop = "idle" => request'[d].since = 0
      BY AfterWriteIs
    <3>. QED  BY <1>0, <2>0, <2>1, <3>1 DEF Current, Writes
  <2>2. CASE e # d
    <3>1. /\ request'[e].pc = request[e].pc /\ request'[e].b = request[e].b
          /\ request'[e].since = request[e].since
          /\ ~request'[e].stale => ~request[e].stale /\ ~Overtaken(e, b)
      BY <2>2, AfterWriteIs
    <3>2. request[e].pc \in Writes =>
             /\ request[e].b \in Bookings
             /\ ~request'[e].stale => row'[request[e].b] = row[request[e].b]
      BY <2>0, <3>1 DEF Shape, Aimed, Others, Overtaken, Writing, Writes
    <3>. QED  BY <2>0, <3>1, <3>2 DEF Current, Confirmed
  <2>. QED  BY <2>1, <2>2
<1>. QED  BY <1>1 DEF CurrentInv

LEMMA CurrentQuiet ==
  ASSUME ShapeInv, CurrentInv, NEW d \in Desks, BeginStep(d) \/ ProceedStep(d)
  PROVE  CurrentInv'
<1>0. /\ UNCHANGED <<now, row>> /\ \A e \in Desks \ {d} : request'[e] = request[e]
      /\ request \in [Desks -> Request] /\ Shape(request[d]) /\ request[d] \in Request
      /\ Current(request[d]) /\ now \in Nat
  BY QuietIs, QuietMoves DEF ShapeInv, Shapes, Shape, CurrentInv, TypeOK
<1>1. ASSUME Current(request[d])' PROVE CurrentInv'
  <2>1. ASSUME NEW e \in Desks \ {d} PROVE Current(request[e])'
    <3>1. Current(request[e]) /\ request'[e] = request[e]
      BY <1>0 DEF CurrentInv
    <3>. QED  BY <1>0, <3>1 DEF Current, Confirmed
  <2>. QED  BY <1>1, <2>1 DEF CurrentInv
<1>2. request'[d].since <= now /\ request'[d].pc \notin Writes => Current(request[d])'
  BY <1>0 DEF Current
<1>3. ASSUME BeginStep(d) PROVE CurrentInv'
  <2>1. ASSUME request'[d].since = 0, request'[d].pc \in {"honor", "cancel", "move"},
               Confirmed(request'[d].b)
        PROVE  Current(request[d])'
    BY <1>0, <2>1 DEF Current, Confirmed
  <2>. QED  BY <1>0, <1>1, <1>2, <1>3, <2>1, BeginIs DEF Writes
<1>4. ASSUME ProceedStep(d) PROVE CurrentInv'
  <2>0. request[d].since <= now
    BY <1>0 DEF Current
  <2>1. ASSUME NEW b \in Bookings, ScanRow(d, b) PROVE CurrentInv'
    <3>1. /\ request'[d].since = request[d].since /\ request'[d].pc = "absent"
          /\ request'[d].b = b /\ Confirmed(b) /\ row[b].at + Grace <= request[d].since - Cutoff
      BY <1>0, <2>1 DEF ScanRow, Request
    <3>2. row[b].at \in Nat /\ request[d].since \in Nat /\ Grace \in Nat /\ Cutoff \in Nat
      BY <1>0 DEF ShapeInv, TypeOK, Row, Request
    <3>3. row[b].at + Grace + Cutoff <= request[d].since
      BY <3>1, <3>2
    <3>4. Current(request[d])'
      BY <1>0, <2>0, <3>1, <3>3 DEF Current, Confirmed
    <3>. QED  BY <1>1, <3>4
  <2>2. DropRead(d) \/ ShiftRead(d) => CurrentInv'
    <3>. DEFINE b == Min(request[d].left)
    <3>. SUFFICES ASSUME DropRead(d) \/ ShiftRead(d) PROVE CurrentInv'
      OBVIOUS
    <3>1. \/ DropRead(d) /\ request[d].pc = "drop"
          \/ ShiftRead(d) /\ request[d].pc = "shift"
      BY DEF DropRead, ShiftRead, At
    <3>2. /\ request'[d].since = request[d].since
          /\ request'[d].pc # "absent"
          /\ request'[d].pc \in Writes => request'[d].b = b /\ Confirmed(b)
      <4>1. CASE DropRead(d)
        <5>1. request'[d] = IF Confirmed(b) /\ row[b].at > request[d].since
                            THEN [request[d] EXCEPT !.pc = "drop_one", !.b = b, !.left = @ \ {b}]
                            ELSE [request[d] EXCEPT !.left = @ \ {b}]
          BY <1>0, <4>1 DEF DropRead
        <5>2. request[d].pc = "drop"
          BY <4>1 DEF DropRead, At
        <5>. HIDE DEF b
        <5>. QED  BY <1>0, <5>1, <5>2 DEF Request, Writes
      <4>2. CASE ShiftRead(d)
        <5>1. request'[d] = IF Confirmed(b) /\ request[d].at > request[d].since
                            THEN [request[d] EXCEPT !.pc = "shift_one", !.b = b, !.left = @ \ {b}]
                            ELSE [request[d] EXCEPT !.at = @ + Cadence, !.left = @ \ {b}]
          BY <1>0, <4>2 DEF ShiftRead
        <5>2. request[d].pc = "shift"
          BY <4>2 DEF ShiftRead, At
        <5>. HIDE DEF b
        <5>. QED  BY <1>0, <5>1, <5>2 DEF Request, Writes
      <4>. QED  BY <3>1, <4>1, <4>2
    <3>. HIDE DEF b
    <3>3. Current(request[d])'
      BY <1>0, <2>0, <3>2 DEF Current, Confirmed
    <3>. QED  BY <1>1, <3>3
  <2>3. request'[d].since <= now
    BY <1>0, <1>4, <2>0, ProceedIs
  <2>. QED  BY <1>1, <1>2, <1>4, <2>1, <2>2, <2>3, ProceedIs
<1>. QED  BY <1>3, <1>4

LEMMA CurrentNext ==
  ASSUME ShapeInv, CurrentInv, [Next]_vars
  PROVE  CurrentInv'
<1>1. ASSUME NEW d \in Desks, NEW b \in Bookings, BookStep(d, b), UNCHANGED now PROVE CurrentInv'
  <2>. DEFINE next == "emit"
              slot == TRUE
  <2>1. Others(b) /\ AfterWrite(d, b, next, slot) /\ next \in {"emit", "recover"} /\ UNCHANGED now
    BY <1>1, BookIs
  <2>. HIDE DEF next, slot
  <2>. QED  BY <2>1, CurrentWrite
<1>2. ASSUME NEW d \in Desks, NEW b \in Bookings, NEW at \in Nat, SeriesStep(d, b, at), UNCHANGED now
      PROVE  CurrentInv'
  <2>. DEFINE next == "emit"
              slot == TRUE
  <2>1. Others(b) /\ AfterWrite(d, b, next, slot) /\ next \in {"emit", "recover"}
    BY ONLY ShapeInv, <1>2, SeriesIs
  <2>2. UNCHANGED now
    BY <1>2
  <2>. HIDE DEF next, slot
  <2>. QED  BY <2>1, <2>2, CurrentWrite
<1>3. ASSUME NEW d \in Desks, NEW outcome \in Outcomes, NEW next \in {"emit", "recover"},
             SettleStep(d, outcome, next), UNCHANGED now
      PROVE  CurrentInv'
  <2>. DEFINE slot == FALSE
  <2>1. Aim(d) \in Bookings /\ Others(Aim(d)) /\ AfterWrite(d, Aim(d), next, slot)
    BY ONLY ShapeInv, <1>3, SettleIs
  <2>2. UNCHANGED now
    BY <1>3
  <2>. HIDE DEF slot
  <2>. QED  BY <2>1, <2>2, CurrentWrite
<1>4. ASSUME NEW d \in Desks, ReslotStep(d), UNCHANGED now PROVE CurrentInv'
  <2>. DEFINE next == "emit"
              slot == TRUE
  <2>1. /\ Aim(d) \in Bookings /\ Others(Aim(d)) /\ AfterWrite(d, Aim(d), next, slot)
        /\ next \in {"emit", "recover"}
    BY ONLY ShapeInv, <1>4, ReslotIs
  <2>2. UNCHANGED now
    BY <1>4
  <2>. HIDE DEF next, slot
  <2>. QED  BY <2>1, <2>2, CurrentWrite
<1>5. CASE Tick \/ UNCHANGED vars
  <2>1. UNCHANGED <<row, request>> /\ now <= now'
    BY <1>5 DEF Tick, vars, bookVars, ShapeInv, TypeOK
  <2>2. now \in Nat /\ now' \in Nat
    BY <1>5 DEF Tick, vars, ShapeInv, TypeOK
  <2>3. ASSUME NEW d \in Desks PROVE Current(request[d])'
    <3>1. Current(request[d]) /\ request[d].since \in Nat
      BY DEF CurrentInv, ShapeInv, Shapes, Request
    <3>. QED  BY <2>1, <2>2, <3>1 DEF Current, Confirmed
  <2>. QED  BY <2>3 DEF CurrentInv
<1>6. ASSUME NEW d \in Desks, WriteStep(d) PROVE CurrentInv'
  BY <1>1, <1>2, <1>3, <1>4, <1>6 DEF WriteStep
<1>. QED  BY <1>5, <1>6, StepIs, CurrentQuiet
-----------------------------------------------------------------------------
\* The brand's counters against its bookings.
Counted == /\ total["confirmed"] = Cardinality(Bookings \ WithStatus("none"))
           /\ \A o \in Outcomes : total[o] = Cardinality(WithStatus(o))

LEMMA OneMore ==
  ASSUME NEW S, S \subseteq Bookings, NEW b \in Bookings, b \notin S
  PROVE  /\ Cardinality(S \cup {b}) = Cardinality(S) + 1
         /\ Cardinality(S) \in Nat
<1>1. IsFiniteSet(Bookings)
  BY FS_Interval DEF Bookings
<1>2. IsFiniteSet(S)
  BY <1>1, FS_Subset
<1>. QED  BY <1>2, FS_AddElement, FS_CardinalityType

LEMMA CountedFresh ==
  ASSUME ShapeInv, Counted, NEW b \in Bookings, row[b].status = "none", Others(b),
         row'[b].status = "confirmed", total' = [total EXCEPT !["confirmed"] = @ + 1]
  PROVE  Counted'
<1>. DEFINE S == Bookings \ WithStatus("none")
            T == Bookings \ {c \in Bookings : row'[c].status = "none"}
<1>1. T = S \cup {b} /\ b \notin S /\ S \subseteq Bookings
  BY DEF Others, WithStatus
<1>2. \A o \in Outcomes : {c \in Bookings : row'[c].status = o} = WithStatus(o)
  BY DEF Others, WithStatus, Outcomes, Cancelled
<1>3. total'["confirmed"] = total["confirmed"] + 1 /\ \A o \in Outcomes : total'[o] = total[o]
  BY DEF ShapeInv, TypeOK, Counters, Events, Outcomes, Cancelled
<1>4. total["confirmed"] = Cardinality(S) /\ \A o \in Outcomes : total[o] = Cardinality(WithStatus(o))
  BY DEF Counted
<1>. HIDE DEF S, T
<1>5. Cardinality(T) = Cardinality(S) + 1
  BY <1>1, OneMore
<1>6. total'["confirmed"] = Cardinality(T)
  BY <1>3, <1>4, <1>5
<1>. QED  BY <1>2, <1>3, <1>4, <1>6 DEF Counted, WithStatus, T

LEMMA CountedSettled ==
  ASSUME ShapeInv, Counted, NEW b \in Bookings, Confirmed(b), Others(b),
         NEW outcome \in Outcomes, row'[b].status = outcome,
         total' = [total EXCEPT ![outcome] = @ + 1]
  PROVE  Counted'
<1>. DEFINE S(o) == WithStatus(o)
            T(o) == {c \in Bookings : row'[c].status = o}
<1>0. outcome # "none" /\ outcome # "confirmed"
  BY DEF Outcomes, Cancelled
<1>1. T("none") = S("none")
  BY <1>0 DEF Others, WithStatus, Confirmed
<1>2. \A o \in Outcomes \ {outcome} : T(o) = S(o)
  BY DEF Others, WithStatus, Confirmed, Outcomes, Cancelled
<1>3. T(outcome) = S(outcome) \cup {b} /\ b \notin S(outcome) /\ S(outcome) \subseteq Bookings
  BY <1>0 DEF Others, WithStatus, Confirmed
<1>4. /\ total'[outcome] = total[outcome] + 1 /\ total'["confirmed"] = total["confirmed"]
      /\ \A o \in Outcomes \ {outcome} : total'[o] = total[o]
  BY <1>0 DEF ShapeInv, TypeOK, Counters, Events, Outcomes, Cancelled
<1>5. /\ total["confirmed"] = Cardinality(Bookings \ S("none"))
      /\ \A o \in Outcomes : total[o] = Cardinality(S(o))
  BY DEF Counted
<1>. HIDE DEF S, T
<1>6. Cardinality(T(outcome)) = Cardinality(S(outcome)) + 1
  BY <1>3, OneMore
<1>7. /\ total'["confirmed"] = Cardinality(Bookings \ T("none"))
      /\ \A o \in Outcomes : total'[o] = Cardinality(T(o))
  BY <1>1, <1>2, <1>4, <1>5, <1>6
<1>. QED  BY <1>7 DEF Counted, WithStatus, T

LEMMA CountedMoved ==
  ASSUME ShapeInv, Counted, NEW b \in Bookings, Confirmed(b), Others(b),
         row'[b].status = "confirmed", total' = [total EXCEPT !["rescheduled"] = @ + 1]
  PROVE  Counted'
<1>1. \A s : {c \in Bookings : row'[c].status = s} = WithStatus(s)
  BY DEF Others, WithStatus, Confirmed
<1>2. total'["confirmed"] = total["confirmed"] /\ \A o \in Outcomes : total'[o] = total[o]
  BY DEF ShapeInv, TypeOK, Counters, Events, Outcomes, Cancelled
<1>. QED  BY <1>1, <1>2 DEF Counted, WithStatus
-----------------------------------------------------------------------------
(***************************************************************************)
(* A missed booking had its whole grace and cutoff, and no outcome is paid *)
(* for twice: a request on its way to issue a voucher, or to publish the   *)
(* event a trigger issues one for, is the only one that is to do so for its*)
(* booking, and the outcome it does so for stands.                         *)
(***************************************************************************)
Waited(b) == row[b].status = "no_show" => row[b].at + Grace + Cutoff <= now
Missed == \A b \in Bookings : Paid(b) /\ Waited(b)

\* What a request at step pc is yet to issue for the outcome "to".
DueAt(pc, to) == {s \in PaidOnce : \/ pc \in {"emit", "recover"} /\ s = Published(to)
                                   \/ pc = "recover" /\ s = "recovery"}
Due(d) == DueAt(request[d].pc, request[d].to)

Owed(d) == \A s \in Due(d) : /\ Earns(row[Aim(d)].status, s)
                             /\ vouchers[Aim(d), s] = 0
                             /\ \A e \in Desks \ {d} : ~(s \in Due(e) /\ Aim(e) = Aim(d))

Recovery == Missed /\ \A d \in Desks : Owed(d)

LEMMA ConsistentIs == UnracedIsConsistent <=> (raced = {} => Counted /\ Missed)
  BY DEF UnracedIsConsistent, Counted, Missed, Waited

\* "created", "confirmed" and "rescheduled" go with no outcome; the sources are typed.
LEMMA DueIs ==
  /\ PaidOnce \subseteq Sources
  /\ \A s \in PaidOnce : Limit(s) \in Nat
  /\ \A to \in {"created", "confirmed", "rescheduled"} : DueAt("emit", to) = {}
  /\ \A pc, to : pc \notin {"emit", "recover"} => DueAt(pc, to) = {}
  /\ \A to \in Events : Published(to) # "recovery"
  /\ \A to \in Outcomes : Earns(to, Published(to))
  /\ \A status, s : Earns(status, s) => status \in Outcomes
<1>1. PaidOnce \subseteq Sources /\ \A s \in PaidOnce \ {"recovery"} : s \in Events
  BY DEF PaidOnce, Sources, Published, Events, Outcomes, Cancelled
<1>2. \A s \in PaidOnce : Limit(s) \in Nat
  BY <1>1 DEF Limit
<1>3. {"created", "rescheduled", "confirmed"} \cap PaidOnce = {}
  BY DEF PaidOnce, Published, Outcomes, Cancelled
<1>4. \A to \in {"created", "rescheduled", "confirmed"} : Published(to) = to
  BY DEF Published
<1>5. \A to \in Events : Published(to) # "recovery"
  BY DEF Published, Events, Outcomes, Cancelled
<1>6. \A to \in Outcomes : Earns(to, Published(to))
  BY DEF Earns, Published, Outcomes, Cancelled
<1>7. \A status, s : Earns(status, s) => status \in Outcomes
  BY DEF Earns, Outcomes
<1>. QED  BY <1>1, <1>2, <1>3, <1>4, <1>5, <1>6, <1>7 DEF DueAt

LEMMA AimIs ==
  ASSUME ShapeInv, NEW d \in Desks, Due(d) # {}
  PROVE  Aim(d) \in Bookings
<1>1. request[d].pc \in {"emit", "recover"}
  BY DueIs DEF Due
<1>. QED  BY <1>1 DEF Aim, ShapeInv, Shapes, Shape, Aimed

LEMMA RecoveryWrite ==
  ASSUME ShapeInv, Recovery, NEW d \in Desks, NEW b \in Bookings, NEW next \in {"emit", "recover"},
         NEW slot, AfterWrite(d, b, next, slot), Others(b), UNCHANGED <<now, vouchers>>,
         row[b].status \notin Outcomes,
         row'[b].status = "no_show" => row'[b].at + Grace + Cutoff <= now,
         \A s \in DueAt(next, request[d].to) : Earns(row'[b].status, s)
  PROVE  Recovery'
<1>0. \A s \in PaidOnce : vouchers[b, s] = 0
  <2>. SUFFICES ASSUME NEW s \in PaidOnce PROVE vouchers[b, s] = 0
    OBVIOUS
  <2>1. <<b, s>> \in Bookings \X Sources
    BY DueIs
  <2>2. vouchers[b, s] \in Nat
    BY <2>1 DEF ShapeInv, TypeOK
  <2>3. ~(vouchers[b, s] > 0)
    <3>1. vouchers[b, s] > 0 => Earns(row[b].status, s)
      BY Zenon DEF Recovery, Missed, Paid
    <3>2. ~Earns(row[b].status, s)
      BY DueIs, Zenon
    <3>. QED  BY <3>1, <3>2, Zenon
  <2>. DEFINE n == vouchers[b, s]
  <2>. HIDE DEF n
  <2>4. n \in Nat
    BY <2>2 DEF n
  <2>5. ~(n > 0)
    BY <2>3, Zenon DEF n
  <2>6. n = 0
    BY <2>4, <2>5
  <2>. QED  BY <2>6 DEF n
<1>1. Missed'
  <2>1. ASSUME NEW c \in Bookings, c # b PROVE (Paid(c) /\ Waited(c))'
    <3>1. row'[c] = row[c] /\ Paid(c) /\ Waited(c)
      BY <2>1 DEF Others, Recovery, Missed
    <3>. QED  BY <3>1 DEF Paid, Waited
  <2>2. (Paid(b) /\ Waited(b))'
    <3>1. ASSUME NEW s \in PaidOnce PROVE vouchers'[b, s] <= Limit(s) /\ ~(vouchers'[b, s] > 0)
      <4>. DEFINE n == vouchers'[b, s]
                  m == Limit(s)
      <4>1. n = 0
        BY <1>0
      <4>2. m \in Nat
        BY DueIs, Zenon
      <4>. HIDE DEF n, m
      <4>3. n <= m /\ ~(n > 0)
        BY <4>1, <4>2
      <4>. QED  BY <4>3 DEF n, m
    <3>2. Paid(b)'
      BY <3>1, Zenon DEF Paid, Limit, Earns, PaidOnce
    <3>. QED  BY <3>2 DEF Waited
  <2>. QED  BY <2>1, <2>2 DEF Missed
<1>2. ASSUME NEW e \in Desks, e # d PROVE Due(e)' = Due(e) /\ Aim(e)' = Aim(e)
  BY <1>2, AfterWriteIs DEF Due, Aim
<1>3. Due(d)' = DueAt(next, request[d].to) /\ Aim(d)' = b
  BY AfterWriteIs DEF Due, Aim
<1>4. ASSUME NEW e \in Desks, Due(e) # {} PROVE Aim(e) \in Bookings \ {b}
  <2>1. Aim(e) \in Bookings
    BY <1>4, AimIs
  <2>2. row[Aim(e)].status \in Outcomes
    BY <1>4, DueIs DEF Recovery, Owed
  <2>. QED  BY <2>1, <2>2
<1>5. ASSUME NEW e \in Desks PROVE Owed(e)'
  <2>1. CASE e = d
    <3>1. ASSUME NEW s \in DueAt(next, request[d].to) PROVE vouchers'[b, s] = 0
      BY <1>0 DEF DueAt
    <3>2. ASSUME NEW f \in Desks \ {d}, NEW s, s \in Due(f)' PROVE Aim(f)' # b
      BY <1>2, <1>4, <3>2
    <3>. QED  BY <1>3, <2>1, <3>1, <3>2 DEF Owed
  <2>2. CASE e # d
    <3>. SUFFICES ASSUME NEW s \in Due(e)
                  PROVE  /\ Earns(row'[Aim(e)].status, s) /\ vouchers'[Aim(e), s] = 0
                         /\ \A f \in Desks \ {e} : ~(s \in Due(f)' /\ Aim(f)' = Aim(e))
      BY <1>2, <2>2 DEF Owed
    <3>1. /\ Earns(row[Aim(e)].status, s) /\ vouchers[Aim(e), s] = 0
          /\ \A f \in Desks \ {e} : ~(s \in Due(f) /\ Aim(f) = Aim(e))
      BY DEF Recovery, Owed
    <3>2. Aim(e) \in Bookings \ {b} /\ row'[Aim(e)] = row[Aim(e)]
      BY <1>4 DEF Others
    <3>3. ASSUME NEW f \in Desks \ {e}, s \in Due(f)' PROVE Aim(f)' # Aim(e)
      <4>1. CASE f = d
        BY <1>3, <3>2, <4>1
      <4>2. CASE f # d
        BY <1>2, <3>1, <3>3, <4>2
      <4>. QED  BY <4>1, <4>2
    <3>. QED  BY <3>1, <3>2, <3>3
  <2>. QED  BY <2>1, <2>2
<1>. QED  BY <1>1, <1>5 DEF Recovery

\* What a quiet step leaves its request to issue, and what it issues.
LEMMA QuietDue ==
  ASSUME ShapeInv, NEW d \in Desks, BeginStep(d) \/ ProceedStep(d)
  PROVE  \/ UNCHANGED vouchers /\ Due(d)' = {}
         \/ /\ Due(d)' \subseteq Due(d) \ {"recovery"} /\ Aim(d)' = Aim(d)
            /\ "recovery" \in Due(d)
            /\ UNCHANGED vouchers \/ Issues(Aim(d), "recovery", 1)
         \/ /\ Due(d)' = {}
            /\ \E s \in Events : /\ s \in PaidOnce => s \in Due(d)
                                 /\ \E n \in 0..Rewards[s] : Issues(Aim(d), s, n)
<1>0. request \in [Desks -> Request] /\ Shape(request[d]) /\ request[d] \in Request
  BY DEF ShapeInv, Shapes, Shape
<1>1. CASE IssueRecoveryVoucher(d)
  <2>1. /\ request[d].pc = "recover" /\ request'[d].pc = "emit" /\ request'[d].to = request[d].to
        /\ request'[d].b = request[d].b /\ request[d].to \in Events
    BY <1>0, <1>1 DEF IssueRecoveryVoucher, At, Goto, Request
  <2>2. /\ Due(d) = DueAt("recover", request[d].to) /\ Due(d)' = DueAt("emit", request[d].to)
        /\ Aim(d)' = Aim(d)
    BY <2>1 DEF Due, Aim
  <2>3. /\ "recovery" \in DueAt("recover", request[d].to)
        /\ DueAt("emit", request[d].to) \subseteq DueAt("recover", request[d].to) \ {"recovery"}
    BY <2>1, DueIs DEF DueAt, PaidOnce
  <2>. QED  BY <1>1, <2>2, <2>3, VouchersAre DEF Aim
<1>2. CASE Emit(d)
  <2>. DEFINE s == Published(request[d].to)
  <2>1. s \in Events /\ \E n \in 0..Rewards[s] : Issues(Aim(d), s, n)
    BY <1>2, VouchersAre DEF Aim
  <2>2. request[d].pc = "emit" /\ request[d].loop \in Loops
    BY <1>0, <1>2 DEF Emit, At, Shape, InLoop
  <2>3. s \in PaidOnce => s \in Due(d)
    BY <2>2 DEF Due, DueAt
  <2>4. \/ request'[d].pc \notin {"emit", "recover"}
        \/ request'[d].pc = "emit" /\ request'[d].to = "confirmed"
    BY <1>0, <1>2, <2>2, IdleIs DEF Emit, Done, Request, Loops
  <2>5. Due(d)' = {}
    BY <2>4, DueIs DEF Due
  <2>. HIDE DEF s
  <2>. QED  BY <2>1, <2>3, <2>5
<1>3. CASE ~IssueRecoveryVoucher(d) /\ ~Emit(d)
  <2>1. UNCHANGED vouchers
    BY <1>3
       DEF BeginStep, ProceedStep, AskBook, AskCheckIn, AskCancel, AskMove, StartScan, CancelSeries,
           StartSeries, MoveSeries, LookAt, ScanRow, ScanDone, SeriesPush, DropRead, DropDone,
           ShiftRead, ShiftDone, Die
  <2>2. request'[d].pc \notin {"emit", "recover"}
    BY <1>3, BeginIs, ProceedIs
  <2>3. Due(d)' = {}
    BY <2>2, DueIs DEF Due
  <2>. QED  BY <2>1, <2>3
<1>. QED  BY <1>1, <1>2, <1>3

LEMMA RecoveryQuiet ==
  ASSUME ShapeInv, Recovery, NEW d \in Desks, BeginStep(d) \/ ProceedStep(d)
  PROVE  Recovery'
<1>. DEFINE b == Aim(d)
<1>0. /\ UNCHANGED <<now, row>> /\ vouchers \in [Bookings \X Sources -> Nat]
      /\ \A e \in Desks \ {d} : Due(e)' = Due(e) /\ Aim(e)' = Aim(e)
  BY QuietIs, QuietMoves DEF ShapeInv, TypeOK, Due, Aim
<1>1. /\ Due(d)' \subseteq Due(d) /\ (Due(d)' # {} => Aim(d)' = Aim(d))
      /\ \/ UNCHANGED vouchers
         \/ \E s \in Sources, n \in Nat :
               /\ Issues(b, s, n)
               /\ s \in PaidOnce => s \in Due(d) /\ s \notin Due(d)' /\ n <= Limit(s)
  <2>1. ASSUME NEW s \in Events, s \in PaidOnce => s \in Due(d), NEW n \in 0..Rewards[s],
               Issues(b, s, n)
        PROVE  s \in Sources /\ n \in Nat /\ (s \in PaidOnce => n <= Limit(s))
    <3>1. Rewards[s] \in Nat /\ s # "recovery"
      BY DEF Events, Outcomes, Cancelled
    <3>. QED  BY <2>1, <3>1 DEF Limit, Sources
  <2>2. "recovery" \in Sources /\ 1 <= Limit("recovery")
    BY DEF Sources, Limit
  <2>3. CASE UNCHANGED vouchers /\ Due(d)' = {}
    BY <2>3
  <2>4. CASE /\ Due(d)' \subseteq Due(d) \ {"recovery"} /\ Aim(d)' = Aim(d)
             /\ "recovery" \in Due(d)
             /\ UNCHANGED vouchers \/ Issues(Aim(d), "recovery", 1)
    BY <2>2, <2>4
  <2>5. CASE /\ Due(d)' = {}
             /\ \E s \in Events : /\ s \in PaidOnce => s \in Due(d)
                                  /\ \E n \in 0..Rewards[s] : Issues(Aim(d), s, n)
    BY <2>1, <2>5
  <2>. QED  BY <2>3, <2>4, <2>5, QuietDue
\* What is still due has not been issued in this step.
<1>2. ASSUME NEW e \in Desks, NEW s \in Due(e)'
      PROVE  /\ s \in Due(e) /\ Aim(e)' = Aim(e) /\ Earns(row[Aim(e)].status, s)
             /\ vouchers'[Aim(e), s] = 0
  <2>1. s \in Due(e) /\ Aim(e)' = Aim(e)
    BY <1>0, <1>1
  <2>2. /\ Earns(row[Aim(e)].status, s) /\ vouchers[Aim(e), s] = 0 /\ s \in PaidOnce
        /\ \A f \in Desks \ {e} : ~(s \in Due(f) /\ Aim(f) = Aim(e))
    BY <2>1 DEF Recovery, Owed, Due, DueAt
  <2>3. Aim(e) \in Bookings
    BY <2>1, AimIs
  <2>4. ASSUME NEW t \in Sources, NEW n \in Nat, Issues(b, t, n),
               t \in PaidOnce => t \in Due(d) /\ t \notin Due(d)'
        PROVE  vouchers'[Aim(e), s] = 0
    <3>1. <<Aim(e), s>> # <<b, t>>
      BY <1>2, <2>1, <2>2, <2>4
    <3>2. <<Aim(e), s>> \in Bookings \X Sources
      BY <2>2, <2>3, DueIs
    <3>. QED  BY <1>0, <2>2, <2>4, <3>1, <3>2 DEF Issues
  <2>5. UNCHANGED vouchers => vouchers'[Aim(e), s] = 0
    BY <2>2
  <2>. QED  BY <1>1, <2>1, <2>2, <2>4, <2>5
<1>3. ASSUME NEW e \in Desks PROVE Owed(e)'
  <2>1. ASSUME NEW s \in Due(e)', NEW f \in Desks \ {e}, s \in Due(f)' PROVE Aim(f)' # Aim(e)
    BY <1>2, <2>1 DEF Recovery, Owed
  <2>. QED  BY <1>0, <1>2, <2>1 DEF Owed
<1>4. Missed'
  <2>1. ASSUME NEW c \in Bookings, NEW s \in PaidOnce
        PROVE  vouchers'[c, s] <= Limit(s) /\ (vouchers'[c, s] > 0 => Earns(row[c].status, s))
    <3>0. vouchers[c, s] <= Limit(s) /\ (vouchers[c, s] > 0 => Earns(row[c].status, s))
      BY DEF Recovery, Missed, Paid
    <3>1. ASSUME NEW t \in Sources, NEW n \in Nat, Issues(b, t, n), <<c, s>> = <<b, t>>,
                 t \in Due(d), n <= Limit(t)
          PROVE  vouchers'[c, s] <= Limit(s) /\ Earns(row[c].status, s)
      <4>1. vouchers[b, t] = 0 /\ Earns(row[b].status, t)
        BY <3>1 DEF Recovery, Owed
      <4>2. <<b, t>> \in Bookings \X Sources
        BY <3>1
      <4>3. vouchers'[<<b, t>>] = n
        <5>. DEFINE i == <<b, t>>
        <5>1. vouchers' = [vouchers EXCEPT ![i] = @ + n] /\ vouchers[i] = 0 /\ n \in Nat
          BY <3>1, <4>1 DEF Issues
        <5>2. i \in Bookings \X Sources
          BY <4>2
        <5>. HIDE DEF i
        <5>3. vouchers'[i] = n
          BY <1>0, <5>1, <5>2
        <5>. QED  BY <5>3 DEF i
      <4>. QED  BY <3>1, <4>1, <4>3
    <3>2. ASSUME NEW t \in Sources, NEW n \in Nat, Issues(b, t, n), <<c, s>> # <<b, t>>
          PROVE  vouchers'[c, s] = vouchers[c, s]
      <4>1. <<c, s>> \in Bookings \X Sources
        BY DueIs
      <4>. QED  BY <1>0, <3>2, <4>1 DEF Issues
    <3>. QED  BY <1>1, <3>0, <3>1, <3>2
  <2>. QED  BY <1>0, <2>1 DEF Recovery, Missed, Paid, Waited
<1>. QED  BY <1>3, <1>4 DEF Recovery

\* What holds while no booking was written on an out-of-date reading.
Unraced == raced = {} => Counted /\ Recovery

LEMMA UnracedWrite ==
  ASSUME ShapeInv, CurrentInv, Unraced, NEW d \in Desks, WriteStep(d)
  PROVE  Unraced'
<1>. SUFFICES ASSUME raced' = {} PROVE (Counted /\ Recovery)'
  BY DEF Unraced
<1>0. UNCHANGED <<now, vouchers, series>>
  BY DEF WriteStep
<1>1. ASSUME NEW b \in Bookings, BookStep(d, b), UNCHANGED raced PROVE (Counted /\ Recovery)'
  <2>. DEFINE next == "emit"
              slot == TRUE
  <2>1. /\ row[b].status = "none" /\ Others(b) /\ row'[b].status = "confirmed"
        /\ AfterWrite(d, b, next, slot) /\ next \in {"emit", "recover"} /\ next # "recover"
        /\ total' = [total EXCEPT !["confirmed"] = @ + 1]
    BY <1>1, BookIs
  <2>2. Counted /\ Recovery
    BY <1>1 DEF Unraced
  <2>3. Counted'
    BY <2>1, <2>2, CountedFresh
  <2>4. /\ row[b].status \notin Outcomes /\ row'[b].status # "no_show"
        /\ DueAt(next, request[d].to) = {}
    <3>1. request[d].to = "created"
      BY <1>1 DEF BookStep, SeriesStep, At, ShapeInv, Shapes, Shape, InLoop, Says
    <3>. QED  BY <2>1, <3>1, DueIs DEF Outcomes, Cancelled
  <2>. HIDE DEF next, slot
  <2>5. Recovery'
    BY <1>0, <2>1, <2>2, <2>4, RecoveryWrite
  <2>. QED  BY <2>3, <2>5
<1>2. ASSUME NEW b \in Bookings, NEW at \in Nat, SeriesStep(d, b, at), UNCHANGED raced
      PROVE  (Counted /\ Recovery)'
  <2>. DEFINE next == "emit"
              slot == TRUE
  <2>1. /\ row[b].status = "none" /\ Others(b) /\ row'[b].status = "confirmed"
        /\ AfterWrite(d, b, next, slot) /\ next \in {"emit", "recover"} /\ next # "recover"
        /\ total' = [total EXCEPT !["confirmed"] = @ + 1]
    BY ONLY ShapeInv, <1>2, SeriesIs
  <2>2. Counted /\ Recovery
    BY <1>2 DEF Unraced
  <2>3. Counted'
    BY <2>1, <2>2, CountedFresh
  <2>4. /\ row[b].status \notin Outcomes /\ row'[b].status # "no_show"
        /\ DueAt(next, request[d].to) = {}
    <3>1. request[d].to = "created"
      BY <1>2 DEF BookStep, SeriesStep, At, ShapeInv, Shapes, Shape, InLoop, Says
    <3>. QED  BY <2>1, <3>1, DueIs DEF Outcomes, Cancelled
  <2>. HIDE DEF next, slot
  <2>5. Recovery'
    BY <1>0, <2>1, <2>2, <2>4, RecoveryWrite
  <2>. QED  BY <2>3, <2>5
\* A write that notes no race found its booking confirmed.
<1>3. ASSUME request[d].pc \in Writes, NoteRace(d)
      PROVE  /\ Counted /\ Recovery /\ Confirmed(Aim(d))
             /\ At(d, "absent") => row[Aim(d)].at + Grace + Cutoff <= now
  <2>1. raced = {} /\ ~request[d].stale
    BY <1>3 DEF NoteRace
  <2>2. Current(request[d]) /\ Aim(d) \in Bookings /\ Shape(request[d])
    BY <1>3 DEF CurrentInv, Aim, ShapeInv, Shapes, Shape, Aimed
  <2>3. row[Aim(d)].at \in Nat /\ request[d].since \in Nat /\ now \in Nat
    BY <2>2 DEF ShapeInv, TypeOK, Row, Shape, Request
  <2>. QED  BY <1>3, <2>1, <2>2, <2>3 DEF Current, Unraced, At, Aim
<1>4. ASSUME NEW outcome \in Outcomes, NEW next \in {"emit", "recover"}, SettleStep(d, outcome, next)
      PROVE  (Counted /\ Recovery)'
  <2>1. /\ Aim(d) \in Bookings /\ Others(Aim(d)) /\ row'[Aim(d)].status = outcome
        /\ AfterWrite(d, Aim(d), next, FALSE) /\ NoteRace(d)
    BY ONLY ShapeInv, <1>4, SettleIs
  <2>2. row'[Aim(d)].at = row[Aim(d)].at
    BY ONLY ShapeInv, <1>4, SettleIs
  <2>3. request[d].pc \in Writes
    BY <1>4 DEF SettleStep, At, Writes
  <2>4. total' = [total EXCEPT ![outcome] = @ + 1]
    BY <1>4 DEF SettleStep, Settle, Count
  <2>. DEFINE slot == FALSE
  <2>5. PICK b \in Bookings : b = Aim(d)
    BY <2>1
  <2>6. /\ Counted /\ Recovery /\ Confirmed(b) /\ Others(b)
        /\ row'[b].status = outcome /\ row'[b].at = row[b].at /\ AfterWrite(d, b, next, slot)
        /\ At(d, "absent") => row[b].at + Grace + Cutoff <= now
    BY <1>3, <2>1, <2>5, <2>2, <2>3
  <2>7. /\ outcome = "no_show" <=> next = "recover"
        /\ next = "recover" => At(d, "absent") /\ request[d].loop = "scan"
    BY <1>4 DEF SettleStep, At, ShapeInv, Shapes, Shape, InLoop
  <2>8. Counted'
    BY <2>1, <2>6, <2>4, CountedSettled
  <2>9. row[b].status \notin Outcomes /\ \A s \in DueAt(next, request[d].to) : Earns(row'[b].status, s)
    <3>1. outcome = request[d].to
      BY <1>4 DEF SettleStep
    <3>2. ASSUME NEW s \in DueAt(next, outcome) PROVE Earns(outcome, s)
      BY <2>7, DueIs DEF DueAt, Earns
    <3>. QED  BY <2>6, <3>1, <3>2 DEF Confirmed, Outcomes, Cancelled
  <2>. HIDE DEF slot
  <2>10. Recovery'
    BY <1>0, <2>6, <2>7, <2>9, RecoveryWrite
  <2>. QED  BY <2>8, <2>10
<1>5. ASSUME ReslotStep(d) PROVE (Counted /\ Recovery)'
  <2>. DEFINE next == "emit"
              slot == TRUE
  <2>1. /\ Aim(d) \in Bookings /\ request[d].pc \in Writes /\ Others(Aim(d))
        /\ row'[Aim(d)].status = "confirmed" /\ AfterWrite(d, Aim(d), next, slot) /\ NoteRace(d)
        /\ total' = [total EXCEPT !["rescheduled"] = @ + 1]
        /\ next \in {"emit", "recover"} /\ next # "recover"
    BY ONLY ShapeInv, <1>5, ReslotIs
  <2>2. PICK b \in Bookings : b = Aim(d)
    BY <2>1
  <2>3. /\ Counted /\ Recovery /\ Confirmed(b) /\ Others(b)
        /\ row'[b].status = "confirmed" /\ AfterWrite(d, b, next, slot)
    BY <1>3, <2>1, <2>2
  <2>4. Counted'
    BY <2>1, <2>3, CountedMoved
  <2>5. /\ row[b].status \notin Outcomes /\ row'[b].status # "no_show"
        /\ DueAt(next, request[d].to) = {}
    BY <1>5, <2>3, DueIs DEF Confirmed, Outcomes, Cancelled, ReslotStep
  <2>. HIDE DEF next, slot
  <2>6. Recovery'
    BY <1>0, <2>1, <2>3, <2>5, RecoveryWrite
  <2>. QED  BY <2>4, <2>6
<1>. QED  BY <1>1, <1>2, <1>4, <1>5 DEF WriteStep

LEMMA UnracedNext ==
  ASSUME ShapeInv, CurrentInv, Unraced, [Next]_vars
  PROVE  Unraced'
<1>1. CASE UNCHANGED vars
  <2>1. UNCHANGED <<row, total, vouchers, request, raced, now>>
    BY <1>1 DEF vars, bookVars
  <2>2. Missed => Missed'
    BY <2>1, Zenon DEF Missed, Paid, Waited
  <2>3. Recovery => Recovery'
    BY <2>1, <2>2 DEF Recovery, Owed, Due, Aim
  <2>. QED  BY <2>1, <2>3 DEF Unraced, Counted, WithStatus
<1>2. CASE Tick
  <2>1. UNCHANGED <<row, total, vouchers, request, raced>> /\ now' = now + 1 /\ now \in Nat
    BY <1>2 DEF Tick, bookVars, ShapeInv, TypeOK
  <2>2. Counted => Counted'
    BY <2>1 DEF Counted, WithStatus
  <2>3. Missed => Missed'
    <3>1. \A b \in Bookings : row[b].at \in Nat
      BY DEF ShapeInv, TypeOK, Row
    <3>2. ASSUME NEW b \in Bookings, Paid(b) PROVE Paid(b)'
      BY <2>1, <3>2, Zenon DEF Paid
    <3>3. ASSUME NEW b \in Bookings, Waited(b) PROVE Waited(b)'
      BY <2>1, <3>1, <3>3 DEF Waited
    <3>. QED  BY <3>2, <3>3 DEF Missed
  <2>4. Recovery => Recovery'
    BY <2>1, <2>3 DEF Recovery, Owed, Due, Aim
  <2>. QED  BY <2>1, <2>2, <2>4 DEF Unraced
<1>3. ASSUME NEW d \in Desks, BeginStep(d) \/ ProceedStep(d) PROVE Unraced'
  <2>1. raced' = {} => raced = {}
    BY <1>3
       DEF BeginStep, ProceedStep, AskBook, AskCheckIn, AskCancel, AskMove, StartScan, CancelSeries,
           StartSeries, MoveSeries, LookAt, ScanRow, IssueRecoveryVoucher, ScanDone, SeriesPush,
           DropRead, DropDone, ShiftRead, ShiftDone, Emit, Die
  <2>2. Recovery => Recovery'
    BY <1>3, RecoveryQuiet
  <2>3. Counted => Counted'
    BY <1>3, QuietIs DEF Counted, WithStatus
  <2>. QED  BY <2>1, <2>2, <2>3 DEF Unraced
<1>. QED  BY <1>1, <1>2, <1>3, StepIs, UnracedWrite

(***************************************************************************)
(* Until some booking is written on an out-of-date reading, the brand's    *)
(* counters are the outcomes of its bookings, a missed booking had its     *)
(* whole grace and cutoff, and no outcome is paid for twice, by the scan's *)
(* recovery or by a trigger (every write of reservations.py increments its *)
(* counter in the pipeline that moves the booking and is followed by one   *)
(* event, and scan_no_shows takes confirmed ones only).                    *)
(***************************************************************************)
THEOREM UnracedHolds == Spec => []UnracedIsConsistent
<1>. DEFINE Inv == ShapeInv /\ CurrentInv /\ Unraced
<1>1. Init => Inv
  <2>1. ASSUME Init PROVE CurrentInv /\ Unraced
    <3>1. CurrentInv
      BY <2>1, IdleIs DEF Init, CurrentInv, Current, Writes
    <3>2. \A b \in Bookings : /\ row[b].status = "none"
                              /\ \A s \in PaidOnce : vouchers[b, s] = 0
      BY <2>1, DueIs DEF Init, NoRow
    <3>3. WithStatus("none") = Bookings /\ \A o \in Outcomes : WithStatus(o) = {}
      BY <3>2 DEF WithStatus, Outcomes, Cancelled
    <3>4. Counted
      BY <2>1, <3>3, FS_EmptySet DEF Init, Counted, Counters, Events, Outcomes, Cancelled
    <3>5. Recovery
      <4>1. Missed
        <5>1. ASSUME NEW b \in Bookings, NEW s \in PaidOnce
              PROVE  vouchers[b, s] <= Limit(s) /\ ~(vouchers[b, s] > 0)
          <6>. DEFINE n == vouchers[b, s]
                      m == Limit(s)
          <6>1. n = 0 /\ m \in Nat
            BY <3>2, DueIs, Zenon
          <6>. HIDE DEF n, m
          <6>2. n <= m /\ ~(n > 0)
            BY <6>1
          <6>. QED  BY <6>2 DEF n, m
        <5>2. ASSUME NEW b \in Bookings PROVE Paid(b)
          BY <5>1, Zenon DEF Paid
        <5>. QED  BY <3>2, <5>2 DEF Missed, Waited
      <4>2. \A d \in Desks : Due(d) = {}
        BY <2>1, IdleIs, DueIs DEF Init, Due
      <4>. QED  BY <4>1, <4>2 DEF Recovery, Owed
    <3>. QED  BY <3>1, <3>4, <3>5 DEF Unraced
  <2>. QED  BY <2>1, ShapeInit
<1>2. Inv /\ [Next]_vars => Inv'
  BY ShapeNext, CurrentNext, UnracedNext
<1>3. Inv => UnracedIsConsistent
  BY ConsistentIs DEF Unraced, Recovery
<1>. QED  BY <1>1, <1>2, <1>3, PTL DEF Spec
=============================================================================
