------------------------ MODULE EnergySessionProofs ------------------------
(***************************************************************************)
(* For any number of sessions, requests and codes, and any periods: two    *)
(* sessions are live together only after a lock was taken from its owner;  *)
(* every key keeps its type; and all the energy a player has, or has paid, *)
(* was there at the start, was given, or took its interval to grow.        *)
(***************************************************************************)
EXTENDS EnergySession, SumFacts

(***************************************************************************)
(* The inductive invariant says where the reservation of a live session    *)
(* stands: it runs out together with a lock the session still owns, or     *)
(* that lock was taken away.                                               *)
(***************************************************************************)
LockTyped == /\ now \in Nat
             /\ reserved \in [Sessions -> Nat]
             /\ lock \in [owner : Sessions \cup {None}, until : Nat]
             /\ end \in [Ends -> Sessions \cup {None}]

Backed(s) == s \in unlocked \/ (lock.owner = s /\ lock.until = reserved[s])

LockInv == LockTyped /\ \A s \in Sessions : Live(s) => Backed(s)

USE EnergyAssumption DEF Sessions

\* The initial state has no live session.
LEMMA InitLock == Init => LockInv
  BY DEF Init, LockInv, LockTyped, Live, Alive, NoLock

\* A start needs the lock free, so whatever is live has lost its lock before.
LEMMA StartLock ==
  ASSUME LockInv, NEW s \in Sessions, NEW cost \in Costs, Start(s, cost)
  PROVE  LockInv'
<1>1. LockTyped'
  BY DEF Start, LockInv, LockTyped, loginVars
<1>2. ASSUME NEW t \in Sessions, Live(t)' PROVE Backed(t)'
  <2>1. CASE t = s
    BY <2>1, <1>1 DEF Start, Backed, LockInv, LockTyped
  <2>2. CASE t # s
    <3>1. Live(t) /\ ~Locked
      BY <1>2, <2>2 DEF Start, Live, Alive, LockInv, LockTyped
    <3>2. t \in unlocked
      BY <3>1 DEF LockInv, LockTyped, Backed, Live, Locked, Alive
    <3> QED BY <3>2 DEF Start, Backed
  <2> QED BY <2>1, <2>2
<1> QED BY <1>1, <1>2 DEF LockInv

\* The end of a session drops its reservation, and any lock: its owner, if it
\* is live and another session, is recorded.
LEMMA ConfirmLock ==
  ASSUME LockInv, NEW e \in Ends, Confirm(e)
  PROVE  LockInv'
<1>1. CASE ~Stored(end[e])
  BY <1>1 DEF Confirm, LockInv, LockTyped, Live, Alive, Backed
<1>2. CASE Stored(end[e])
  <2> DEFINE s == end[e]
  <2>1. /\ s \in Sessions
        /\ reserved' = [reserved EXCEPT ![s] = 0]
        /\ lock' = NoLock
        /\ unlocked' = IF Locked /\ lock.owner # s THEN unlocked \cup {lock.owner}
                                                   ELSE unlocked
        /\ now' = now
        /\ end' = [end EXCEPT ![e] = None]
    BY <1>2 DEF Confirm, LockInv, LockTyped
  <2> HIDE DEF s
  <2>2. LockTyped'
    BY <2>1 DEF LockInv, LockTyped, NoLock
  <2>3. ASSUME NEW t \in Sessions, Live(t)' PROVE Backed(t)'
    <3>1. t # s /\ Live(t)
      BY <2>1, <2>3 DEF Live, Alive, LockInv, LockTyped
    <3>2. t \in unlocked \/ (lock.owner = t /\ Locked)
      BY <3>1 DEF LockInv, Backed, Live, Locked, Alive
    <3> QED BY <2>1, <3>1, <3>2 DEF Backed
  <2> QED BY <2>2, <2>3 DEF LockInv
<1> QED BY <1>1, <1>2

\* Time ends a reservation no earlier than the lock that backs it.
LEMMA TickLock == LockInv /\ Tick => LockInv'
<1> SUFFICES ASSUME LockInv, Tick PROVE LockInv'
  OBVIOUS
<1>1. LockTyped'
  BY DEF Tick, Kept, LockInv, LockTyped, NoLock
<1>2. ASSUME NEW t \in Sessions, Live(t)' PROVE Backed(t)'
  <2>1. reserved'[t] = reserved[t] /\ Live(t) /\ reserved[t] > now'
    BY <1>2 DEF Tick, Kept, Live, Alive, LockInv, LockTyped
  <2>2. Backed(t)
    BY <2>1 DEF LockInv
  <2> QED BY <2>1, <2>2 DEF Tick, Backed, sessionVars, LockInv, LockTyped
<1> QED BY <1>1, <1>2 DEF LockInv

\* No other script or request touches the lock or a reservation.
LEMMA OthersLock ==
  ASSUME LockInv, UNCHANGED <<now, reserved, lock, unlocked>>,
         end' \in [Ends -> Sessions \cup {None}]
  PROVE  LockInv'
  BY DEF LockInv, LockTyped, Live, Alive, Backed

LEMMA StepLock == LockInv /\ [Next]_vars => LockInv'
<1> SUFFICES ASSUME LockInv, [Next]_vars PROVE LockInv'
  OBVIOUS
<1>0. end \in [Ends -> Sessions \cup {None}]
  BY DEF LockInv, LockTyped
<1>1. CASE Tick
  BY <1>1, TickLock
<1>2. ASSUME NEW cost \in Costs, RefuseStart(cost) PROVE LockInv'
  BY <1>0, <1>2, OthersLock DEF RefuseStart, sessionVars
<1>3. ASSUME NEW cost \in Costs, NEW s \in Sessions, Start(s, cost) PROVE LockInv'
  BY <1>3, StartLock
<1>4. ASSUME NEW e \in Ends, Confirm(e) PROVE LockInv'
  BY <1>4, ConfirmLock
<1>5. ASSUME NEW e \in Ends, EndDies(e) PROVE LockInv'
  BY <1>0, <1>5, OthersLock DEF EndDies, sessionVars
<1>6. ASSUME NEW e \in Ends, NEW s \in Sessions, Submit(e, s) PROVE LockInv'
  BY <1>0, <1>6, OthersLock DEF Submit
<1>7. ASSUME NEW n \in Codes, Grant(n) PROVE LockInv'
  BY <1>0, <1>7, OthersLock DEF Grant, sessionVars
<1>8. ASSUME NEW l \in Logins, \/ Arrive(l) \/ Welcome(l) \/ Weigh(l)
                               \/ CreditWelcome(l) \/ Stamp(l) \/ LoginDies(l)
      PROVE LockInv'
  BY <1>0, <1>8, OthersLock
     DEF Arrive, Welcome, Weigh, CreditWelcome, Stamp, LoginDies, sessionVars
<1>9. CASE UNCHANGED vars
  BY <1>0, <1>9, OthersLock DEF vars, sessionVars
<1> QED
  BY <1>1, <1>2, <1>3, <1>4, <1>5, <1>6, <1>7, <1>8, <1>9 DEF Next

(***************************************************************************)
(* "one session per user at a time" (energy_reserve.lua) can fail only by  *)
(* energy_confirm.lua deleting a lock that is not the session's own.       *)
(***************************************************************************)
THEOREM SessionsAlone == Spec => []AloneUnlessUnlocked
<1>1. LockInv => AloneUnlessUnlocked
  BY DEF LockInv, Backed, AloneUnlessUnlocked
<1> QED BY <1>1, InitLock, StepLock, PTL DEF Spec
-----------------------------------------------------------------------------
\* Whole intervals: division by a period, and products with one.
LEMMA WholeIntervals ==
  ASSUME NEW a \in Nat, NEW b \in Nat \ {0}
  PROVE  a \div b \in Nat /\ (a \div b) * b <= a /\ a \div b <= a
<1>1. a \div b \in Nat /\ (a \div b) * b <= a
  OBVIOUS
<1>. DEFINE q == a \div b
<1>. HIDE DEF q
<1>2. ASSUME q \in Nat, q * b <= a PROVE q <= a
  <2>1. q <= q * b
    BY <1>2
  <2>. QED  BY <1>2, <2>1
<1>. QED  BY <1>1, <1>2 DEF q

LEMMA FitsIn ==
  ASSUME NEW a \in Nat, NEW b \in Nat \ {0}, NEW k \in Int, k * b <= a
  PROVE  k <= a \div b
<1>. DEFINE q == a \div b
<1>1. q \in Nat /\ a < b * q + b
  OBVIOUS
<1>. HIDE DEF q
<1>2. CASE k >= q + 1
  <2>1. PICK j \in Nat : k = q + 1 + j
    BY <1>1, <1>2
  <2>2. k * b = q * b + b + j * b
    BY <1>1, <2>1
  <2>3. j * b \in Nat
    OBVIOUS
  <2>. QED  BY <1>1, <2>2, <2>3
<1>. QED  BY <1>1, <1>2 DEF q

LEMMA GrowsBy ==
  ASSUME NEW x \in Int, NEW y \in Int, NEW k \in Nat, NEW b \in Nat, NEW r \in Int,
         x * b <= r, y <= x + k
  PROVE  y * b <= r + k * b
<1>1. (x + k) * b = x * b + k * b
  OBVIOUS
<1>2. y * b <= (x + k) * b
  OBVIOUS
<1>3. x * b \in Int /\ y * b \in Int /\ k * b \in Int
  OBVIOUS
<1>. QED  BY <1>1, <1>2, <1>3

USE UnitsAssumption

LEMMA SessionsFinite == IsFiniteSet(Sessions)
<1>1. 1 \in Int /\ MaxSessions \in Int
  OBVIOUS
<1>. QED  BY ONLY <1>1, FS_Interval DEF Sessions

HIDE DEF Sessions

(***************************************************************************)
(* The regeneration clock is never ahead of time, energy above Overcap was *)
(* given, and a lock that lives has an owner.                              *)
(***************************************************************************)
EnergyTyped == /\ TypeOK
               /\ regenAt <= now
               /\ balance <= given + Overcap
               /\ lock.owner \in Sessions \/ lock.until = 0

\* What a script's regeneration yields: whole intervals, at most up to the cap.
LEMMA RegenIs ==
  ASSUME EnergyTyped
  PROVE  /\ Intervals \in Nat /\ Intervals * Interval \in Nat
         /\ Regened \in Nat /\ balance <= Regened /\ Regened <= balance + Intervals
         /\ Regened = balance \/ Regened <= Cap
         /\ CaughtUp = regenAt + Intervals * Interval
         /\ CaughtUp \in Times /\ regenAt <= CaughtUp /\ CaughtUp <= now
<1>0. now \in Nat /\ regenAt \in Nat /\ regenAt <= now /\ balance \in Nat
      /\ Interval \in Nat \ {0} /\ Cap \in Nat /\ now <= LastTime
  BY DEF EnergyTyped, TypeOK, Times
<1>1. Intervals \in Nat /\ Intervals * Interval <= now - regenAt
  <2>. DEFINE a == now - regenAt
  <2>1. a \in Nat /\ a \div Interval \in Nat /\ (a \div Interval) * Interval <= a
    BY <1>0, WholeIntervals
  <2>2. Intervals = IF balance < Cap THEN a \div Interval ELSE 0
    BY DEF Intervals
  <2>3. 0 * Interval = 0
    BY <1>0
  <2>. HIDE DEF a
  <2>4. Intervals * Interval <= a
    BY <2>1, <2>2, <2>3
  <2>. QED  BY <2>1, <2>2, <2>4 DEF a
<1>2. Intervals * Interval \in Nat
  BY <1>0, <1>1
<1>3. CaughtUp = regenAt + Intervals * Interval
  BY DEF CaughtUp
<1>4. CaughtUp \in Times /\ regenAt <= CaughtUp /\ CaughtUp <= now
  <2>. DEFINE m == Intervals * Interval
  <2>. HIDE DEF m
  <2>1. m \in Nat /\ CaughtUp = regenAt + m /\ m <= now - regenAt
    BY <1>1, <1>2, <1>3 DEF m
  <2>. QED  BY <1>0, <2>1 DEF Times
<1>5. /\ Regened \in Nat /\ balance <= Regened /\ Regened <= balance + Intervals
      /\ Regened = balance \/ Regened <= Cap
  <2>1. Intervals > 0 => balance < Cap
    BY DEF Intervals
  <2>. QED  BY <1>0, <1>1, <2>1 DEF Regened, Lower
<1>. QED  BY <1>1, <1>2, <1>3, <1>4, <1>5

LEMMA DeadlinesAre ==
  ASSUME now \in Times
  PROVE  now + SessionTtl \in Deadlines /\ now + Cooldown \in Deadlines /\ now + NonceTtl \in Deadlines
         /\ now \in Nat /\ 0 \in Deadlines
  BY DEF Times, Deadlines

LEMMA LockFree ==
  ASSUME EnergyTyped, lock' = lock \/ lock' = NoLock
  PROVE  (lock.owner \in Sessions \/ lock.until = 0)'
  BY DEF EnergyTyped, NoLock

LEMMA TypedInit == Init => EnergyTyped
<1>. SUFFICES ASSUME Init PROVE EnergyTyped
  OBVIOUS
<1>1. 0 \in Times /\ 0 \in Deadlines
  BY DEF Times, Deadlines
<1>. QED
  BY <1>1 DEF Init, EnergyTyped, TypeOK, NoSession, SessionRow, NoLock, LockRow, NoLogin, LoginState

LEMMA TypedScripts ==
  ASSUME EnergyTyped,
         \/ \E cost \in Costs : RefuseStart(cost) \/ \E s \in Sessions : Start(s, cost)
         \/ \E e \in Ends : Confirm(e) \/ EndDies(e) \/ \E s \in Sessions : Submit(e, s)
         \/ \E n \in Codes : Grant(n)
  PROVE  EnergyTyped'
<1>0. TypeOK /\ now \in Times /\ balance \in Nat /\ given \in Nat /\ balance <= given + Overcap
      /\ Overcap \in Nat /\ Cap <= Overcap /\ Cap \in Nat
  BY DEF EnergyTyped, TypeOK
<1>1. ASSUME NEW cost \in Costs, RefuseStart(cost) PROVE EnergyTyped'
  BY <1>0, <1>1, RegenIs DEF RefuseStart, EnergyTyped, TypeOK, sessionVars, grantVars, loginVars
<1>2. ASSUME NEW cost \in Costs, NEW s \in Sessions, Start(s, cost) PROVE EnergyTyped'
  <2>. DEFINE row == [status |-> "CREATED", cost |-> cost, at |-> now]
              key == [owner |-> s, until |-> now + SessionTtl]
              expiry == now + SessionTtl
  <2>1. row \in SessionRow /\ key \in LockRow /\ expiry \in Deadlines /\ key.owner \in Sessions
    BY <1>0, DeadlinesAre DEF SessionRow, LockRow
  <2>2. /\ session' = [session EXCEPT ![s] = row] /\ reserved' = [reserved EXCEPT ![s] = expiry]
        /\ lock' = key /\ balance' = Regened - cost /\ regenAt' = CaughtUp /\ cost <= Regened
        /\ UNCHANGED <<now, unlocked, grantVars, loginVars, end, given>>
    BY <1>2, RegenIs DEF Start
  <2>. HIDE DEF row, key, expiry
  <2>3. session' \in [Sessions -> SessionRow] /\ reserved' \in [Sessions -> Deadlines]
    <3>1. session \in [Sessions -> SessionRow] /\ reserved \in [Sessions -> Deadlines]
      BY <1>0 DEF TypeOK
    <3>2. row \in SessionRow /\ expiry \in Deadlines
      BY <2>1
    <3>3. session' = [session EXCEPT ![s] = row] /\ reserved' = [reserved EXCEPT ![s] = expiry]
      BY <2>2
    <3>4. session' \in [Sessions -> SessionRow]
      BY ONLY s \in Sessions, <3>1, <3>2, <3>3
    <3>5. reserved' \in [Sessions -> Deadlines]
      BY ONLY s \in Sessions, <3>1, <3>2, <3>3
    <3>. QED  BY <3>4, <3>5
  <2>4. balance' \in Nat /\ balance' <= given' + Overcap
    <3>1. balance' = Regened - cost /\ cost <= Regened /\ given' = given /\ cost \in Nat
      BY <2>2
    <3>2. Regened \in Nat /\ (Regened = balance \/ Regened <= Cap)
      BY RegenIs
    <3>. QED  BY ONLY <1>0, <3>1, <3>2
  <2>. QED
    BY <1>0, <2>1, <2>2, <2>3, <2>4, RegenIs DEF EnergyTyped, TypeOK, grantVars, loginVars
<1>3. ASSUME NEW e \in Ends, Confirm(e) PROVE EnergyTyped'
  <2>1. end' \in [Ends -> Sessions \cup {None}]
    BY <1>0, <1>3 DEF Confirm, TypeOK
  <2>2. /\ reserved' \in [Sessions -> Deadlines] /\ lock' \in LockRow /\ unlocked' \subseteq Sessions
        /\ lock' = lock \/ lock' = NoLock
    <3>1. CASE UNCHANGED <<reserved, lock, unlocked>>
      BY <1>0, <3>1 DEF TypeOK
    <3>2. CASE Stored(end[e])
      <4>. DEFINE s == end[e]
      <4>1. s \in Sessions /\ reserved' = [reserved EXCEPT ![s] = 0] /\ lock' = NoLock
            /\ (unlocked' = unlocked \/ (Locked /\ unlocked' = unlocked \cup {lock.owner}))
        BY <1>0, <1>3, <3>2 DEF Confirm, TypeOK
      <4>. HIDE DEF s
      <4>2. NoLock \in LockRow /\ 0 \in Deadlines
        BY DeadlinesAre, <1>0 DEF NoLock, LockRow
      <4>3. Locked => lock.owner \in Sessions
        BY <1>0 DEF Locked, Alive, EnergyTyped, Times
      <4>. QED  BY <1>0, <4>1, <4>2, <4>3 DEF TypeOK
    <3>. QED  BY <1>3, <3>1, <3>2 DEF Confirm
  <2>3. (lock.owner \in Sessions \/ lock.until = 0)'
    BY <2>2, LockFree
  <2>4. UNCHANGED <<now, energyVars, session, grantVars, loginVars, given>>
    BY <1>3 DEF Confirm
  <2>5. UNCHANGED <<now, balance, regenAt, session, cooldown, nonce, scans, lastSeen, welcomed, login, given>>
    BY <2>4 DEF energyVars, grantVars, loginVars
  <2>6. TypeOK'
    <3>1. /\ now \in Times /\ balance \in Nat /\ regenAt \in Times /\ session \in [Sessions -> SessionRow]
          /\ cooldown \in Deadlines /\ nonce \in [Codes -> Deadlines] /\ lastSeen \in Times
          /\ welcomed \subseteq Times /\ login \in [Logins -> LoginState] /\ given \in Nat
          /\ scans \in [Codes -> Nat]
      BY ONLY <1>0 DEF TypeOK
    <3>2. /\ now' \in Times /\ balance' \in Nat /\ regenAt' \in Times /\ session' \in [Sessions -> SessionRow]
          /\ cooldown' \in Deadlines /\ nonce' \in [Codes -> Deadlines] /\ lastSeen' \in Times
          /\ welcomed' \subseteq Times /\ login' \in [Logins -> LoginState] /\ given' \in Nat
          /\ scans' \in [Codes -> Nat]
      BY ONLY <2>5, <3>1
    <3>3. reserved' \in [Sessions -> Deadlines] /\ lock' \in LockRow /\ unlocked' \subseteq Sessions
      BY ONLY <2>2
    <3>. QED  BY ONLY <2>1, <3>2, <3>3 DEF TypeOK
  <2>. QED  BY <2>3, <2>5, <2>6 DEF EnergyTyped
<1>4. ASSUME NEW e \in Ends, EndDies(e) PROVE EnergyTyped'
  <2>1. end' \in [Ends -> Sessions \cup {None}]
    BY <1>0, <1>4 DEF EndDies, TypeOK
  <2>. QED
    BY <1>0, <1>4, <2>1 DEF EndDies, EnergyTyped, TypeOK, energyVars, sessionVars, grantVars, loginVars
<1>5. ASSUME NEW e \in Ends, NEW s \in Sessions, Submit(e, s) PROVE EnergyTyped'
  <2>. DEFINE st == "COMPLETED"
  <2>1. end' \in [Ends -> Sessions \cup {None}] /\ session' = [session EXCEPT ![s].status = st]
        /\ st \in {"none", "CREATED", "COMPLETED"}
    BY <1>0, <1>5 DEF Submit, TypeOK
  <2>. HIDE DEF st
  <2>2. session' \in [Sessions -> SessionRow]
    <3>. DEFINE old == session[s]
                r2 == [old EXCEPT !.status = st]
    <3>1. session \in [Sessions -> SessionRow] /\ session' = [session EXCEPT ![s] = r2]
          /\ old \in SessionRow
      BY <1>0, <2>1 DEF TypeOK
    <3>. HIDE DEF old
    <3>2. r2 \in SessionRow
      BY <2>1, <3>1 DEF SessionRow
    <3>. HIDE DEF r2
    <3>. QED  BY <3>1, <3>2
  <2>. QED
    BY <1>0, <1>5, <2>1, <2>2 DEF Submit, EnergyTyped, TypeOK, energyVars, grantVars, loginVars
<1>6. ASSUME NEW n \in Codes, Grant(n) PROVE EnergyTyped'
  <2>. DEFINE expiry == now + NonceTtl
  <2>1. expiry \in Deadlines /\ nonce' = [nonce EXCEPT ![n] = expiry]
        /\ cooldown' \in Deadlines
    BY <1>0, <1>6, DeadlinesAre DEF Grant
  <2>. HIDE DEF expiry
  <2>2. nonce' \in [Codes -> Deadlines] /\ scans' \in [Codes -> Nat]
    BY <1>0, <1>6, <2>1 DEF Grant, TypeOK
  <2>3. /\ balance' \in Nat /\ given' \in Nat /\ balance' <= given' + Overcap
    <3>1. balance' = Lower(Regened + GrantAmount, Overcap) /\ given' = given + (balance' - Regened)
      BY <1>6 DEF Grant
    <3>2. Regened \in Nat /\ GrantAmount \in Nat /\ Regened <= given + Overcap
      BY <1>0, RegenIs
    <3>. QED  BY <1>0, <3>1, <3>2 DEF Lower
  <2>. QED
    BY <1>0, <1>6, <2>1, <2>2, <2>3, RegenIs DEF Grant, EnergyTyped, TypeOK, sessionVars, loginVars
<1>. QED  BY <1>1, <1>2, <1>3, <1>4, <1>5, <1>6

LEMMA TypedLogins ==
  ASSUME EnergyTyped, NEW l \in Logins,
         Arrive(l) \/ Welcome(l) \/ Weigh(l) \/ CreditWelcome(l) \/ Stamp(l) \/ LoginDies(l)
  PROVE  EnergyTyped'
<1>0. TypeOK /\ now \in Times /\ balance \in Nat /\ given \in Nat /\ balance <= given + Overcap
      /\ Overcap \in Nat /\ Cap <= Overcap /\ Cap \in Nat /\ lastSeen \in Times
      /\ login \in [Logins -> LoginState] /\ login[l] \in LoginState
  BY DEF EnergyTyped, TypeOK
<1>1. ASSUME login' \in [Logins -> LoginState], lastSeen' \in Times, welcomed' \subseteq Times,
             UNCHANGED <<now, sessionVars, grantVars, end>>,
             balance' \in Nat, given' \in Nat, balance' <= given' + Overcap,
             regenAt' \in Times, regenAt' <= now
      PROVE  EnergyTyped'
  BY <1>0, <1>1 DEF EnergyTyped, TypeOK, sessionVars, grantVars
<1>2. ASSUME NEW r \in LoginState, login' = [login EXCEPT ![l] = r]
      PROVE  login' \in [Logins -> LoginState]
  BY <1>0, <1>2
<1>3. ASSUME NEW stage \in {"idle", "seen", "claimed", "owed", "stamp"}, Goto(l, stage)
      PROVE  login' \in [Logins -> LoginState]
  BY <1>0, <1>3 DEF Goto, LoginState
<1>4. NoLogin \in LoginState
  BY DEF NoLogin, LoginState, Times
<1>5. Regen => /\ balance' \in Nat /\ balance' <= given + Overcap /\ regenAt' \in Times /\ regenAt' <= now
  BY <1>0, RegenIs DEF Regen
<1>6. CASE Arrive(l)
  <2>1. [at |-> "seen", since |-> now, seen |-> lastSeen, bonus |-> 0] \in LoginState
    BY <1>0 DEF LoginState
  <2>2. login' \in [Logins -> LoginState]
    BY <1>2, <1>6, <2>1 DEF Arrive
  <2>. QED  BY <1>0, <1>1, <1>5, <1>6, <2>2 DEF Arrive, TypeOK
<1>7. CASE Welcome(l)
  <2>1. Today \in Times
    <3>1. now \in Nat /\ now \div DayLength \in Nat /\ now \div DayLength <= now /\ now <= LastTime
      BY <1>0, WholeIntervals DEF Times
    <3>. QED  BY <3>1 DEF Today, Times
  <2>2. login' \in [Logins -> LoginState]
    BY <1>3, <1>7 DEF Welcome
  <2>3. UNCHANGED energyVars /\ UNCHANGED <<now, sessionVars, grantVars, lastSeen, end, given>>
        /\ welcomed' \subseteq Times
    BY <1>0, <1>7, <2>1 DEF Welcome, TypeOK
  <2>. QED  BY <1>0, <1>1, <2>2, <2>3 DEF EnergyTyped, TypeOK, energyVars
<1>8. CASE Weigh(l)
  <2>. DEFINE bonus == Lower(WelcomeBonus, Cap - Regened)
              sum == IF bonus > 0 THEN bonus ELSE 0
              stage == IF bonus > 0 THEN "owed" ELSE "stamp"
              r2 == [at |-> stage, since |-> login[l].since, seen |-> login[l].seen, bonus |-> sum]
  <2>1. login' = [login EXCEPT ![l] = r2]
    BY <1>0, <1>8 DEF Weigh
  <2>2. sum \in Nat
    BY <1>0, RegenIs DEF Lower
  <2>3. stage \in {"idle", "seen", "claimed", "owed", "stamp"}
    OBVIOUS
  <2>. HIDE DEF bonus, sum, stage
  <2>4. r2 \in LoginState
    BY <1>0, <2>2, <2>3 DEF LoginState
  <2>. HIDE DEF r2
  <2>5. login' \in [Logins -> LoginState]
    BY <1>2, <2>1, <2>4
  <2>. QED  BY <1>0, <1>1, <1>5, <1>8, <2>5 DEF Weigh, TypeOK
<1>9. CASE CreditWelcome(l)
  <2>1. login' \in [Logins -> LoginState]
    BY <1>3, <1>9 DEF CreditWelcome
  <2>2. login[l].bonus \in Nat
    BY <1>0 DEF LoginState
  <2>3. balance' \in Nat /\ given' \in Nat /\ balance' <= given' + Overcap
    BY <1>0, <1>9, <2>2 DEF CreditWelcome
  <2>4. UNCHANGED <<now, regenAt, sessionVars, grantVars, lastSeen, welcomed, end>>
        /\ welcomed \subseteq Times /\ regenAt \in Times /\ regenAt <= now
    BY <1>9 DEF CreditWelcome, EnergyTyped, TypeOK
  <2>. QED  BY <1>0, <1>1, <2>1, <2>3, <2>4
<1>10. CASE Stamp(l)
  <2>1. login' \in [Logins -> LoginState] /\ lastSeen' \in Times
    BY <1>0, <1>2, <1>4, <1>10 DEF Stamp, LoginState
  <2>. QED  BY <1>0, <1>1, <1>10, <2>1 DEF Stamp, EnergyTyped, TypeOK, energyVars
<1>11. CASE LoginDies(l)
  <2>1. login' \in [Logins -> LoginState]
    BY <1>2, <1>4, <1>11 DEF LoginDies
  <2>. QED  BY <1>0, <1>1, <1>11, <2>1 DEF LoginDies, EnergyTyped, TypeOK, energyVars
<1>. QED  BY <1>6, <1>7, <1>8, <1>9, <1>10, <1>11

LEMMA TypedNext == EnergyTyped /\ [Next]_vars => EnergyTyped'
<1>. SUFFICES ASSUME EnergyTyped, [Next]_vars PROVE EnergyTyped'
  OBVIOUS
<1>1. CASE Tick
  <2>1. now' \in Times /\ now <= now'
    BY <1>1 DEF Tick, Times, EnergyTyped, TypeOK
  <2>2. /\ lock' \in LockRow /\ reserved' \in [Sessions -> Deadlines] /\ cooldown' \in Deadlines
        /\ nonce' \in [Codes -> Deadlines]
    <3>1. \A x \in Deadlines : Kept(x) \in Deadlines
      BY DEF Kept, Deadlines, Times
    <3>2. NoLock \in LockRow
      BY DEF NoLock, LockRow, Deadlines
    <3>. QED  BY <1>1, <3>1, <3>2 DEF Tick, EnergyTyped, TypeOK
  <2>3. (lock.owner \in Sessions \/ lock.until = 0)'
    BY <1>1, LockFree DEF Tick
  <2>4. regenAt' <= now'
    BY <1>1, <2>1 DEF Tick, energyVars, EnergyTyped, TypeOK, Times
  <2>. QED
    BY <1>1, <2>1, <2>2, <2>3, <2>4 DEF Tick, EnergyTyped, TypeOK, energyVars, loginVars
<1>2. CASE UNCHANGED vars
  BY <1>2 DEF vars, EnergyTyped, TypeOK, energyVars, sessionVars, grantVars, loginVars
<1>. QED  BY <1>1, <1>2, TypedScripts, TypedLogins DEF Next

(***************************************************************************)
(* Every script and handler keeps its keys in their types, whatever dies   *)
(* or expires; no balance and no grant is ever negative.                   *)
(***************************************************************************)
THEOREM EnergyTypes == Spec => []TypeOK
<1>1. EnergyTyped => TypeOK
  BY DEF EnergyTyped
<1>. QED  BY <1>1, TypedInit, TypedNext, PTL DEF Spec
-----------------------------------------------------------------------------
(***************************************************************************)
(* Energy against the clock: what was had and paid beyond the start and the*)
(* gifts took its intervals, which the regeneration clock has counted. And *)
(* a code that was honoured can no longer be scanned while neither its     *)
(* nonce nor the cooldown is remembered.                                   *)
(***************************************************************************)
Beyond == balance + Paid - Starting - given

Grown == Beyond * Interval <= regenAt

CodeEnds(n) == IssuedAt[n] + CodeLife
Spent(n)    == now > CodeEnds(n) \/ cooldown > CodeEnds(n) \/ nonce[n] > CodeEnds(n)
Honoured    == \A n \in Codes : scans[n] <= 1 /\ (scans[n] = 1 => Spent(n))

LEMMA CostIs ==
  ASSUME TypeOK
  PROVE  /\ IsFiniteSet(Sessions) /\ \A s \in Sessions : Cost[s] \in Nat
         /\ Paid \in Nat
<1>1. \A s \in Sessions : Cost[s] \in Nat
  BY DEF TypeOK, SessionRow, Cost
<1>. DEFINE f == Cost
<1>2. \A s \in Sessions : f[s] \in Nat
  BY <1>1
<1>. HIDE DEF f
<1>3. SumFunctionOnSet(f, Sessions) \in Nat
  BY ONLY <1>2, SessionsFinite, SumNat
<1>. QED  BY <1>1, <1>3, SessionsFinite DEF Paid, f

\* Only a start changes what was paid.
LEMMA PaidSame ==
  ASSUME TypeOK, \A s \in Sessions : session'[s].cost = session[s].cost
  PROVE  Paid' = Paid
<1>. DEFINE f == Cost
            g == [s \in Sessions |-> session'[s].cost]
<1>1. \A s \in Sessions : f[s] = g[s]
  BY DEF Cost
<1>2. Paid = SumFunctionOnSet(f, Sessions) /\ Paid' = SumFunctionOnSet(g, Sessions)
  BY DEF Paid, Cost
<1>. HIDE DEF f, g
<1>. QED  BY <1>1, <1>2, CostIs, SumSame

LEMMA PaidMore ==
  ASSUME TypeOK, NEW s \in Sessions, NEW cost \in Nat,
         \A t \in Sessions : session'[t].cost = IF t = s THEN cost ELSE session[t].cost
  PROVE  Paid' \in Int /\ Paid' <= Paid + cost
<1>. DEFINE f == Cost
            g == [t \in Sessions |-> session'[t].cost]
<1>1. /\ \A t \in Sessions : f[t] \in Int /\ g[t] \in Int
      /\ \A t \in Sessions \ {s} : g[t] = f[t]
      /\ f[s] \in Nat /\ g[s] = cost
  BY CostIs DEF Cost
<1>2. Paid = SumFunctionOnSet(f, Sessions) /\ Paid' = SumFunctionOnSet(g, Sessions)
  BY DEF Paid, Cost
<1>. HIDE DEF f, g
<1>3. SumFunctionOnSet(g, Sessions) = SumFunctionOnSet(f, Sessions) - f[s] + g[s]
  BY ONLY <1>1, s \in Sessions, SessionsFinite, SumChange
<1>. QED  BY <1>1, <1>2, <1>3, CostIs

\* The clock and what was counted move together, in every step that regenerates.
LEMMA GrownMoves ==
  ASSUME EnergyTyped, Grown, Beyond' \in Int, NEW k \in Nat, Beyond' <= Beyond + k,
         regenAt' = regenAt + k * Interval
  PROVE  Grown'
<1>. DEFINE x == Beyond
            y == Beyond'
<1>0. TypeOK /\ Paid \in Nat
  <2>1. TypeOK
    BY DEF EnergyTyped
  <2>. QED  BY <2>1, CostIs
<1>1. x \in Int /\ y \in Int /\ x * Interval <= regenAt /\ y <= x + k /\ regenAt \in Int
      /\ Interval \in Nat
  BY <1>0 DEF Grown, Beyond, EnergyTyped, TypeOK, Times
<1>. HIDE DEF x, y
<1>2. y * Interval <= regenAt + k * Interval
  BY <1>1, GrowsBy
<1>. QED  BY <1>2 DEF Grown, y

LEMMA GrownNext == EnergyTyped /\ Grown /\ [Next]_vars => Grown'
<1>. SUFFICES ASSUME EnergyTyped, Grown, [Next]_vars PROVE Grown'
  OBVIOUS
<1>0. TypeOK /\ Paid \in Nat /\ balance \in Nat /\ given \in Nat /\ regenAt \in Nat /\ Starting \in Nat
      /\ Beyond \in Int /\ Beyond = balance + Paid - Starting - given
  <2>1. TypeOK
    BY DEF EnergyTyped
  <2>2. Paid \in Nat
    BY <2>1, CostIs
  <2>. QED  BY <2>1, <2>2 DEF TypeOK, Times, Beyond
<1>1. ASSUME UNCHANGED <<balance, regenAt, session, given>> PROVE Grown'
  BY <1>1 DEF Grown, Beyond, Paid, Cost
<1>2. ASSUME UNCHANGED <<session, given>>, regenAt' = CaughtUp, balance' = Regened \/ balance' = balance
      PROVE  Grown'
  <2>1. Paid' = Paid
    BY <1>0, <1>2, PaidSame
  <2>2. Beyond' \in Int /\ Beyond' <= Beyond + Intervals
    BY <1>0, <1>2, <2>1, RegenIs DEF Beyond
  <2>. QED  BY <1>2, <2>2, RegenIs, GrownMoves
<1>3. ASSUME NEW cost \in Costs, NEW s \in Sessions, Start(s, cost) PROVE Grown'
  <2>. DEFINE row == [status |-> "CREATED", cost |-> cost, at |-> now]
  <2>1. session' = [session EXCEPT ![s] = row] /\ row.cost = cost /\ cost \in Nat
    BY <1>3 DEF Start
  <2>. HIDE DEF row
  <2>2. \A t \in Sessions : session'[t].cost = IF t = s THEN cost ELSE session[t].cost
    BY <1>0, <2>1 DEF TypeOK
  <2>3. Paid' \in Int /\ Paid' <= Paid + cost
    BY <1>0, <2>1, <2>2, PaidMore
  <2>4. balance' = Regened - cost /\ given' = given /\ regenAt' = CaughtUp
    BY <1>3 DEF Start
  <2>5. Beyond' \in Int /\ Beyond' <= Beyond + Intervals
    BY <1>0, <2>1, <2>3, <2>4, RegenIs DEF Beyond
  <2>. QED  BY <2>4, <2>5, RegenIs, GrownMoves
<1>4. ASSUME NEW e \in Ends, NEW s \in Sessions, Submit(e, s) PROVE Grown'
  <2>. DEFINE st == "COMPLETED"
  <2>1. session' = [session EXCEPT ![s].status = st] /\ UNCHANGED <<balance, regenAt, given>>
    BY <1>4 DEF Submit, energyVars
  <2>. HIDE DEF st
  <2>2. \A t \in Sessions : session'[t].cost = session[t].cost
    BY <1>0, <2>1 DEF TypeOK, SessionRow
  <2>3. Paid' = Paid
    BY <1>0, <2>2, PaidSame
  <2>. QED  BY <2>1, <2>3 DEF Grown, Beyond
<1>5. ASSUME NEW n \in Codes, Grant(n) PROVE Grown'
  <2>1. given' = given + (balance' - Regened) /\ regenAt' = CaughtUp /\ session' = session
        /\ balance' = Lower(Regened + GrantAmount, Overcap)
    BY <1>5 DEF Grant, sessionVars
  <2>2. Paid' = Paid
    BY <1>0, <2>1, PaidSame
  <2>3. balance' \in Int
    BY <2>1, RegenIs DEF Lower
  <2>4. Beyond' \in Int /\ Beyond' <= Beyond + Intervals
    BY <1>0, <2>1, <2>2, <2>3, RegenIs DEF Beyond
  <2>. QED  BY <2>1, <2>4, RegenIs, GrownMoves
<1>6. ASSUME NEW l \in Logins, CreditWelcome(l) PROVE Grown'
  <2>1. /\ balance' = balance + login[l].bonus /\ given' = given + login[l].bonus
        /\ UNCHANGED <<regenAt, session>> /\ login[l].bonus \in Nat
    BY <1>0, <1>6 DEF CreditWelcome, sessionVars, TypeOK, LoginState
  <2>2. Paid' = Paid
    BY <1>0, <2>1, PaidSame
  <2>3. Beyond' = Beyond
    BY <1>0, <2>1, <2>2 DEF Beyond
  <2>. QED  BY <2>1, <2>3 DEF Grown
<1>7. ASSUME NEW cost \in Costs, RefuseStart(cost) PROVE Grown'
  BY <1>2, <1>7 DEF RefuseStart, sessionVars
<1>8. ASSUME NEW l \in Logins, Arrive(l) \/ Weigh(l) PROVE Grown'
  BY <1>2, <1>8 DEF Arrive, Weigh, Regen, sessionVars
<1>9. ASSUME NEW l \in Logins, Welcome(l) \/ Stamp(l) \/ LoginDies(l) PROVE Grown'
  BY <1>1, <1>9 DEF Welcome, Stamp, LoginDies, energyVars, sessionVars
<1>10. ASSUME NEW e \in Ends, Confirm(e) \/ EndDies(e) PROVE Grown'
  BY <1>1, <1>10 DEF Confirm, EndDies, energyVars, sessionVars
<1>11. CASE Tick \/ UNCHANGED vars
  BY <1>1, <1>11 DEF Tick, vars, energyVars, sessionVars
<1>. QED
  BY <1>3, <1>4, <1>5, <1>6, <1>7, <1>8, <1>9, <1>10, <1>11 DEF Next

LEMMA HonouredNext ==
  ASSUME EnergyTyped, Honoured, [Next]_vars, CodeLife < Cooldown \/ CodeLife < NonceTtl
  PROVE  Honoured'
<1>. Deadlines \subseteq Nat
  BY DEF Deadlines
<1>0. /\ now \in Nat /\ cooldown \in Nat
      /\ \A n \in Codes : nonce[n] \in Nat /\ CodeEnds(n) \in Nat /\ scans[n] \in Nat
      /\ \A n \in Codes : IssuedAt[n] \in Nat
      /\ scans \in [Codes -> Nat] /\ nonce \in [Codes -> Deadlines]
  <2>1. /\ now \in Nat /\ cooldown \in Deadlines /\ scans \in [Codes -> Nat]
        /\ nonce \in [Codes -> Deadlines]
    BY DEF EnergyTyped, TypeOK, Times
  <2>2. \A n \in Codes : IssuedAt[n] \in Nat /\ CodeEnds(n) \in Nat
    BY DEF CodeEnds
  <2>. QED  BY <2>1, <2>2
<1>1. CASE UNCHANGED <<now, grantVars>>
  BY <1>1 DEF Honoured, Spent, grantVars, CodeEnds
<1>2. CASE Tick
  <2>1. /\ now' = now + 1 /\ scans' = scans /\ cooldown' = Kept(cooldown)
        /\ \A n \in Codes : nonce'[n] = Kept(nonce[n])
    BY <1>2 DEF Tick
  <2>2. ASSUME NEW n \in Codes, Spent(n) PROVE Spent(n)'
    BY <1>0, <2>1, <2>2 DEF Spent, Kept, CodeEnds
  <2>. QED  BY <2>1, <2>2 DEF Honoured
<1>3. ASSUME NEW n \in Codes, Grant(n) PROVE Honoured'
  <2>1. /\ IssuedAt[n] <= now /\ now <= CodeEnds(n) /\ nonce[n] <= now /\ cooldown <= now
        /\ now' = now /\ cooldown' = now + Cooldown
        /\ nonce' = [nonce EXCEPT ![n] = now + NonceTtl] /\ scans' = [scans EXCEPT ![n] = @ + 1]
    BY <1>0, <1>3 DEF Grant, InWindow, Alive, CodeEnds
  <2>2. scans[n] = 0
    BY <1>0, <2>1 DEF Honoured, Spent
  <2>3. scans'[n] = 1 /\ Spent(n)'
    BY <1>0, <2>1, <2>2 DEF Spent, CodeEnds
  <2>4. ASSUME NEW m \in Codes \ {n} PROVE scans'[m] = scans[m] /\ (Spent(m) => Spent(m)')
    BY <1>0, <2>1 DEF Spent, CodeEnds
  <2>. QED  BY <2>3, <2>4 DEF Honoured
<1>4. ASSUME NEW cost \in Costs, RefuseStart(cost) \/ \E s \in Sessions : Start(s, cost)
      PROVE  UNCHANGED <<now, grantVars>>
  BY <1>4 DEF RefuseStart, Start
<1>5. ASSUME NEW e \in Ends, Confirm(e) \/ EndDies(e) \/ \E s \in Sessions : Submit(e, s)
      PROVE  UNCHANGED <<now, grantVars>>
  BY <1>5 DEF Confirm, EndDies, Submit
<1>6. ASSUME NEW l \in Logins, \/ Arrive(l) \/ Welcome(l) \/ Weigh(l)
                               \/ CreditWelcome(l) \/ Stamp(l) \/ LoginDies(l)
      PROVE  UNCHANGED <<now, grantVars>>
  BY <1>6 DEF Arrive, Welcome, Weigh, CreditWelcome, Stamp, LoginDies
<1>7. CASE UNCHANGED vars
  BY <1>1, <1>7 DEF vars
<1>. QED  BY <1>1, <1>2, <1>3, <1>4, <1>5, <1>6, <1>7 DEF Next

(***************************************************************************)
(* No energy from nowhere: what the player has and has paid was there at   *)
(* the start, was given, or took its interval, however the scripts that    *)
(* regenerate and the login's own arithmetic interleave. And a code pays   *)
(* once, provided that the cooldown or the nonce (energy_grant.lua) lives  *)
(* longer than the code can be scanned; by default the cooldown does, four *)
(* hours against half an hour, but a brand may configure a shorter one.    *)
(***************************************************************************)
THEOREM EnergyIsEarned ==
  ASSUME CodeLife < Cooldown \/ CodeLife < NonceTtl
  PROVE  Spec => []NoFreeEnergy
<1>. DEFINE Inv == EnergyTyped /\ Grown /\ Honoured
<1>1. Init => Inv
  <2>. SUFFICES ASSUME Init PROVE Grown /\ Honoured
    BY TypedInit
  <2>1. TypeOK /\ \A s \in Sessions : Cost[s] = 0
    BY TypedInit DEF EnergyTyped, Init, NoSession, Cost
  <2>2. Paid = 0
    BY <2>1, CostIs, SumZero DEF Paid
  <2>3. Beyond = 0 /\ regenAt = 0
    BY <2>2 DEF Beyond, Init
  <2>4. Grown
    BY <2>3 DEF Grown
  <2>. QED  BY <2>4 DEF Honoured, Init
<1>2. Inv /\ [Next]_vars => Inv'
  BY TypedNext, GrownNext, HonouredNext
<1>3. Inv => NoFreeEnergy
  <2>. SUFFICES ASSUME Inv PROVE NoFreeEnergy
    OBVIOUS
  <2>0. now \in Nat /\ regenAt \in Nat /\ regenAt <= now /\ balance \in Nat /\ given \in Nat
        /\ Paid \in Nat /\ Beyond \in Int /\ Interval \in Nat \ {0}
    <3>1. TypeOK /\ regenAt <= now
      BY DEF EnergyTyped
    <3>2. Paid \in Nat
      BY <3>1, CostIs
    <3>. QED  BY <3>1, <3>2 DEF TypeOK, Times, Beyond
  <2>1. Beyond * Interval <= now
    <3>. DEFINE m == Beyond * Interval
    <3>1. m \in Int
      BY <2>0
    <3>. HIDE DEF m
    <3>2. m <= regenAt
      BY DEF Grown, m
    <3>3. m <= now
      BY <2>0, <3>1, <3>2
    <3>. QED  BY <3>3 DEF m
  <2>2. Beyond <= now \div Interval
    <3>. DEFINE k == Beyond
    <3>. HIDE DEF k
    <3>1. k \in Int /\ k * Interval <= now
      BY <2>0, <2>1 DEF k
    <3>2. k <= now \div Interval
      BY <2>0, <3>1, FitsIn
    <3>. QED  BY <3>2 DEF k
  <2>3. now \div Interval \in Nat
    BY <2>0, WholeIntervals
  <2>. DEFINE q == now \div Interval
  <2>. HIDE DEF q
  <2>4. balance + Paid <= Starting + given + q
    BY <2>0, <2>2, <2>3 DEF Beyond, q
  <2>. QED  BY <2>4 DEF NoFreeEnergy, Honoured, q
<1>. HIDE DEF Inv
<1>. QED  BY <1>1, <1>2, <1>3, PTL DEF Spec
=============================================================================
