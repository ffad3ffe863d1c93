--------------------------- MODULE EnergySession ---------------------------
(***************************************************************************)
(* One player's energy at one brand, and the game sessions it pays for     *)
(* (lua/*.lua, app/services/energy.py, app/routers/game.py, energy.py and  *)
(* the login of auth.py). A Lua script is one step; a handler that calls   *)
(* two of them, or a script and plain Redis commands, is several, with the *)
(* player's other requests and the clock in between. A key with a TTL is   *)
(* the time until which it lives.                                          *)
(***************************************************************************)
EXTENDS Integers, FiniteSets, Functions

CONSTANTS MaxSessions,   \* bound: games started
          Ends,          \* /end requests that can be running at once
          Logins,        \* token requests that can be running at once
          Codes,         \* nonces of the QR codes a venue shows
          IssuedAt,      \* when each code was generated
          None,
          Starting,      \* energy of a new user
          Cap,           \* regen_cap, and welcome_cap
          Overcap,       \* qr_overcap
          Costs,         \* of a game, full or with the day-1 modifier
          GrantAmount, WelcomeBonus,
          Interval,      \* regen_interval
          MinPlay,       \* a score needs this much play
          SessionTtl, SessionLife,   \* of the lock and of the session hash
          NonceTtl, Cooldown, CodeLife,  \* CodeLife includes the grace period
          WelcomeAfter, DayLength,
          LastTime       \* bound: when a behaviour stops

ASSUME EnergyAssumption ==
    /\ MaxSessions \in Nat /\ None \notin 1..MaxSessions
    /\ {Interval, MinPlay, SessionTtl, DayLength, LastTime} \subseteq Nat \ {0}
    /\ Costs \subseteq Nat \ {0}
    /\ IssuedAt \in [Codes -> Nat]
    /\ Starting <= Cap /\ Cap <= Overcap

ASSUME UnitsAssumption ==
    /\ SessionLife \in Nat /\ NonceTtl \in Nat /\ Cooldown \in Nat /\ CodeLife \in Nat
    /\ WelcomeAfter \in Nat /\ Starting \in Nat /\ Cap \in Nat /\ Overcap \in Nat
    /\ GrantAmount \in Nat /\ WelcomeBonus \in Nat

VARIABLES now,
          balance,     \* energy:balance:{b}:{u}
          regenAt,     \* energy:regen_at:{b}:{u}
          session,     \* session:{sid}
          reserved,    \* energy:reservation:{b}:{u}:{sid}
          lock,        \* active_session:{b}:{u}
          cooldown,    \* cooldown:{b}:{u}
          nonce,       \* grant_idempotency:{u}:{nonce}
          lastSeen,    \* user_profile.last_seen_at
          welcomed,    \* days whose welcome_back:{u}:{day} is set
          end,         \* the session an /end request has submitted a score for
          login,       \* where a token request is
          given,       \* history: energy granted by codes and welcome bonuses
          scans,       \* history: times each code was honoured
          unlocked     \* history: sessions whose lock another session's end took

energyVars  == <<balance, regenAt>>
sessionVars == <<session, reserved, lock, unlocked>>
grantVars   == <<cooldown, nonce, scans>>
loginVars   == <<lastSeen, welcomed, login>>
vars == <<now, energyVars, sessionVars, grantVars, loginVars, end, given>>

\* The k-th session started stands for its uuid4.
Sessions  == 1..MaxSessions
Times     == 0..LastTime
Deadlines == 0..(LastTime + Cooldown + SessionTtl + NonceTtl)   \* 0 is "no key"

SessionRow == [status : {"none", "CREATED", "COMPLETED"}, cost : Nat, at : Times]
NoSession  == [status |-> "none", cost |-> 0, at |-> 0]
LockRow    == [owner : Sessions \cup {None}, until : Deadlines]
NoLock     == [owner |-> None, until |-> 0]

LoginState == [at : {"idle", "seen", "claimed", "owed", "stamp"},
               since : Times, seen : Times, bonus : Nat]
NoLogin    == [at |-> "idle", since |-> 0, seen |-> 0, bonus |-> 0]

TypeOK == /\ now \in Times
          /\ balance \in Nat
          /\ regenAt \in Times
          /\ session \in [Sessions -> SessionRow]
          /\ reserved \in [Sessions -> Deadlines]
          /\ lock \in LockRow
          /\ cooldown \in Deadlines
          /\ nonce \in [Codes -> Deadlines]
          /\ lastSeen \in Times
          /\ welcomed \subseteq Times
          /\ end \in [Ends -> Sessions \cup {None}]
          /\ login \in [Logins -> LoginState]
          /\ given \in Nat
          /\ scans \in [Codes -> Nat]
          /\ unlocked \subseteq Sessions

\* A user whose first token (init_energy) was issued at time 0.
Init == /\ now = 0
        /\ balance = Starting
        /\ regenAt = 0
        /\ session = [s \in Sessions |-> NoSession]
        /\ reserved = [s \in Sessions |-> 0]
        /\ lock = NoLock
        /\ cooldown = 0
        /\ nonce = [n \in Codes |-> 0]
        /\ lastSeen = 0
        /\ welcomed = {}
        /\ end = [e \in Ends |-> None]
        /\ login = [l \in Logins |-> NoLogin]
        /\ given = 0
        /\ scans = [n \in Codes |-> 0]
        /\ unlocked = {}
-----------------------------------------------------------------------------
Lower(a, b) == IF a <= b THEN a ELSE b
Alive(deadline) == now < deadline
Locked  == Alive(lock.until)
Live(s) == Alive(reserved[s])
New(s)    == session[s].status = "none" /\ \A t \in 1..(s - 1) : session[t].status # "none"
Stored(s) == session[s].status # "none" /\ Alive(session[s].at + SessionLife)

(***************************************************************************)
(* The lazy regeneration every script starts with: whole intervals since   *)
(* regen_at, the remainder kept, nothing at or above the cap.              *)
(***************************************************************************)
Intervals == IF balance < Cap THEN (now - regenAt) \div Interval ELSE 0
Regened   == IF Intervals > 0 THEN Lower(balance + Intervals, Cap) ELSE balance
CaughtUp  == regenAt + Intervals * Interval

\* Mutant: regen_at stays where it was.
RegenForgetful == balance' = Regened /\ UNCHANGED regenAt

\* energy_regen.lua.
Regen == balance' = Regened /\ regenAt' = CaughtUp

\* Mutant: no look at the lock.
StartUnlocked(s, cost) ==
    /\ New(s)
    /\ Regened >= cost
    /\ balance' = Regened - cost
    /\ regenAt' = CaughtUp
    /\ session' = [session EXCEPT ![s] = [status |-> "CREATED", cost |-> cost, at |-> now]]
    /\ reserved' = [reserved EXCEPT ![s] = now + SessionTtl]
    /\ lock' = [owner |-> s, until |-> now + SessionTtl]
    /\ UNCHANGED <<now, unlocked, grantVars, loginVars, end, given>>

(***************************************************************************)
(* /game/start: energy_reserve.lua debits the cost, reserves it, takes the *)
(* lock and writes the session hash. A lock that is alive answers          *)
(* SESSION_DUPLICATE before anything is written.                           *)
(***************************************************************************)
Start(s, cost) ==
    /\ New(s)
    /\ ~Locked
    /\ Regened >= cost
    /\ balance' = Regened - cost
    /\ regenAt' = CaughtUp
    /\ session' = [session EXCEPT ![s] = [status |-> "CREATED", cost |-> cost, at |-> now]]
    /\ reserved' = [reserved EXCEPT ![s] = now + SessionTtl]
    /\ lock' = [owner |-> s, until |-> now + SessionTtl]
    /\ UNCHANGED <<now, unlocked, grantVars, loginVars, end, given>>

\* INSUFFICIENT_ENERGY: the script has already SET regen_at, not the balance.
RefuseStart(cost) ==
    /\ ~Locked
    /\ Regened < cost
    /\ regenAt' = CaughtUp
    /\ UNCHANGED <<now, balance, sessionVars, grantVars, loginVars, end, given>>

(***************************************************************************)
(* /game/end, first script: score_submit.lua completes a session that was  *)
(* played long enough, and answers a repeated call from the row. Any other *)
(* call is refused without a trace.                                        *)
(***************************************************************************)
Submit(e, s) ==
    /\ end[e] = None
    /\ Stored(s)
    /\ \/ session[s].status = "COMPLETED"
       \/ session[s].status = "CREATED" /\ now - session[s].at >= MinPlay
    /\ session' = [session EXCEPT ![s].status = "COMPLETED"]
    /\ end' = [end EXCEPT ![e] = s]
    /\ UNCHANGED <<now, energyVars, reserved, lock, unlocked, grantVars, loginVars, given>>

\* Second script: energy_confirm.lua always finds the session COMPLETED, and
\* deletes its reservation and the player's lock, whoever holds it. When the
\* hash is gone it fails, and the handler only logs that.
Confirm(e) ==
    LET s == end[e] IN
    /\ s # None
    /\ IF Stored(s)
       THEN /\ reserved' = [reserved EXCEPT ![s] = 0]
            /\ lock' = NoLock
            /\ unlocked' = IF Locked /\ lock.owner # s THEN unlocked \cup {lock.owner}
                                                       ELSE unlocked
       ELSE UNCHANGED <<reserved, lock, unlocked>>
    /\ end' = [end EXCEPT ![e] = None]
    /\ UNCHANGED <<now, energyVars, session, grantVars, loginVars, given>>

\* The worker dies, or the client hangs up, between the two scripts.
EndDies(e) ==
    /\ end[e] # None
    /\ end' = [end EXCEPT ![e] = None]
    /\ UNCHANGED <<now, energyVars, sessionVars, grantVars, loginVars, given>>
-----------------------------------------------------------------------------
(***************************************************************************)
(* /energy/grant: a code inside its window whose nonce is not remembered,  *)
(* and no cooldown, tops the balance up, over the cap, to Overcap.         *)
(***************************************************************************)
InWindow(n) == IssuedAt[n] <= now /\ now <= IssuedAt[n] + CodeLife

\* Mutant: the cooldown is checked but not set.
GrantUncooled(n) ==
    /\ InWindow(n)
    /\ ~Alive(nonce[n]) /\ ~Alive(cooldown)
    /\ balance' = Lower(Regened + GrantAmount, Overcap)
    /\ regenAt' = CaughtUp
    /\ nonce' = [nonce EXCEPT ![n] = now + NonceTtl]
    /\ given' = given + (balance' - Regened)
    /\ scans' = [scans EXCEPT ![n] = @ + 1]
    /\ UNCHANGED <<now, cooldown, sessionVars, loginVars, end>>

Grant(n) ==
    /\ InWindow(n)
    /\ ~Alive(nonce[n]) /\ ~Alive(cooldown)
    /\ balance' = Lower(Regened + GrantAmount, Overcap)
    /\ regenAt' = CaughtUp
    /\ cooldown' = now + Cooldown
    /\ nonce' = [nonce EXCEPT ![n] = now + NonceTtl]
    /\ given' = given + (balance' - Regened)
    /\ scans' = [scans EXCEPT ![n] = @ + 1]
    /\ UNCHANGED <<now, sessionVars, loginVars, end>>

-----------------------------------------------------------------------------
\* The token request of a returning user: read the profile, regenerate ...
At(l, stage) == login[l].at = stage
Goto(l, stage) == login' = [login EXCEPT ![l].at = stage]
Today == now \div DayLength

Arrive(l) ==
    /\ At(l, "idle")
    /\ Regen
    /\ login' = [login EXCEPT ![l] = [at |-> "seen", since |-> now, seen |-> lastSeen,
                                      bonus |-> 0]]
    /\ UNCHANGED <<now, sessionVars, grantVars, lastSeen, welcomed, end, given>>

\* ... claim today's welcome-back key, if the user was away long enough ...
Welcome(l) ==
    /\ At(l, "seen")
    /\ IF now - login[l].seen >= WelcomeAfter /\ Today \notin welcomed
       THEN welcomed' = welcomed \cup {Today} /\ Goto(l, "claimed")
       ELSE UNCHANGED welcomed /\ Goto(l, "stamp")
    /\ UNCHANGED <<now, energyVars, sessionVars, grantVars, lastSeen, end, given>>

\* ... regenerate, and work out a bonus that stops at the cap ...
Weigh(l) ==
    /\ At(l, "claimed")
    /\ Regen
    /\ LET bonus == Lower(WelcomeBonus, Cap - Regened) IN
       login' = [login EXCEPT ![l] = [at |-> IF bonus > 0 THEN "owed" ELSE "stamp",
                                      since |-> @.since, seen |-> @.seen,
                                      bonus |-> IF bonus > 0 THEN bonus ELSE 0]]
    /\ UNCHANGED <<now, sessionVars, grantVars, lastSeen, welcomed, end, given>>

\* ... which an INCRBY adds to whatever the balance is by then ...
CreditWelcome(l) ==
    /\ At(l, "owed")
    /\ balance' = balance + login[l].bonus
    /\ given' = given + login[l].bonus
    /\ Goto(l, "stamp")
    /\ UNCHANGED <<now, regenAt, sessionVars, grantVars, lastSeen, welcomed, end>>

\* ... and commit last_seen_at, the time the request began.
Stamp(l) ==
    /\ At(l, "stamp")
    /\ lastSeen' = login[l].since
    /\ login' = [login EXCEPT ![l] = NoLogin]
    /\ UNCHANGED <<now, energyVars, sessionVars, grantVars, welcomed, end, given>>

LoginDies(l) ==
    /\ ~At(l, "idle")
    /\ login' = [login EXCEPT ![l] = NoLogin]
    /\ UNCHANGED <<now, energyVars, sessionVars, grantVars, lastSeen, welcomed, end, given>>

\* The clock, and the keys whose TTL runs out with it.
Kept(deadline) == IF deadline > now' THEN deadline ELSE 0

Tick == /\ now < LastTime
        /\ now' = now + 1
        /\ lock' = IF lock.until > now' THEN lock ELSE NoLock
        /\ reserved' = [s \in Sessions |-> Kept(reserved[s])]
        /\ cooldown' = Kept(cooldown)
        /\ nonce' = [n \in Codes |-> Kept(nonce[n])]
        /\ UNCHANGED <<energyVars, session, unlocked, scans, loginVars, end, given>>

Next ==
    \/ Tick
    \/ \E cost \in Costs : RefuseStart(cost) \/ \E s \in Sessions : Start(s, cost)
    \/ \E e \in Ends : Confirm(e) \/ EndDies(e) \/ \E s \in Sessions : Submit(e, s)
    \/ \E n \in Codes : Grant(n)
    \/ \E l \in Logins : \/ Arrive(l) \/ Welcome(l) \/ Weigh(l) \/ CreditWelcome(l)
                         \/ Stamp(l) \/ LoginDies(l)

Spec == Init /\ [][Next]_vars
-----------------------------------------------------------------------------
(***************************************************************************)
(* No interleaving of the three scripts that regenerate and of the login's *)
(* own arithmetic counts a stretch of time twice: what the player has, and *)
(* has paid for games, was there at the start, was given, or took its      *)
(* interval to grow. And "This QR code has already been used": a code gives*)
(* one player energy once, although its nonce is forgotten while the code  *)
(* still scans (energy_grant.lua).                                         *)
(***************************************************************************)
Cost == [s \in Sessions |-> session[s].cost]
Paid == SumFunctionOnSet(Cost, Sessions)

NoFreeEnergy == /\ balance + Paid <= Starting + given + now \div Interval
                /\ \A n \in Codes : scans[n] <= 1

(***************************************************************************)
(* "one session per user at a time" (energy_reserve.lua): two sessions are *)
(* live together only when the lock of one of them was taken away by the   *)
(* late, or repeated, end of a third.                                      *)
(***************************************************************************)
AloneUnlessUnlocked ==
    \A s, t \in Sessions : s # t /\ Live(s) /\ Live(t) => {s, t} \cap unlocked # {}
=============================================================================
