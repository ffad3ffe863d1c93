---------------------------- MODULE StreamWorker ----------------------------
(***************************************************************************)
(* The consumer group that reads a Redis stream of events and acts on them *)
(* (app/workers/reservation_consumer.py; listing_consumer.py and           *)
(* attribution_consumer.py run the same loop over other streams). A worker *)
(* is a process whose consumer name holds its pid, so a restarted worker   *)
(* has a name of its own. What Redis keeps for the group is the position   *)
(* last read and, for each entry not yet acknowledged, its owner and how   *)
(* often it was delivered.                                                 *)
(***************************************************************************)
EXTENDS Integers, Sequences, FiniteSets

CONSTANTS Events,          \* bound: what the API appends
          Mixes,           \* what kinds of event they may be
          MaxWorkers,      \* bound: workers ever started
          Replicas,        \* workers the deployment keeps running
          MaxDeliveries,   \* MAX_DELIVERIES
          BackpressureLag, \* BACKPRESSURE_LAG
          MaxFaults        \* bound: Redis calls that fail, and lapses of a slow worker

ASSUME StreamAssumption ==
    /\ Mixes \subseteq [Events -> {"critical", "plain", "poison"}]
    /\ {MaxWorkers, Replicas, MaxDeliveries, BackpressureLag, MaxFaults} \subseteq Nat

VARIABLES kind,      \* of each event; a "critical" one (reservation.honored) is handled
                     \* under overload too, "poison" has no event_type and raises
          stream,    \* events:reservation, oldest first
          cursor,    \* the group's last-delivered position, -1 before XGROUP CREATE
          pending,   \* the group's pending entries list
          worker,    \* where each worker is in run_once
          live,      \* workers running
          used,      \* names taken so far
          dlq,       \* events:reservation:dlq
          faults,    \* faults so far
          visits,    \* attribution events the handler has written, per event
          xp,        \* history: how often the handler has granted XP, per event
          failed,    \* history: events for which a swallowed call failed
          before     \* history: events appended before there was a group

groupVars   == <<cursor, pending>>
effectVars  == <<visits, xp>>
historyVars == <<kind, failed, before>>
streamVars == <<stream, groupVars, worker, live, used, dlq, faults, effectVars, historyVars>>

\* The k-th worker started stands for its host name and pid.
Consumers == 1..MaxWorkers
Nobody    == 0

\* stale: RECLAIM_IDLE_MS have gone by since the entry was last delivered.
Entry    == [owner : Consumers, times : Nat, stale : BOOLEAN]
NotThere == [owner |-> Nobody, times |-> 0, stale |-> FALSE]
WorkerState == [pc : {"start", "reclaim", "read", "take", "bury", "visit", "xp", "ack"},
                batch : SUBSET Events, reclaiming : BOOLEAN]
Fresh == [pc |-> "start", batch |-> {}, reclaiming |-> FALSE]

StreamTypeOK == /\ kind \in Mixes
                /\ stream \in Seq(Events)
                /\ cursor \in Nat \cup {-1}
                /\ pending \in [Events -> Entry \cup {NotThere}]
                /\ worker \in [Consumers -> WorkerState]
                /\ live \subseteq used /\ used \subseteq Consumers
                /\ dlq \subseteq Events /\ failed \subseteq Events /\ before \subseteq Events
                /\ faults \in 0..MaxFaults
                /\ visits \in [Events -> Nat] /\ xp \in [Events -> Nat]

StreamInit == /\ kind \in Mixes
              /\ stream = <<>>
              /\ cursor = -1
              /\ pending = [e \in Events |-> NotThere]
              /\ worker = [c \in Consumers |-> Fresh]
              /\ live = {} /\ used = {}
              /\ dlq = {}
              /\ faults = 0
              /\ visits = [e \in Events |-> 0] /\ xp = [e \in Events |-> 0]
              /\ failed = {} /\ before = {}
-----------------------------------------------------------------------------
IsPending(e) == pending[e].owner # Nobody
Outstanding  == {e \in Events : IsPending(e)}
Appended(e)  == \E i \in 1..Len(stream) : stream[i] = e
WorkerAt(c, pc) == c \in live /\ worker[c].pc = pc
Goto(c, pc)  == worker' = [worker EXCEPT ![c].pc = pc]

\* A batch is worked off in the order of the stream.
Oldest(es) == stream[CHOOSE i \in 1..Len(stream) : /\ stream[i] \in es
                                                  /\ \A j \in 1..(i - 1) : stream[j] \notin es]
Current(c) == Oldest(worker[c].batch)

\* The next entry of the batch, and after the batch the next part of the cycle.
Advance(c, w) ==
    LET rest == w.batch \ {Oldest(w.batch)} IN
    worker' = [worker EXCEPT ![c] =
        [w EXCEPT !.batch = rest,
                  !.pc = IF rest # {} THEN "take" ELSE IF w.reclaiming THEN "read" ELSE "start"]]

Fault == faults < MaxFaults /\ faults' = faults + 1

\* A call that fails inside a try whose except only logs.
Swallowed(c) == Fault /\ failed' = failed \cup {Current(c)}

\* XADD by the API. Stream ids grow, and an event is appended once.
Emit(e) ==
    /\ ~Appended(e)
    /\ stream' = Append(stream, e)
    /\ before' = IF cursor = -1 THEN before \cup {e} ELSE before
    /\ UNCHANGED <<groupVars, worker, live, used, dlq, faults, effectVars, kind, failed>>

Start(c) ==
    /\ Cardinality(live) < Replicas /\ used = 1..(c - 1)
    /\ live' = live \cup {c} /\ used' = used \cup {c}
    /\ UNCHANGED <<stream, groupVars, worker, dlq, faults, effectVars, historyVars>>

\* Every worker that dies is replaced, under a new name: the bound on names
\* is a bound on deaths.
Crash(c) ==
    /\ c \in live /\ Cardinality(live) + Cardinality(Consumers \ used) > Replicas
    /\ live' = live \ {c}
    /\ worker' = [worker EXCEPT ![c] = Fresh]
    /\ UNCHANGED <<stream, groupVars, used, dlq, faults, effectVars, historyVars>>

\* _ensure_group: id "$" starts the group at the end of the stream.
EnsureGroup(c) ==
    /\ WorkerAt(c, "start")
    /\ cursor' = IF cursor = -1 THEN Len(stream) ELSE cursor
    /\ Goto(c, "reclaim")
    /\ UNCHANGED <<stream, pending, live, used, dlq, faults, effectVars, historyVars>>

\* reclaim_stale: XCLAIM looks at the idle time again, so one worker gets each.
\* An entry this worker already owns is never claimed.
\* Mutants: only entries of workers that have died are claimed; entries still
\* being worked on are.
ClaimableDead(c)  == {e \in Outstanding : pending[e].stale /\ pending[e].owner \notin live}
ClaimableFresh(c) == {e \in Outstanding : pending[e].owner # c}
Claimable(c) == {e \in Outstanding : pending[e].stale /\ pending[e].owner # c}

Reclaim(c) ==
    /\ WorkerAt(c, "reclaim")
    /\ LET mine == Claimable(c) IN
       /\ pending' = [e \in Events |->
              IF e \in mine THEN [owner |-> c, times |-> pending[e].times + 1, stale |-> FALSE]
              ELSE pending[e]]
       /\ worker' = [worker EXCEPT ![c] =
              IF mine = {} THEN [Fresh EXCEPT !.pc = "read"]
              ELSE [pc |-> "take", reclaiming |-> TRUE, batch |-> mine]]
    /\ UNCHANGED <<stream, cursor, live, used, dlq, faults, effectVars, historyVars>>

\* XREADGROUP with ">": what the group has never delivered to anyone.
Unread == {stream[i] : i \in cursor + 1 .. Len(stream)}
ReadNew(c) ==
    /\ WorkerAt(c, "read")
    /\ cursor' = Len(stream)
    /\ pending' = [e \in Events |->
           IF e \in Unread THEN [owner |-> c, times |-> 1, stale |-> FALSE] ELSE pending[e]]
    /\ worker' = [worker EXCEPT ![c] =
           IF Unread = {} THEN Fresh ELSE [pc |-> "take", reclaiming |-> FALSE, batch |-> Unread]]
    /\ UNCHANGED <<stream, live, used, dlq, faults, effectVars, historyVars>>

(***************************************************************************)
(* _dispatch_with_dlq. An entry somebody else has acknowledged is no       *)
(* longer in the list, and counts as delivered once.                       *)
(***************************************************************************)
Delivered(e) == IF IsPending(e) THEN pending[e].times ELSE 1
Overloaded    == Cardinality(Outstanding) > BackpressureLag
Acknowledge(e) == pending' = [pending EXCEPT ![e] = NotThere]

\* The write to the dead-letter stream is best effort; the XACK that follows is not.
DeadLetter(c) ==
    /\ WorkerAt(c, "take") /\ Delivered(Current(c)) > MaxDeliveries
    /\ \/ dlq' = dlq \cup {Current(c)} /\ UNCHANGED <<faults, failed>>
       \/ Swallowed(c) /\ UNCHANGED dlq
    /\ Goto(c, "bury")
    /\ UNCHANGED <<stream, groupVars, live, used, effectVars, kind, before>>

Bury(c) ==
    /\ WorkerAt(c, "bury")
    /\ Acknowledge(Current(c))
    /\ Advance(c, worker[c])
    /\ UNCHANGED <<stream, cursor, live, used, dlq, faults, effectVars, historyVars>>

\* The exception ends the cycle: the rest of the batch stays pending.
BuryFails(c) ==
    /\ WorkerAt(c, "bury")
    /\ Fault
    /\ worker' = [worker EXCEPT ![c] = Fresh]
    /\ UNCHANGED <<stream, groupVars, live, used, dlq, effectVars, historyVars>>

\* process_event. An event that raises stays pending, with this worker as its owner.
Refuse(c) ==
    /\ WorkerAt(c, "take") /\ Delivered(Current(c)) <= MaxDeliveries
    /\ kind[Current(c)] = "poison"
    /\ Advance(c, worker[c])
    /\ UNCHANGED <<stream, groupVars, live, used, dlq, faults, effectVars, historyVars>>

Skip(c) ==
    /\ WorkerAt(c, "take") /\ Delivered(Current(c)) <= MaxDeliveries
    /\ Overloaded /\ kind[Current(c)] = "plain"
    /\ Goto(c, "ack")
    /\ UNCHANGED <<stream, groupVars, live, used, dlq, faults, effectVars, historyVars>>

\* Mutant: backpressure spares nobody.
HandleCalmly(c) ==
    /\ WorkerAt(c, "take") /\ Delivered(Current(c)) <= MaxDeliveries
    /\ kind[Current(c)] # "poison"
    /\ Goto(c, IF Overloaded THEN "ack" ELSE "visit")
    /\ UNCHANGED <<stream, groupVars, live, used, dlq, faults, effectVars, historyVars>>
Handle(c) ==
    /\ WorkerAt(c, "take") /\ Delivered(Current(c)) <= MaxDeliveries
    /\ kind[Current(c)] # "poison" /\ (Overloaded => kind[Current(c)] = "critical")
    /\ Goto(c, "visit")
    /\ UNCHANGED <<stream, groupVars, live, used, dlq, faults, effectVars, historyVars>>

\* _handle_honored: the attribution event, then the XP, each best effort.
FireAttribution(c) ==
    /\ WorkerAt(c, "visit")
    /\ \/ visits' = [visits EXCEPT ![Current(c)] = @ + 1] /\ UNCHANGED <<faults, failed>>
       \/ Swallowed(c) /\ UNCHANGED visits
    /\ Goto(c, "xp")
    /\ UNCHANGED <<stream, groupVars, live, used, dlq, xp, kind, before>>

GrantXp(c) ==
    /\ WorkerAt(c, "xp")
    /\ \/ xp' = [xp EXCEPT ![Current(c)] = @ + 1] /\ UNCHANGED <<faults, failed>>
       \/ Swallowed(c) /\ UNCHANGED xp
    /\ Goto(c, "ack")
    /\ UNCHANGED <<stream, groupVars, live, used, dlq, visits, kind, before>>

\* XACK takes the entry out whoever owns it by now; when the call fails the
\* entry stays where it is.
Ack(c) ==
    /\ WorkerAt(c, "ack")
    /\ Acknowledge(Current(c))
    /\ Advance(c, worker[c])
    /\ UNCHANGED <<stream, cursor, live, used, dlq, faults, effectVars, historyVars>>

AckFails(c) ==
    /\ WorkerAt(c, "ack")
    /\ Fault
    /\ Advance(c, worker[c])
    /\ UNCHANGED <<stream, groupVars, live, used, dlq, effectVars, historyVars>>

\* A minute goes by. An entry whose owner will not come back to it goes stale
\* sooner or later; one that is still being worked on does if its worker is slow.
Abandoned(e) ==
    LET c == pending[e].owner IN c \notin live \/ e \notin worker[c].batch
GoStale(e) ==
    /\ IsPending(e) /\ ~pending[e].stale /\ Abandoned(e)
    /\ pending' = [pending EXCEPT ![e].stale = TRUE]
    /\ UNCHANGED <<stream, cursor, worker, live, used, dlq, faults, effectVars, historyVars>>
Lag(e) ==
    /\ IsPending(e) /\ ~pending[e].stale /\ ~Abandoned(e)
    /\ Fault
    /\ pending' = [pending EXCEPT ![e].stale = TRUE]
    /\ UNCHANGED <<stream, cursor, worker, live, used, dlq, effectVars, historyVars>>

Step(c) == \/ EnsureGroup(c) \/ Reclaim(c) \/ ReadNew(c)
           \/ DeadLetter(c) \/ Bury(c) \/ Refuse(c) \/ Skip(c) \/ Handle(c)
           \/ FireAttribution(c) \/ GrantXp(c) \/ Ack(c)

StreamNext == \/ \E e \in Events : Emit(e) \/ GoStale(e) \/ Lag(e)
              \/ \E c \in Consumers : Start(c) \/ Crash(c) \/ Step(c)
                                          \/ AckFails(c) \/ BuryFails(c)

(***************************************************************************)
(* The loop of main() never stops, the supervisor restarts a worker that   *)
(* has died, and time passes. Nothing obliges the API to append, a worker  *)
(* to die or a call to fail.                                               *)
(***************************************************************************)
StreamFairness == /\ \A c \in Consumers : WF_streamVars(Step(c)) /\ WF_streamVars(Start(c))
                  /\ \A e \in Events : WF_streamVars(GoStale(e))
StreamSpec == StreamInit /\ [][StreamNext]_streamVars /\ StreamFairness
-----------------------------------------------------------------------------
(***************************************************************************)
(* A revenue-critical event leaves the group's books only when it has had  *)
(* all its effects at least once, or sits in the dead-letter stream after  *)
(* MAX_DELIVERIES: no crash between two steps, no failed XACK and no       *)
(* overload loses it. What does lose it is a call that fails inside the    *)
(* handler, where it is logged and the event acknowledged all the same.    *)
(***************************************************************************)
Read(e)    == \E i \in 1..cursor : stream[i] = e
Settled(e) == Read(e) /\ ~IsPending(e)
CriticalIsHandled ==
    \A e \in Events : kind[e] = "critical" /\ Settled(e) /\ e \notin before \cup failed =>
        (visits[e] > 0 /\ xp[e] > 0) \/ e \in dlq

(***************************************************************************)
(* While no worker has died and no call has failed or lagged, an event has *)
(* its effects at most once: two replicas never share an entry.            *)
(***************************************************************************)
OnceWithoutFaults ==
    faults = 0 /\ used = live => \A e \in Events : xp[e] <= 1 /\ visits[e] <= 1

(***************************************************************************)
(* Whatever is appended once the group exists is settled in the end, the   *)
(* events nobody can process included: they reach the dead-letter stream.  *)
(* This takes two replicas, since no worker claims what it owns.           *)
(***************************************************************************)
EverythingSettles ==
    \A e \in Events : (Appended(e) /\ e \notin before) ~> Settled(e)
=============================================================================
