-------------------------- MODULE WebhookDelivery --------------------------
(***************************************************************************)
(* One merchant webhook, the events fanned out to it and the workers that  *)
(* POST them (app/routers/webhooks_outbound.py, app/workers/               *)
(* webhook_worker.py). Every Redis call and every POST is a step; the      *)
(* merchant may answer, refuse, or take the payload and be cut off before  *)
(* the answer. asyncio.gather sends a batch at once, so a "sender" here is *)
(* one task of a worker.                                                   *)
(***************************************************************************)
EXTENDS Naturals, FiniteSets

CONSTANTS Deliveries,   \* bound: events fanned out to the webhook
          Senders,      \* bound: deliveries that can be in hand at once
          Admins,       \* requests of the merchant portal
          MaxRetries,   \* MAX_RETRIES, the length of RETRY_BACKOFF_SECONDS
          MaxCrashes,   \* bound
          NoDelivery

ASSUME WebhookAssumption ==
    /\ MaxRetries \in Nat \ {0} /\ MaxCrashes \in Nat
    /\ NoDelivery \notin Deliveries

VARIABLES hook,        \* webhook:{wid}
          subscribed,  \* the webhook is in its brand's and its events' sets
          admin,       \* where each portal request is
          event,       \* where the fan-out of each event is
          delivery,    \* webhook:delivery:{did}
          queue,       \* webhook:delivery:queue
          sender,      \* where each sending task is
          crashes,
          posts,       \* history: POSTs of each delivery that reached the merchant's host
          stranded     \* history: deliveries whose sender died or raised with the claim in hand

hookVars == <<hook, subscribed>>
workVars == <<delivery, queue, sender>>
vars == <<hookVars, admin, event, workVars, crashes, posts, stranded>>

\* "secret" and "url" are whether the hash has its signing_secret and its
\* target_url; a write to one field of a deleted hash brings back a hash with
\* that field only.
Hook == [status : {"missing", "blank", "active", "disabled"}, secret : BOOLEAN, url : BOOLEAN]
Requests == {"enable", "disable", "rotate", "delete"}
FinalStatuses == {"delivered", "failed_permanent", "dropped"}
Delivery == [status : {"none", "pending", "retrying"} \cup FinalStatuses, attempts : Nat]
Sender == [pc : {"poll", "claim", "load", "check", "drop", "post", "record"},
           d : Deliveries \cup {NoDelivery}, attempts : Nat, ok : BOOLEAN]
Polling == [pc |-> "poll", d |-> NoDelivery, attempts |-> 0, ok |-> FALSE]

TypeOK == /\ hook \in Hook
          /\ subscribed \in BOOLEAN
          /\ admin \in [Admins -> Requests \cup {"idle", "done"}]
          /\ event \in [Deliveries -> {"new", "listed", "wanted", "done"}]
          /\ delivery \in [Deliveries -> Delivery]
          /\ queue \in [Deliveries -> {"absent", "waiting", "due"}]
          /\ sender \in [Senders -> Sender]
          /\ crashes \in 0..MaxCrashes
          /\ posts \in [Deliveries -> Nat]
          /\ stranded \subseteq Deliveries

\* register_webhook has just returned.
Init == /\ hook = [status |-> "active", secret |-> TRUE, url |-> TRUE]
        /\ subscribed = TRUE
        /\ admin = [a \in Admins |-> "idle"]
        /\ event = [d \in Deliveries |-> "new"]
        /\ delivery = [d \in Deliveries |-> [status |-> "none", attempts |-> 0]]
        /\ queue = [d \in Deliveries |-> "absent"]
        /\ sender = [s \in Senders |-> Polling]
        /\ crashes = 0
        /\ posts = [d \in Deliveries |-> 0]
        /\ stranded = {}
-----------------------------------------------------------------------------
(***************************************************************************)
(* The portal: _load_webhook finds a hash, whatever is left of it, and the *)
(* write follows in a call of its own.                                     *)
(***************************************************************************)
LoadWebhook(a, what) ==
    /\ admin[a] = "idle" /\ hook.status # "missing"
    /\ what = "disable" => hook.status # "disabled"
    /\ admin' = [admin EXCEPT ![a] = what]
    /\ UNCHANGED <<hookVars, event, workVars, crashes, posts, stranded>>

\* HSET of one field: on a deleted hash it is the only one.
Touched == IF hook.status = "missing" THEN [hook EXCEPT !.status = "blank"] ELSE hook

Manage(a) ==
    /\ \/ admin[a] = "enable" /\ hook' = [hook EXCEPT !.status = "active"]
       \/ admin[a] = "disable" /\ hook' = [hook EXCEPT !.status = "disabled"]
       \/ admin[a] = "rotate" /\ hook' = [Touched EXCEPT !.secret = TRUE]
    /\ admin' = [admin EXCEPT ![a] = "done"]
    /\ UNCHANGED <<subscribed, event, workVars, crashes, posts, stranded>>

DeleteWebhook(a) ==
    /\ admin[a] = "delete"
    /\ hook' = [status |-> "missing", secret |-> FALSE, url |-> FALSE]
    /\ subscribed' = FALSE
    /\ admin' = [admin EXCEPT ![a] = "done"]
    /\ UNCHANGED <<event, workVars, crashes, posts, stranded>>

(***************************************************************************)
(* fan_out_webhook_to_brand: the subscribers, their statuses, and a        *)
(* pipeline per delivery. The caller may die in between.                   *)
(***************************************************************************)
ListSubscribers(d) ==
    /\ event[d] = "new"
    /\ event' = [event EXCEPT ![d] = IF subscribed THEN "listed" ELSE "done"]
    /\ UNCHANGED <<hookVars, admin, workVars, crashes, posts, stranded>>

CheckActive(d) ==
    /\ event[d] = "listed"
    /\ event' = [event EXCEPT ![d] = IF hook.status = "active" THEN "wanted" ELSE "done"]
    /\ UNCHANGED <<hookVars, admin, workVars, crashes, posts, stranded>>

Deliver(d) ==
    /\ event[d] = "wanted"
    /\ event' = [event EXCEPT ![d] = "done"]
    /\ delivery' = [delivery EXCEPT ![d] = [status |-> "pending", attempts |-> 0]]
    /\ queue' = [queue EXCEPT ![d] = "due"]
    /\ UNCHANGED <<hookVars, admin, sender, crashes, posts, stranded>>

PublisherDies(d) ==
    /\ event[d] \in {"listed", "wanted"} /\ crashes < MaxCrashes
    /\ crashes' = crashes + 1
    /\ event' = [event EXCEPT ![d] = "done"]
    /\ UNCHANGED <<hookVars, admin, workVars, posts, stranded>>
-----------------------------------------------------------------------------
At(s, pc) == sender[s].pc = pc

\* Time: the score of an entry comes to pass.
ComeDue(d) ==
    /\ queue[d] = "waiting"
    /\ queue' = [queue EXCEPT ![d] = "due"]
    /\ UNCHANGED <<hookVars, admin, event, delivery, sender, crashes, posts, stranded>>

(***************************************************************************)
(* drain_due_deliveries: ZRANGEBYSCORE shows a due delivery to every       *)
(* worker that asks; ZREM gives it to one.                                 *)
(***************************************************************************)
Poll(s, d) ==
    /\ At(s, "poll") /\ queue[d] = "due"
    /\ sender' = [sender EXCEPT ![s] = [Polling EXCEPT !.pc = "claim", !.d = d]]
    /\ UNCHANGED <<hookVars, admin, event, delivery, queue, crashes, posts, stranded>>

\* Mutant: what ZREM returns is not looked at.
ClaimBlindly(s) ==
    /\ At(s, "claim")
    /\ queue' = [queue EXCEPT ![sender[s].d] = "absent"]
    /\ sender' = [sender EXCEPT ![s].pc = "load"]
    /\ UNCHANGED <<hookVars, admin, event, delivery, crashes, posts, stranded>>
Claim(s) ==
    /\ At(s, "claim")
    /\ queue' = [queue EXCEPT ![sender[s].d] = "absent"]
    /\ sender' = [sender EXCEPT ![s] =
           IF queue[sender[s].d] = "absent" THEN Polling ELSE [@ EXCEPT !.pc = "load"]]
    /\ UNCHANGED <<hookVars, admin, event, delivery, crashes, posts, stranded>>

\* _send_single_delivery: the delivery, then the webhook.
LoadDelivery(s) ==
    /\ At(s, "load")
    /\ sender' = [sender EXCEPT ![s] =
           [@ EXCEPT !.pc = "check", !.attempts = delivery[sender[s].d].attempts + 1]]
    /\ UNCHANGED <<hookVars, admin, event, delivery, queue, crashes, posts, stranded>>

CheckHook(s) ==
    /\ At(s, "check")
    /\ IF hook.status = "active" /\ ~hook.secret        \* KeyError, swallowed by gather
       THEN /\ sender' = [sender EXCEPT ![s] = Polling]
            /\ stranded' = stranded \cup {sender[s].d}
       ELSE /\ sender' = [sender EXCEPT ![s].pc =
                   IF hook.status # "active" THEN "drop"
                   ELSE IF hook.url THEN "post" ELSE "record"]  \* no target_url: a failed POST
            /\ UNCHANGED stranded
    /\ UNCHANGED <<hookVars, admin, event, delivery, queue, crashes, posts>>

Drop(s) ==
    /\ At(s, "drop")
    /\ delivery' = [delivery EXCEPT ![sender[s].d].status = "dropped"]
    /\ sender' = [sender EXCEPT ![s] = Polling]
    /\ UNCHANGED <<hookVars, admin, event, queue, crashes, posts, stranded>>

\* The merchant's answer; a transport error may come with the payload taken or not.
Post(s) ==
    LET d == sender[s].d IN
    /\ At(s, "post")
    /\ \E ok, reached \in BOOLEAN :
         /\ ok => reached
         /\ sender' = [sender EXCEPT ![s] = [@ EXCEPT !.pc = "record", !.ok = ok]]
         /\ posts' = [posts EXCEPT ![d] = IF reached THEN @ + 1 ELSE @]
    /\ UNCHANGED <<hookVars, admin, event, delivery, queue, crashes, stranded>>

\* _record_success and _record_retry: one pipeline on the delivery, the queue and the hook.
RecordSuccess(s) ==
    /\ At(s, "record") /\ sender[s].ok
    /\ delivery' = [delivery EXCEPT ![sender[s].d] =
                        [status |-> "delivered", attempts |-> sender[s].attempts]]
    /\ hook' = Touched
    /\ sender' = [sender EXCEPT ![s] = Polling]
    /\ UNCHANGED <<subscribed, admin, event, queue, crashes, posts, stranded>>

Failed(s) == At(s, "record") /\ ~sender[s].ok
WriteFailure(s, final, queued) ==
    LET d == sender[s].d IN
    /\ delivery' = [delivery EXCEPT ![d] = [status |-> IF final THEN "failed_permanent" ELSE "retrying",
                                           attempts |-> sender[s].attempts]]
    /\ queue' = IF queued THEN [queue EXCEPT ![d] = "waiting"] ELSE queue
    /\ hook' = Touched
    /\ sender' = [sender EXCEPT ![s] = Polling]
    /\ UNCHANGED <<subscribed, admin, event, crashes, posts, stranded>>

\* Mutants: one attempt too many; a retry that nobody queues.
RecordRetryOnceMore(s) == /\ Failed(s)
                          /\ WriteFailure(s, sender[s].attempts > MaxRetries,
                                             sender[s].attempts <= MaxRetries)
RecordRetryUnqueued(s) == Failed(s) /\ WriteFailure(s, sender[s].attempts >= MaxRetries, FALSE)
RecordRetry(s) == /\ Failed(s)
                  /\ WriteFailure(s, sender[s].attempts >= MaxRetries,
                                     sender[s].attempts < MaxRetries)

\* The process dies; another takes its place. What it had claimed is in no queue.
SenderDies(s) ==
    /\ ~At(s, "poll") /\ crashes < MaxCrashes
    /\ crashes' = crashes + 1
    /\ stranded' = IF At(s, "claim") THEN stranded ELSE stranded \cup {sender[s].d}
    /\ sender' = [sender EXCEPT ![s] = Polling]
    /\ UNCHANGED <<hookVars, admin, event, delivery, queue, posts>>

Send(s) == \/ \E d \in Deliveries : Poll(s, d)
           \/ Claim(s) \/ LoadDelivery(s) \/ CheckHook(s) \/ Drop(s) \/ Post(s)
           \/ RecordSuccess(s) \/ RecordRetry(s)

Next == \/ \E a \in Admins : \/ \E what \in Requests : LoadWebhook(a, what)
                             \/ Manage(a) \/ DeleteWebhook(a)
        \/ \E d \in Deliveries : \/ ListSubscribers(d) \/ CheckActive(d) \/ Deliver(d)
                                 \/ PublisherDies(d) \/ ComeDue(d)
        \/ \E s \in Senders : Send(s) \/ SenderDies(s)

(***************************************************************************)
(* The worker's loop polls for ever, its calls return or time out, and     *)
(* time passes. Each due delivery is polled in the end: a batch takes the  *)
(* oldest first.                                                           *)
(***************************************************************************)
Fairness == /\ \A s \in Senders : WF_vars(Send(s))
            /\ \A d \in Deliveries : /\ WF_vars(ComeDue(d))
                                     /\ SF_vars(\E s \in Senders : Poll(s, d))
Spec == Init /\ [][Next]_vars /\ Fairness
-----------------------------------------------------------------------------
(***************************************************************************)
(* A delivery that is delivered, given up or dropped is done with: it      *)
(* keeps that status and the merchant never sees it again, whatever other  *)
(* workers had seen in the queue; and before that the merchant sees it at  *)
(* most MAX_RETRIES times, however often a worker dies or an answer is     *)
(* lost.                                                                   *)
(***************************************************************************)
FinalIsFinal ==
    [][\A d \in Deliveries :
         /\ posts'[d] <= MaxRetries
         /\ delivery[d].status \in FinalStatuses =>
               delivery'[d].status = delivery[d].status /\ posts'[d] = posts[d]]_vars

(***************************************************************************)
(* A delivery that was queued reaches a final status, except when its      *)
(* sender died with the claim in hand, or raised because the webhook was   *)
(* deleted and brought back half-empty: such a one is in no queue and no   *)
(* worker will ever look at it.                                            *)
(***************************************************************************)
EveryDeliveryEnds ==
    \A d \in Deliveries :
        (queue[d] # "absent") ~> (delivery[d].status \in FinalStatuses \/ d \in stranded)
=============================================================================
