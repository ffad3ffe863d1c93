--------------------------- MODULE DeliveryProofs ---------------------------
(***************************************************************************)
(* A delivery is in one place at a time: not yet published, in the queue,  *)
(* in the hand of the one sender whose ZREM removed it, final, or lost     *)
(* with a sender that died. What a POST still costs is known there, so no  *)
(* crash, stale poll or lost answer shows a merchant a delivery more than  *)
(* MAX_RETRIES times, or again once it is final.                           *)
(***************************************************************************)
EXTENDS WebhookDelivery, StreamWorker, SumFacts

Holding == {"load", "check", "drop", "post", "record"}
Alive   == {"pending", "retrying"}

\* A sender that has claimed a delivery has it alone, and out of the queue.
HandInv ==
    /\ \A s \in Senders : sender[s].pc # "poll" => sender[s].d \in Deliveries
    /\ \A s, t \in Senders :
          s # t /\ sender[s].pc \in Holding /\ sender[t].pc \in Holding => sender[s].d # sender[t].d
    /\ \A s \in Senders :
          sender[s].pc \in Holding =>
             /\ queue[sender[s].d] = "absent"
             /\ delivery[sender[s].d].status \in Alive
             /\ delivery[sender[s].d].attempts < MaxRetries
             /\ sender[s].pc # "load" => sender[s].attempts = delivery[sender[s].d].attempts + 1
             /\ sender[s].pc # "record" => posts[sender[s].d] <= delivery[sender[s].d].attempts
             /\ posts[sender[s].d] <= delivery[sender[s].d].attempts + 1

\* A queued delivery has a try left, one that is not published none behind it.
PlaceInv ==
    \A d \in Deliveries :
       /\ queue[d] # "absent" => /\ delivery[d].status \in Alive
                                 /\ delivery[d].attempts < MaxRetries
                                 /\ posts[d] <= delivery[d].attempts
       /\ event[d] # "done" => delivery[d].status = "none" /\ queue[d] = "absent" /\ posts[d] = 0
       /\ posts[d] <= MaxRetries

SendInv == TypeOK /\ HandInv /\ PlaceInv

\* What FinalIsFinal says of one step.
StaysFinal == \A d \in Deliveries :
                 /\ posts'[d] <= MaxRetries
                 /\ delivery[d].status \in FinalStatuses =>
                       delivery'[d].status = delivery[d].status /\ posts'[d] = posts[d]

USE WebhookAssumption DEF At, hookVars, workVars, FinalStatuses, Holding, Alive
-----------------------------------------------------------------------------
LEMMA InitSends == Init => SendInv
  BY DEF Init, SendInv, TypeOK, HandInv, PlaceInv, Hook, Delivery, Sender, Polling

LEMMA NextSends ==
  ASSUME SendInv, [Next]_vars
  PROVE  SendInv' /\ StaysFinal
<1>. USE DEF SendInv
<1>1. ASSUME NEW a \in Admins, NEW what \in Requests, LoadWebhook(a, what) PROVE SendInv' /\ StaysFinal
  <2>1. TypeOK'
    BY <1>1 DEF LoadWebhook, Requests, TypeOK, HandInv, Hook, Delivery, Sender, Polling
  <2>2. HandInv'
    BY <1>1 DEF LoadWebhook, Requests, TypeOK, HandInv, PlaceInv, Delivery, Sender, Polling
  <2>3. PlaceInv' /\ StaysFinal
    BY <1>1
       DEF LoadWebhook, Requests, TypeOK, HandInv, PlaceInv, StaysFinal, Delivery, Sender, Polling
  <2>. QED  BY <2>1, <2>2, <2>3
<1>2. ASSUME NEW a \in Admins, Manage(a) PROVE SendInv' /\ StaysFinal
  <2>1. TypeOK'
    BY <1>2 DEF Manage, Touched, Hook, TypeOK, HandInv, Hook, Delivery, Sender, Polling
  <2>2. HandInv'
    BY <1>2 DEF Manage, Touched, Hook, TypeOK, HandInv, PlaceInv, Delivery, Sender, Polling
  <2>3. PlaceInv' /\ StaysFinal
    BY <1>2
       DEF Manage, Touched, Hook, TypeOK, HandInv, PlaceInv, StaysFinal, Delivery, Sender, Polling
  <2>. QED  BY <2>1, <2>2, <2>3
<1>3. ASSUME NEW a \in Admins, DeleteWebhook(a) PROVE SendInv' /\ StaysFinal
  <2>1. TypeOK'
    BY <1>3 DEF DeleteWebhook, Hook, TypeOK, HandInv, Hook, Delivery, Sender, Polling
  <2>2. HandInv'
    BY <1>3 DEF DeleteWebhook, Hook, TypeOK, HandInv, PlaceInv, Delivery, Sender, Polling
  <2>3. PlaceInv' /\ StaysFinal
    BY <1>3
       DEF DeleteWebhook, Hook, TypeOK, HandInv, PlaceInv, StaysFinal, Delivery, Sender, Polling
  <2>. QED  BY <2>1, <2>2, <2>3
<1>4. ASSUME NEW d \in Deliveries, ListSubscribers(d) PROVE SendInv' /\ StaysFinal
  <2>1. TypeOK'
    BY <1>4 DEF ListSubscribers, TypeOK, HandInv, Hook, Delivery, Sender, Polling
  <2>2. HandInv'
    BY <1>4 DEF ListSubscribers, TypeOK, HandInv, PlaceInv, Delivery, Sender, Polling
  <2>3. PlaceInv' /\ StaysFinal
    BY <1>4 DEF ListSubscribers, TypeOK, HandInv, PlaceInv, StaysFinal, Delivery, Sender, Polling
  <2>. QED  BY <2>1, <2>2, <2>3
<1>5. ASSUME NEW d \in Deliveries, CheckActive(d) PROVE SendInv' /\ StaysFinal
  <2>1. TypeOK'
    BY <1>5 DEF CheckActive, TypeOK, HandInv, Hook, Delivery, Sender, Polling
  <2>2. HandInv'
    BY <1>5 DEF CheckActive, TypeOK, HandInv, PlaceInv, Delivery, Sender, Polling
  <2>3. PlaceInv' /\ StaysFinal
    BY <1>5 DEF CheckActive, TypeOK, HandInv, PlaceInv, StaysFinal, Delivery, Sender, Polling
  <2>. QED  BY <2>1, <2>2, <2>3
<1>6. ASSUME NEW d \in Deliveries, Deliver(d) PROVE SendInv' /\ StaysFinal
  <2>1. TypeOK'
    BY <1>6 DEF Deliver, TypeOK, HandInv, Hook, Delivery, Sender, Polling
  <2>2. HandInv'
    BY <1>6 DEF Deliver, TypeOK, HandInv, PlaceInv, Delivery, Sender, Polling
  <2>3. PlaceInv' /\ StaysFinal
    BY <1>6 DEF Deliver, TypeOK, HandInv, PlaceInv, StaysFinal, Delivery, Sender, Polling
  <2>. QED  BY <2>1, <2>2, <2>3
<1>7. ASSUME NEW d \in Deliveries, PublisherDies(d) PROVE SendInv' /\ StaysFinal
  <2>1. TypeOK'
    BY <1>7 DEF PublisherDies, TypeOK, HandInv, Hook, Delivery, Sender, Polling
  <2>2. HandInv'
    BY <1>7 DEF PublisherDies, TypeOK, HandInv, PlaceInv, Delivery, Sender, Polling
  <2>3. PlaceInv' /\ StaysFinal
    BY <1>7 DEF PublisherDies, TypeOK, HandInv, PlaceInv, StaysFinal, Delivery, Sender, Polling
  <2>. QED  BY <2>1, <2>2, <2>3
<1>8. ASSUME NEW d \in Deliveries, ComeDue(d) PROVE SendInv' /\ StaysFinal
  <2>1. TypeOK'
    BY <1>8 DEF ComeDue, TypeOK, HandInv, Hook, Delivery, Sender, Polling
  <2>2. HandInv'
    BY <1>8 DEF ComeDue, TypeOK, HandInv, PlaceInv, Delivery, Sender, Polling
  <2>3. PlaceInv' /\ StaysFinal
    BY <1>8 DEF ComeDue, TypeOK, HandInv, PlaceInv, StaysFinal, Delivery, Sender, Polling
  <2>. QED  BY <2>1, <2>2, <2>3
<1>9. ASSUME NEW s \in Senders, NEW d \in Deliveries, Poll(s, d) PROVE SendInv' /\ StaysFinal
  <2>1. TypeOK'
    BY <1>9 DEF Poll, TypeOK, HandInv, Hook, Delivery, Sender, Polling
  <2>2. HandInv'
    BY <1>9 DEF Poll, TypeOK, HandInv, PlaceInv, Delivery, Sender, Polling
  <2>3. PlaceInv' /\ StaysFinal
    BY <1>9 DEF Poll, TypeOK, HandInv, PlaceInv, StaysFinal, Delivery, Sender, Polling
  <2>. QED  BY <2>1, <2>2, <2>3
<1>10. ASSUME NEW s \in Senders, Claim(s) PROVE SendInv' /\ StaysFinal
  <2>0. \A t \in Senders : [sender[t] EXCEPT !.pc = "load"] \in Sender /\ Polling \in Sender
    BY DEF TypeOK, Sender, Polling
  <2>1. TypeOK'
    BY <1>10, <2>0 DEF Claim, TypeOK, HandInv
  <2>2. HandInv'
    BY <1>10 DEF Claim, TypeOK, HandInv, PlaceInv, Delivery, Sender, Polling
  <2>3. PlaceInv' /\ StaysFinal
    BY <1>10 DEF Claim, TypeOK, HandInv, PlaceInv, StaysFinal, Delivery, Sender, Polling
  <2>. QED  BY <2>1, <2>2, <2>3
<1>11. ASSUME NEW s \in Senders, LoadDelivery(s) PROVE SendInv' /\ StaysFinal
  <2>. DEFINE n == delivery[sender[s].d].attempts + 1
              r == [sender[s] EXCEPT !.pc = "check", !.attempts = n]
  <2>0. sender' = [sender EXCEPT ![s] = r] /\ n \in Nat /\ sender[s] \in Sender
    BY <1>11 DEF LoadDelivery, TypeOK, HandInv, Delivery
  <2>1. /\ r \in Sender /\ r.pc = "check" /\ r.attempts = n /\ r.d = sender[s].d
    BY <2>0 DEF Sender
  <2>. HIDE DEF r
  <2>2. TypeOK'
    BY <1>11, <2>0, <2>1 DEF LoadDelivery, TypeOK
  <2>3. HandInv'
    BY <1>11, <2>0, <2>1 DEF LoadDelivery, TypeOK, HandInv, Delivery
  <2>4. PlaceInv' /\ StaysFinal
    BY <1>11 DEF LoadDelivery, TypeOK, PlaceInv, StaysFinal, Delivery
  <2>. QED  BY <2>2, <2>3, <2>4
<1>12. ASSUME NEW s \in Senders, CheckHook(s) PROVE SendInv' /\ StaysFinal
  <2>. DEFINE d == sender[s].d
              next == IF hook.status # "active" THEN "drop" ELSE IF hook.url THEN "post" ELSE "record"
  <2>0. /\ d \in Deliveries /\ queue[d] = "absent" /\ sender[s].pc = "check"
        /\ UNCHANGED <<hookVars, admin, event, delivery, queue, crashes, posts>>
    BY <1>12 DEF CheckHook, HandInv
  <2>1. CASE /\ sender' = [sender EXCEPT ![s].pc = next]
             /\ UNCHANGED stranded
    <3>0. next \in {"drop", "post", "record"}
      OBVIOUS
    <3>. HIDE DEF next
    <3>1. TypeOK'
      BY <2>0, <2>1, <3>0 DEF TypeOK, Sender
    <3>2. HandInv'
      BY <2>0, <2>1, <3>0 DEF TypeOK, HandInv, Sender
    <3>3. PlaceInv' /\ StaysFinal
      BY <2>0, <2>1 DEF PlaceInv, StaysFinal
    <3>. QED  BY <3>1, <3>2, <3>3
  <2>2. CASE /\ sender' = [sender EXCEPT ![s] = Polling]
             /\ stranded' = stranded \cup {d}
    <3>1. TypeOK'
      BY <2>0, <2>2 DEF TypeOK, Sender, Polling
    <3>2. HandInv'
      BY <2>0, <2>2 DEF TypeOK, HandInv, Sender, Polling
    <3>3. PlaceInv' /\ StaysFinal
      BY <2>0, <2>2 DEF PlaceInv, StaysFinal
    <3>. QED  BY <3>1, <3>2, <3>3
  <2>. QED  BY <1>12, <2>1, <2>2 DEF CheckHook
<1>18. ASSUME NEW s \in Senders, Drop(s) PROVE SendInv' /\ StaysFinal
  <2>1. TypeOK'
    BY <1>18 DEF Drop, TypeOK, HandInv, Delivery, Sender, Polling
  <2>2. HandInv'
    BY <1>18 DEF Drop, TypeOK, HandInv, Delivery, Sender, Polling
  <2>3. PlaceInv' /\ StaysFinal
    BY <1>18 DEF Drop, TypeOK, HandInv, PlaceInv, StaysFinal, Delivery
  <2>. QED  BY <2>1, <2>2, <2>3
<1>13. ASSUME NEW s \in Senders, Post(s) PROVE SendInv' /\ StaysFinal
  <2>. DEFINE d == sender[s].d
  <2>0. PICK ok \in BOOLEAN, reached \in BOOLEAN :
           /\ sender' = [sender EXCEPT ![s] = [sender[s] EXCEPT !.pc = "record", !.ok = ok]]
           /\ posts' = [posts EXCEPT ![d] = IF reached THEN posts[d] + 1 ELSE posts[d]]
    BY <1>13 DEF Post
  <2>. DEFINE r == [sender[s] EXCEPT !.pc = "record", !.ok = ok]
  <2>1. /\ r \in Sender /\ r.pc = "record" /\ r.attempts = sender[s].attempts /\ r.d = d
    <3>1. sender[s] \in Sender
      BY DEF TypeOK
    <3>. QED  BY <3>1 DEF Sender
  <2>. HIDE DEF r
  <2>2. sender' = [sender EXCEPT ![s] = r]
    BY <2>0 DEF r
  <2>3. d \in Deliveries /\ posts[d] \in Nat
    BY <1>13 DEF Post, HandInv, TypeOK
  <2>4. TypeOK'
    BY <1>13, <2>0, <2>1, <2>2, <2>3 DEF Post, TypeOK
  <2>5. HandInv'
    BY <1>13, <2>0, <2>1, <2>2, <2>3 DEF Post, TypeOK, HandInv, Delivery
  <2>6. PlaceInv' /\ StaysFinal
    BY <1>13, <2>0, <2>3 DEF Post, TypeOK, HandInv, PlaceInv, StaysFinal, Delivery
  <2>. QED  BY <2>4, <2>5, <2>6
<1>14. ASSUME NEW s \in Senders, RecordSuccess(s) PROVE SendInv' /\ StaysFinal
  <2>1. TypeOK'
    BY <1>14 DEF RecordSuccess, Touched, TypeOK, HandInv, Hook, Delivery, Sender, Polling
  <2>2. HandInv'
    BY <1>14 DEF RecordSuccess, Touched, TypeOK, HandInv, PlaceInv, Delivery, Sender, Polling
  <2>3. PlaceInv' /\ StaysFinal
    BY <1>14
       DEF RecordSuccess, Touched, TypeOK, HandInv, PlaceInv, StaysFinal, Delivery, Sender, Polling
  <2>. QED  BY <2>1, <2>2, <2>3
<1>15. ASSUME NEW s \in Senders, RecordRetry(s) PROVE SendInv' /\ StaysFinal
  <2>1. TypeOK'
    BY <1>15
       DEF RecordRetry, Failed, WriteFailure, Touched, TypeOK, HandInv, Hook, Delivery, Sender, Polling
  <2>2. HandInv'
    BY <1>15
       DEF RecordRetry, Failed, WriteFailure, Touched, TypeOK, HandInv, PlaceInv, Delivery, Sender, Polling
  <2>3. PlaceInv' /\ StaysFinal
    BY <1>15
       DEF RecordRetry, Failed, WriteFailure, Touched, TypeOK, HandInv, PlaceInv, StaysFinal, Delivery, Sender, Polling
  <2>. QED  BY <2>1, <2>2, <2>3
<1>16. ASSUME NEW s \in Senders, SenderDies(s) PROVE SendInv' /\ StaysFinal
  <2>1. TypeOK'
    BY <1>16 DEF SenderDies, TypeOK, HandInv, Hook, Delivery, Sender, Polling
  <2>2. HandInv'
    BY <1>16 DEF SenderDies, TypeOK, HandInv, PlaceInv, Delivery, Sender, Polling
  <2>3. PlaceInv' /\ StaysFinal
    BY <1>16 DEF SenderDies, TypeOK, HandInv, PlaceInv, StaysFinal, Delivery, Sender, Polling
  <2>. QED  BY <2>1, <2>2, <2>3
<1>17. CASE UNCHANGED vars
  BY <1>17 DEF vars, TypeOK, HandInv, PlaceInv, StaysFinal
<1>. QED  BY <1>1, <1>2, <1>3, <1>4, <1>5, <1>6, <1>7, <1>8, <1>9, <1>10, <1>11, <1>12,
             <1>13, <1>14, <1>15, <1>16, <1>17, <1>18 DEF Next, Send

(***************************************************************************)
(* For any deliveries, senders, portal requests, crashes and number of     *)
(* retries, without any fairness: every variable keeps its type.           *)
(***************************************************************************)
THEOREM DeliveriesTyped == Spec => []TypeOK
<1>1. SendInv => TypeOK
  BY DEF SendInv
<1>2. SendInv /\ [Next]_vars => SendInv'
  BY NextSends
<1>. QED  BY InitSends, <1>1, <1>2, PTL DEF Spec

(***************************************************************************)
(* And what is final stays final, after at most MAX_RETRIES POSTs          *)
(* (drain_due_deliveries, _send_single_delivery, _record_retry).           *)
(***************************************************************************)
THEOREM DeliveriesStayFinal == Spec => FinalIsFinal
<1>1. SendInv /\ [Next]_vars => SendInv' /\ [StaysFinal]_vars
  BY NextSends
<1>. QED  BY InitSends, <1>1, PTL DEF Spec, FinalIsFinal, StaysFinal

-----------------------------------------------------------------------------
(***************************************************************************)
(* The consumer group. An event that has left the books was handled, and   *)
(* one in a worker's hand has had what the worker's place in the loop says *)
(* it has had; a failed call is remembered by the event it failed for.     *)
(* Without faults the owner of an entry is the worker that holds it in its *)
(* batch, nobody's entry goes stale in his hands, and only what is being   *)
(* handled has had part of its effects.                                    *)
(***************************************************************************)
Busy == {"take", "bury", "visit", "xp", "ack"}

\* Oldest, of any stream: the read position of a batch does not move when the API appends.
OldestIndex(s, es) == CHOOSE i \in 1..Len(s) : /\ s[i] \in es
                                               /\ \A j \in 1..(i - 1) : s[j] \notin es

LEMMA OldestExists ==
  ASSUME NEW s \in Seq(Events), NEW es, NEW k \in 1..Len(s), s[k] \in es
  PROVE  /\ OldestIndex(s, es) \in 1..Len(s) /\ s[OldestIndex(s, es)] \in es
         /\ \A j \in 1..(OldestIndex(s, es) - 1) : s[j] \notin es
<1>. DEFINE F == {i \in 1..Len(s) : s[i] \in es}
<1>1. F \in SUBSET (0..Len(s)) /\ F # {}
  OBVIOUS
<1>2. PICK i \in F : \A j \in F : i <= j
  <2>1. Len(s) \in Nat
    OBVIOUS
  <2>. HIDE DEF F
  <2>. QED  BY <1>1, <2>1, LeastOf
<1>3. \A j \in 1..(i - 1) : s[j] \notin es
  BY <1>2
<1>. QED  BY <1>3 DEF OldestIndex

LEMMA OldestStays ==
  ASSUME NEW s \in Seq(Events), NEW es, NEW k \in 1..Len(s), s[k] \in es, NEW e \in Events,
         NEW t, t = Append(s, e)
  PROVE  t[OldestIndex(t, es)] = s[OldestIndex(s, es)]
<1>1. t \in Seq(Events) /\ Len(t) = Len(s) + 1 /\ \A i \in 1..Len(s) : t[i] = s[i]
  OBVIOUS
<1>2. /\ OldestIndex(s, es) \in 1..Len(s) /\ s[OldestIndex(s, es)] \in es
      /\ \A j \in 1..(OldestIndex(s, es) - 1) : s[j] \notin es
  BY OldestExists
<1>3. /\ OldestIndex(t, es) \in 1..Len(t) /\ t[OldestIndex(t, es)] \in es
      /\ \A j \in 1..(OldestIndex(t, es) - 1) : t[j] \notin es
  <2>1. k \in 1..Len(t) /\ t[k] \in es
    BY <1>1
  <2>. QED  BY <1>1, <2>1, OldestExists
<1>4. OldestIndex(t, es) = OldestIndex(s, es)
  BY <1>1, <1>2, <1>3
<1>. QED  BY <1>1, <1>2, <1>4

-----------------------------------------------------------------------------
(***************************************************************************)
(* Where the books of the group stand: what a worker has in hand was read, *)
(* what is pending was read, and nothing is read before there is a group.  *)
(***************************************************************************)
BooksInv ==
    /\ cursor <= Len(stream)
    /\ cursor = -1 => \A e \in Events : Appended(e) => e \in before
    /\ \A i, j \in 1..Len(stream) : stream[i] = stream[j] => i = j
    /\ \A c \in Consumers \ live : worker[c] = Fresh
    /\ \A c \in Consumers : /\ worker[c].pc \in Busy <=> worker[c].batch # {}
                            /\ worker[c].pc \in {"reclaim", "read"} => cursor >= 0
                            /\ \A e \in worker[c].batch : Read(e)
    /\ \A e \in Events : IsPending(e) => Read(e)

\* An event that needs nothing more, and what a worker has done for the one in its hand.
Handled(e) == \/ visits[e] > 0 /\ xp[e] > 0
              \/ e \in dlq \cup failed
HandledInv ==
    /\ \A e \in Events : kind[e] = "critical" /\ Settled(e) /\ e \notin before => Handled(e)
    /\ \A c \in Consumers : worker[c].batch # {} /\ kind[Current(c)] = "critical" =>
          /\ worker[c].pc = "xp" => visits[Current(c)] > 0 \/ Current(c) \in failed
          /\ worker[c].pc \in {"bury", "ack"} => Handled(Current(c))

\* Without faults an event is in one pair of hands, and done only there.
InHand(e, c) == e \in worker[c].batch /\ e = Current(c) /\ worker[c].pc \in {"xp", "ack"}
OnceInv ==
    faults = 0 /\ used = live =>
       /\ \A e \in Events :
             /\ visits[e] <= 1 /\ xp[e] <= 1
             /\ ~Read(e) => visits[e] = 0 /\ xp[e] = 0
             /\ IsPending(e) /\ ~InHand(e, pending[e].owner) => visits[e] = 0 /\ xp[e] = 0
             /\ IsPending(e) /\ worker[pending[e].owner].pc = "xp"
                   /\ InHand(e, pending[e].owner) => xp[e] = 0
       /\ \A c \in Consumers : \A e \in worker[c].batch :
             pending[e].owner = c /\ ~pending[e].stale

StreamInv == StreamTypeOK /\ BooksInv /\ HandledInv /\ OnceInv

HIDE WebhookAssumption DEF At, hookVars, workVars, FinalStatuses, Holding, Alive
USE StreamAssumption DEF Busy, Nobody, Consumers

LEMMA StreamStarts == StreamInit => StreamInv
<1>. SUFFICES ASSUME StreamInit PROVE StreamInv
  OBVIOUS
<1>1. StreamTypeOK
  BY DEF StreamInit, StreamTypeOK, NotThere, WorkerState, Fresh
<1>2. BooksInv
  BY DEF StreamInit, BooksInv, Appended, IsPending, NotThere, Fresh
<1>3. HandledInv
  BY DEF StreamInit, HandledInv, Settled, Read, Fresh
<1>4. OnceInv
  BY DEF StreamInit, OnceInv, IsPending, NotThere, Fresh
<1>. QED  BY <1>1, <1>2, <1>3, <1>4 DEF StreamInv

LEMMA Cursor == ASSUME StreamTypeOK, BooksInv
                PROVE  stream \in Seq(Events) /\ Len(stream) \in Nat /\ cursor \in -1..Len(stream)
<1>1. stream \in Seq(Events) /\ cursor \in Nat \cup {-1}
  BY DEF StreamTypeOK
<1>2. Len(stream) \in Nat
  BY <1>1
<1>. QED  BY <1>1, <1>2 DEF BooksInv

LEMMA Typed == ASSUME StreamTypeOK, NEW c \in Consumers
               PROVE  /\ worker \in [Consumers -> WorkerState]
                      /\ worker[c].batch \subseteq Events /\ worker[c].reclaiming \in BOOLEAN
  BY DEF StreamTypeOK, WorkerState

LEMMA CurrentIn ==
  ASSUME StreamTypeOK, BooksInv, NEW c \in Consumers, worker[c].batch # {}
  PROVE  Current(c) \in worker[c].batch /\ Current(c) \in Events /\ Read(Current(c))
<1>1. PICK e \in worker[c].batch : TRUE
  OBVIOUS
<1>2. PICK k \in 1..cursor : stream[k] = e
  BY <1>1 DEF BooksInv, Read
<1>3. k \in 1..Len(stream) /\ stream \in Seq(Events) /\ worker[c].batch \subseteq Events
  BY <1>2, Cursor, Typed
<1>4. stream[OldestIndex(stream, worker[c].batch)] \in worker[c].batch
  BY <1>1, <1>2, <1>3, OldestExists
<1>5. Current(c) \in worker[c].batch
  BY <1>4 DEF Current, Oldest, OldestIndex
<1>. QED  BY <1>3, <1>5 DEF BooksInv

\* Who has what in hand does not change while the API appends.
LEMMA CurrentKept ==
  ASSUME StreamTypeOK, BooksInv, NEW c \in Consumers, worker[c].batch # {},
         worker'[c].batch = worker[c].batch,
         stream' = stream \/ \E e \in Events : stream' = Append(stream, e)
  PROVE  Current(c)' = Current(c)
<1>1. CASE stream' = stream
  BY <1>1 DEF Current, Oldest
<1>2. ASSUME NEW x \in Events, stream' = Append(stream, x) PROVE Current(c)' = Current(c)
  <2>1. PICK e \in worker[c].batch : TRUE
    OBVIOUS
  <2>2. PICK k \in 1..cursor : stream[k] = e
    BY <2>1 DEF BooksInv, Read
  <2>3. k \in 1..Len(stream) /\ stream \in Seq(Events) /\ stream[k] \in worker[c].batch
    BY <2>1, <2>2, Cursor
  <2>. DEFINE es == worker[c].batch
              s == stream
              t == stream'
  <2>4. s \in Seq(Events) /\ k \in 1..Len(s) /\ s[k] \in es /\ t = Append(s, x)
    BY <1>2, <2>3
  <2>5. Current(c) = s[OldestIndex(s, es)] /\ Current(c)' = t[OldestIndex(t, es)]
    BY DEF Current, Oldest, OldestIndex
  <2>. HIDE DEF es, s, t
  <2>6. t[OldestIndex(t, es)] = s[OldestIndex(s, es)]
    BY <2>4, OldestStays
  <2>. QED  BY <2>5, <2>6
<1>. QED  BY <1>1, <1>2

LEMMA AdvanceTo ==
  ASSUME StreamTypeOK, BooksInv, NEW c \in Consumers, worker[c].batch # {}, Advance(c, worker[c])
  PROVE  /\ worker' \in [Consumers -> WorkerState]
         /\ \A d \in Consumers \ {c} : worker'[d] = worker[d]
         /\ worker'[c].batch = worker[c].batch \ {Current(c)}
         /\ worker'[c].pc \in {"take", "read", "start"}
         /\ worker'[c].pc = "take" <=> worker'[c].batch # {}
<1>. DEFINE w == worker[c]
            pc == IF w.batch \ {Current(c)} # {} THEN "take"
                  ELSE IF w.reclaiming THEN "read" ELSE "start"
<1>1. w.batch \subseteq Events /\ worker \in [Consumers -> WorkerState]
  BY Typed
<1>2. worker' = [worker EXCEPT ![c] = [w EXCEPT !.batch = w.batch \ {Current(c)}, !.pc = pc]]
  BY DEF Advance, Current
<1>3. pc \in {"take", "read", "start"} /\ (pc = "take" <=> w.batch \ {Current(c)} # {})
  OBVIOUS
<1>. HIDE DEF pc
<1>. QED  BY <1>1, <1>2, <1>3 DEF WorkerState

LEMMA GoneTo ==
  ASSUME StreamTypeOK, NEW c \in Consumers, NEW pc, Goto(c, pc),
         pc \in {"start", "reclaim", "read", "take", "bury", "visit", "xp", "ack"}
  PROVE  /\ worker' \in [Consumers -> WorkerState]
         /\ \A d \in Consumers \ {c} : worker'[d] = worker[d]
         /\ worker'[c].batch = worker[c].batch
         /\ worker'[c].pc = pc
<1>1. worker \in [Consumers -> WorkerState] /\ worker' = [worker EXCEPT ![c].pc = pc]
  BY DEF StreamTypeOK, Goto
<1>. QED  BY <1>1 DEF WorkerState

LEMMA ReadKept == ASSUME stream' = stream, cursor' = cursor PROVE \A e : Read(e)' <=> Read(e)
  BY DEF Read

LEMMA OwnerIs == ASSUME StreamTypeOK, NEW e \in Events
                 PROVE  IsPending(e) <=> pending[e].owner \in Consumers
  BY DEF StreamTypeOK, IsPending, Entry, NotThere

\* A worker goes on with its batch, or drops part of it, and nothing new becomes pending.
LEMMA BooksKept ==
  ASSUME StreamTypeOK, BooksInv, NEW c \in Consumers, c \in live, live' = live,
         stream' = stream, cursor' = cursor, before' = before,
         \A d \in Consumers \ {c} : worker'[d] = worker[d],
         worker'[c].batch \subseteq worker[c].batch, worker[c].batch # {},
         worker'[c].pc \in Busy <=> worker'[c].batch # {},
         \A e \in Events : IsPending(e)' => IsPending(e)
  PROVE  BooksInv'
<1>1. \A e : Read(e)' <=> Read(e)
  BY ReadKept
<1>2. \A e : Appended(e)' <=> Appended(e)
  BY DEF Appended
<1>3. cursor >= 0
  <2>1. PICK e \in worker[c].batch : Read(e)
    BY DEF BooksInv
  <2>. QED  BY <2>1, Cursor DEF Read
<1>. QED  BY <1>1, <1>2, <1>3 DEF BooksInv

\* What a step does that only moves the worker on within its entry.
LEMMA Stepping ==
  ASSUME StreamInv, NEW c \in Consumers, NEW at \in Busy, NEW pc \in Busy,
         WorkerAt(c, at), Goto(c, pc), live' = live, used' = used,
         stream' = stream, cursor' = cursor, before' = before, pending' = pending,
         kind' = kind, dlq' \subseteq Events, faults' \in 0..MaxFaults,
         failed \subseteq failed', failed' \subseteq Events,
         visits' \in [Events -> Nat], xp' \in [Events -> Nat]
  PROVE  /\ StreamTypeOK' /\ BooksInv'
         /\ Current(c) \in Events /\ Current(c) \in worker[c].batch
         /\ \A d \in Consumers : worker[d].batch # {} => Current(d)' = Current(d)
         /\ \A e : Read(e)' <=> Read(e)
         /\ \A d \in Consumers : worker'[d].batch = worker[d].batch
         /\ \A d \in Consumers \ {c} : worker'[d] = worker[d]
         /\ worker'[c].pc = pc
<1>1. worker[c].batch # {} /\ c \in live
  BY DEF StreamInv, BooksInv, WorkerAt
<1>2. /\ worker' \in [Consumers -> WorkerState]
      /\ \A d \in Consumers \ {c} : worker'[d] = worker[d]
      /\ worker'[c].batch = worker[c].batch
      /\ worker'[c].pc = pc
  BY GoneTo DEF StreamInv
<1>3. BooksInv'
  BY <1>1, <1>2, BooksKept DEF StreamInv, IsPending
<1>4. \A d \in Consumers : worker[d].batch # {} => Current(d)' = Current(d)
  BY <1>2, CurrentKept DEF StreamInv
<1>5. StreamTypeOK'
  BY <1>2 DEF StreamInv, StreamTypeOK
<1>. QED  BY <1>1, <1>2, <1>3, <1>4, <1>5, CurrentIn, ReadKept DEF StreamInv

LEMMA HandleStep == ASSUME StreamInv, NEW c \in Consumers, Handle(c) PROVE StreamInv'
<1>1. /\ WorkerAt(c, "take") /\ Goto(c, "visit") /\ kind[Current(c)] # "poison"
      /\ UNCHANGED <<stream, groupVars, live, used, dlq, faults, effectVars, historyVars>>
  BY DEF Handle
<1>. USE <1>1 DEF groupVars, effectVars, historyVars
<1>2. /\ StreamTypeOK' /\ BooksInv'
      /\ Current(c) \in Events /\ Current(c) \in worker[c].batch
      /\ \A d \in Consumers : worker[d].batch # {} => Current(d)' = Current(d)
      /\ \A e : Read(e)' <=> Read(e)
      /\ \A d \in Consumers : worker'[d].batch = worker[d].batch
      /\ \A d \in Consumers \ {c} : worker'[d] = worker[d]
      /\ worker'[c].pc = "visit"
  BY Stepping, "take" \in Busy, "visit" \in Busy DEF StreamInv, StreamTypeOK
<1>3. HandledInv'
  BY <1>2 DEF StreamInv, HandledInv, Handled, Settled, IsPending
<1>4. OnceInv'
  <2>1. \A e \in Events : IsPending(e) => pending[e].owner \in Consumers
    BY OwnerIs DEF StreamInv
  <2>2. \A e, d : InHand(e, d) /\ d \in Consumers \ {c} => InHand(e, d)'
    BY <1>2 DEF InHand
  <2>. QED  BY <1>2, <2>1, <2>2 DEF StreamInv, OnceInv, InHand, IsPending, WorkerAt
<1>. QED  BY <1>2, <1>3, <1>4 DEF StreamInv

LEMMA SkipStep == ASSUME StreamInv, NEW c \in Consumers, Skip(c) PROVE StreamInv'
<1>1. /\ WorkerAt(c, "take") /\ Goto(c, "ack") /\ kind[Current(c)] = "plain"
      /\ UNCHANGED <<stream, groupVars, live, used, dlq, faults, effectVars, historyVars>>
  BY DEF Skip
<1>. USE <1>1 DEF groupVars, effectVars, historyVars
<1>2. /\ StreamTypeOK' /\ BooksInv'
      /\ Current(c) \in Events /\ Current(c) \in worker[c].batch
      /\ \A d \in Consumers : worker[d].batch # {} => Current(d)' = Current(d)
      /\ \A e : Read(e)' <=> Read(e)
      /\ \A d \in Consumers : worker'[d].batch = worker[d].batch
      /\ \A d \in Consumers \ {c} : worker'[d] = worker[d]
      /\ worker'[c].pc = "ack"
  BY Stepping, "take" \in Busy, "ack" \in Busy DEF StreamInv, StreamTypeOK
<1>3. HandledInv'
  BY <1>2 DEF StreamInv, HandledInv, Handled, Settled, IsPending
<1>4. OnceInv'
  <2>1. \A e \in Events : IsPending(e) => pending[e].owner \in Consumers
    BY OwnerIs DEF StreamInv
  <2>2. \A e, d : InHand(e, d) /\ d \in Consumers \ {c} => InHand(e, d)'
    BY <1>2 DEF InHand
  <2>. QED  BY <1>2, <2>1, <2>2 DEF StreamInv, OnceInv, InHand, IsPending, WorkerAt
<1>. QED  BY <1>2, <1>3, <1>4 DEF StreamInv

LEMMA FireAttributionStep ==
  ASSUME StreamInv, NEW c \in Consumers, FireAttribution(c) PROVE StreamInv'
<1>1. /\ WorkerAt(c, "visit") /\ Goto(c, "xp")
      /\ UNCHANGED <<stream, groupVars, live, used, dlq, xp, kind, before>>
      /\ \/ /\ visits' = [visits EXCEPT ![Current(c)] = @ + 1]
            /\ UNCHANGED <<faults, failed>>
         \/ /\ faults < MaxFaults /\ faults' = faults + 1
            /\ failed' = failed \cup {Current(c)} /\ UNCHANGED visits
  BY DEF FireAttribution, Swallowed, Fault
<1>. USE <1>1 DEF groupVars, effectVars, historyVars
<1>0. Current(c) \in Events
  BY CurrentIn DEF StreamInv, BooksInv, WorkerAt
<1>0b. /\ visits \in [Events -> Nat] /\ xp \in [Events -> Nat] /\ MaxFaults \in Nat
       /\ faults \in 0..MaxFaults /\ failed \subseteq Events /\ dlq \subseteq Events
  BY DEF StreamInv, StreamTypeOK, StreamAssumption
<1>0a. /\ faults' \in 0..MaxFaults /\ failed \subseteq failed' /\ failed' \subseteq Events
       /\ visits' \in [Events -> Nat] /\ xp' \in [Events -> Nat]
  BY <1>0, <1>0b
<1>2. /\ StreamTypeOK' /\ BooksInv'
      /\ Current(c) \in Events /\ Current(c) \in worker[c].batch
      /\ \A d \in Consumers : worker[d].batch # {} => Current(d)' = Current(d)
      /\ \A e : Read(e)' <=> Read(e)
      /\ \A d \in Consumers : worker'[d].batch = worker[d].batch
      /\ \A d \in Consumers \ {c} : worker'[d] = worker[d]
      /\ worker'[c].pc = "xp"
  BY <1>0a, <1>0b, Stepping, "visit" \in Busy, "xp" \in Busy
<1>3. HandledInv'
  <2>1. /\ \A e \in Events : visits'[e] >= visits[e] /\ xp'[e] >= xp[e]
        /\ visits'[Current(c)] > 0 \/ Current(c) \in failed'
    BY <1>0, <1>0b
  <2>2. \A e \in Events : Handled(e) => Handled(e)'
    BY <1>0b, <2>1 DEF Handled
  <2>3. \A e \in Events : kind[e] = "critical" /\ Settled(e)' /\ e \notin before => Handled(e)'
    BY <1>2, <2>2 DEF StreamInv, HandledInv, Settled, IsPending
  <2>4. ASSUME NEW d \in Consumers \ {c}, worker[d].batch # {}, kind[Current(d)] = "critical"
        PROVE  /\ worker[d].pc = "xp" => visits'[Current(d)] > 0 \/ Current(d) \in failed'
               /\ worker[d].pc \in {"bury", "ack"} => Handled(Current(d))'
    <3>1. Current(d) \in Events /\ Current(d)' = Current(d)
      BY <1>2, <2>4, CurrentIn DEF StreamInv
    <3>2. /\ worker[d].pc = "xp" => visits[Current(d)] > 0 \/ Current(d) \in failed
          /\ worker[d].pc \in {"bury", "ack"} => Handled(Current(d))
      BY <2>4 DEF StreamInv, HandledInv
    <3>. QED  BY <1>0a, <1>0b, <2>1, <2>2, <3>1, <3>2 DEF Handled
  <2>5. kind[Current(c)] = "critical" =>
           /\ "xp" = "xp" => visits'[Current(c)] > 0 \/ Current(c) \in failed'
           /\ "xp" \in {"bury", "ack"} => Handled(Current(c))'
    BY <1>0a, <1>0b, <1>2, <2>1 DEF StreamInv, HandledInv, Handled, WorkerAt
  <2>. QED  BY <1>2, <2>3, <2>4, <2>5 DEF HandledInv
<1>4. OnceInv'
  <2>. SUFFICES ASSUME faults' = 0, used' = live' PROVE OnceInv'
    BY DEF OnceInv
  <2>1. \A e \in Events : IsPending(e) => pending[e].owner \in Consumers
    BY OwnerIs DEF StreamInv
  <2>2. \A e, d : d \in Consumers \ {c} => (InHand(e, d)' <=> InHand(e, d))
    BY <1>2 DEF InHand
  <2>3. faults = 0 /\ used = live /\ visits' = [visits EXCEPT ![Current(c)] = @ + 1] /\ xp' = xp
    BY <1>0b
  <2>4. /\ \A e \in Events :
             /\ visits[e] <= 1 /\ xp[e] <= 1
             /\ ~Read(e) => visits[e] = 0 /\ xp[e] = 0
             /\ IsPending(e) /\ ~InHand(e, pending[e].owner) => visits[e] = 0 /\ xp[e] = 0
             /\ IsPending(e) /\ worker[pending[e].owner].pc = "xp"
                   /\ InHand(e, pending[e].owner) => xp[e] = 0
        /\ \A d \in Consumers : \A e \in worker[d].batch :
             pending[e].owner = d /\ ~pending[e].stale
    BY <2>3 DEF StreamInv, OnceInv
  <2>5. Read(Current(c)) /\ IsPending(Current(c)) /\ pending[Current(c)].owner = c
        /\ InHand(Current(c), c)'
    BY <1>2, <2>4, CurrentIn, OwnerIs DEF StreamInv, InHand
  <2>6. visits[Current(c)] = 0 /\ ("visits" = "visits" => xp[Current(c)] = 0)
    BY <1>2, <2>4, <2>5 DEF WorkerAt, InHand
  <2>7. visits'[Current(c)] = 1 /\ \A e \in Events \ {Current(c)} : visits'[e] = visits[e]
    BY <1>0b, <1>2, <2>3, <2>6
  <2>8. \A e \in Events \ {Current(c)} : InHand(e, c)' => FALSE
    BY <1>2 DEF InHand
  <2>9. \A e \in Events \ {Current(c)} : ~InHand(e, c)
    BY DEF InHand
  <2>10. pending' = pending /\ \A e : IsPending(e)' <=> IsPending(e)
    BY DEF IsPending
  <2>11. ASSUME NEW e \in Events \ {Current(c)}
         PROVE  /\ visits'[e] <= 1 /\ xp'[e] <= 1
                /\ ~Read(e) => visits'[e] = 0 /\ xp'[e] = 0
                /\ IsPending(e) /\ ~InHand(e, pending[e].owner)' => visits'[e] = 0 /\ xp'[e] = 0
                /\ IsPending(e) /\ worker'[pending[e].owner].pc = "xp"
                      /\ InHand(e, pending[e].owner)' => xp'[e] = 0
    <3>1. visits'[e] = visits[e] /\ xp'[e] = xp[e]
      BY <2>3, <2>7
    <3>2. CASE IsPending(e) /\ pending[e].owner # c
      BY <1>2, <2>1, <2>2, <2>4, <3>1, <3>2
    <3>3. CASE IsPending(e) /\ pending[e].owner = c
      BY <2>4, <2>9, <3>1, <3>3
    <3>4. CASE ~IsPending(e)
      BY <2>4, <3>1, <3>4
    <3>. QED  BY <3>2, <3>3, <3>4
  <2>12. visits'[Current(c)] <= 1 /\ xp'[Current(c)] <= 1
         /\ (worker'[c].pc = "xp" => xp'[Current(c)] = 0)
    BY <1>2, <2>3, <2>4, <2>6, <2>7
  <2>13. \A d \in Consumers : \A e \in worker'[d].batch :
             pending'[e].owner = d /\ ~pending'[e].stale
    BY <1>2, <2>4, <2>10
  <2>. QED  BY <1>2, <2>5, <2>10, <2>11, <2>12, <2>13 DEF OnceInv
<1>. QED  BY <1>2, <1>3, <1>4 DEF StreamInv

LEMMA GrantXpStep == ASSUME StreamInv, NEW c \in Consumers, GrantXp(c) PROVE StreamInv'
<1>1. /\ WorkerAt(c, "xp") /\ Goto(c, "ack")
      /\ UNCHANGED <<stream, groupVars, live, used, dlq, visits, kind, before>>
      /\ \/ /\ xp' = [xp EXCEPT ![Current(c)] = @ + 1]
            /\ UNCHANGED <<faults, failed>>
         \/ /\ faults < MaxFaults /\ faults' = faults + 1
            /\ failed' = failed \cup {Current(c)} /\ UNCHANGED xp
  BY DEF GrantXp, Swallowed, Fault
<1>. USE <1>1 DEF groupVars, effectVars, historyVars
<1>0. Current(c) \in Events
  BY CurrentIn DEF StreamInv, BooksInv, WorkerAt
<1>0b. /\ visits \in [Events -> Nat] /\ xp \in [Events -> Nat] /\ MaxFaults \in Nat
       /\ faults \in 0..MaxFaults /\ failed \subseteq Events /\ dlq \subseteq Events
  BY DEF StreamInv, StreamTypeOK, StreamAssumption
<1>0a. /\ faults' \in 0..MaxFaults /\ failed \subseteq failed' /\ failed' \subseteq Events
       /\ visits' \in [Events -> Nat] /\ xp' \in [Events -> Nat]
  BY <1>0, <1>0b
<1>2. /\ StreamTypeOK' /\ BooksInv'
      /\ Current(c) \in Events /\ Current(c) \in worker[c].batch
      /\ \A d \in Consumers : worker[d].batch # {} => Current(d)' = Current(d)
      /\ \A e : Read(e)' <=> Read(e)
      /\ \A d \in Consumers : worker'[d].batch = worker[d].batch
      /\ \A d \in Consumers \ {c} : worker'[d] = worker[d]
      /\ worker'[c].pc = "ack"
  BY <1>0a, <1>0b, Stepping, "xp" \in Busy, "ack" \in Busy
<1>3. HandledInv'
  <2>1. /\ \A e \in Events : visits'[e] >= visits[e] /\ xp'[e] >= xp[e]
        /\ xp'[Current(c)] > 0 \/ Current(c) \in failed'
    BY <1>0, <1>0b
  <2>2. \A e \in Events : Handled(e) => Handled(e)'
    BY <1>0b, <2>1 DEF Handled
  <2>3. \A e \in Events : kind[e] = "critical" /\ Settled(e)' /\ e \notin before => Handled(e)'
    BY <1>2, <2>2 DEF StreamInv, HandledInv, Settled, IsPending
  <2>4. ASSUME NEW d \in Consumers \ {c}, worker[d].batch # {}, kind[Current(d)] = "critical"
        PROVE  /\ worker[d].pc = "xp" => visits'[Current(d)] > 0 \/ Current(d) \in failed'
               /\ worker[d].pc \in {"bury", "ack"} => Handled(Current(d))'
    <3>1. Current(d) \in Events /\ Current(d)' = Current(d)
      BY <1>2, <2>4, CurrentIn DEF StreamInv
    <3>2. /\ worker[d].pc = "xp" => visits[Current(d)] > 0 \/ Current(d) \in failed
          /\ worker[d].pc \in {"bury", "ack"} => Handled(Current(d))
      BY <2>4 DEF StreamInv, HandledInv
    <3>. QED  BY <1>0a, <1>0b, <2>1, <2>2, <3>1, <3>2 DEF Handled
  <2>5. kind[Current(c)] = "critical" =>
           /\ "ack" = "xp" => visits'[Current(c)] > 0 \/ Current(c) \in failed'
           /\ "ack" \in {"bury", "ack"} => Handled(Current(c))'
    BY <1>0a, <1>0b, <1>2, <2>1 DEF StreamInv, HandledInv, Handled, WorkerAt
  <2>. QED  BY <1>2, <2>3, <2>4, <2>5 DEF HandledInv
<1>4. OnceInv'
  <2>. SUFFICES ASSUME faults' = 0, used' = live' PROVE OnceInv'
    BY DEF OnceInv
  <2>1. \A e \in Events : IsPending(e) => pending[e].owner \in Consumers
    BY OwnerIs DEF StreamInv
  <2>2. \A e, d : d \in Consumers \ {c} => (InHand(e, d)' <=> InHand(e, d))
    BY <1>2 DEF InHand
  <2>3. faults = 0 /\ used = live /\ xp' = [xp EXCEPT ![Current(c)] = @ + 1] /\ visits' = visits
    BY <1>0b
  <2>4. /\ \A e \in Events :
             /\ visits[e] <= 1 /\ xp[e] <= 1
             /\ ~Read(e) => visits[e] = 0 /\ xp[e] = 0
             /\ IsPending(e) /\ ~InHand(e, pending[e].owner) => visits[e] = 0 /\ xp[e] = 0
             /\ IsPending(e) /\ worker[pending[e].owner].pc = "xp"
                   /\ InHand(e, pending[e].owner) => xp[e] = 0
        /\ \A d \in Consumers : \A e \in worker[d].batch :
             pending[e].owner = d /\ ~pending[e].stale
    BY <2>3 DEF StreamInv, OnceInv
  <2>5. Read(Current(c)) /\ IsPending(Current(c)) /\ pending[Current(c)].owner = c
        /\ InHand(Current(c), c)'
    BY <1>2, <2>4, CurrentIn, OwnerIs DEF StreamInv, InHand
  <2>6. xp[Current(c)] = 0 /\ ("xp" = "visits" => xp[Current(c)] = 0)
    BY <1>2, <2>4, <2>5 DEF WorkerAt, InHand
  <2>7. xp'[Current(c)] = 1 /\ \A e \in Events \ {Current(c)} : xp'[e] = xp[e]
    BY <1>0b, <1>2, <2>3, <2>6
  <2>8. \A e \in Events \ {Current(c)} : InHand(e, c)' => FALSE
    BY <1>2 DEF InHand
  <2>9. \A e \in Events \ {Current(c)} : ~InHand(e, c)
    BY DEF InHand
  <2>10. pending' = pending /\ \A e : IsPending(e)' <=> IsPending(e)
    BY DEF IsPending
  <2>11. ASSUME NEW e \in Events \ {Current(c)}
         PROVE  /\ visits'[e] <= 1 /\ xp'[e] <= 1
                /\ ~Read(e) => visits'[e] = 0 /\ xp'[e] = 0
                /\ IsPending(e) /\ ~InHand(e, pending[e].owner)' => visits'[e] = 0 /\ xp'[e] = 0
                /\ IsPending(e) /\ worker'[pending[e].owner].pc = "xp"
                      /\ InHand(e, pending[e].owner)' => xp'[e] = 0
    <3>1. visits'[e] = visits[e] /\ xp'[e] = xp[e]
      BY <2>3, <2>7
    <3>2. CASE IsPending(e) /\ pending[e].owner # c
      BY <1>2, <2>1, <2>2, <2>4, <3>1, <3>2
    <3>3. CASE IsPending(e) /\ pending[e].owner = c
      BY <2>4, <2>9, <3>1, <3>3
    <3>4. CASE ~IsPending(e)
      BY <2>4, <3>1, <3>4
    <3>. QED  BY <3>2, <3>3, <3>4
  <2>12. visits'[Current(c)] <= 1 /\ xp'[Current(c)] <= 1
         /\ (worker'[c].pc = "xp" => xp'[Current(c)] = 0)
    BY <1>2, <2>3, <2>4, <2>6, <2>7
  <2>13. \A d \in Consumers : \A e \in worker'[d].batch :
             pending'[e].owner = d /\ ~pending'[e].stale
    BY <1>2, <2>4, <2>10
  <2>. QED  BY <1>2, <2>5, <2>10, <2>11, <2>12, <2>13 DEF OnceInv
<1>. QED  BY <1>2, <1>3, <1>4 DEF StreamInv

\* A worker is through with the entry in its hand: it acknowledges it, which a critical event
\* has been handled for, or leaves it where it is, untouched unless a call has failed.
LEMMA Finishing ==
  ASSUME StreamInv, NEW c \in Consumers, NEW at \in Busy, WorkerAt(c, at), Advance(c, worker[c]),
         NEW mine, mine = Current(c),
         UNCHANGED <<stream, cursor, live, used, visits, xp, kind, before>>,
         dlq \subseteq dlq', dlq' \subseteq Events, failed \subseteq failed', failed' \subseteq Events,
         faults' \in 0..MaxFaults, faults' = 0 => faults = 0,
         \/ Acknowledge(mine) /\ (kind[mine] = "critical" => Handled(mine)')
         \/ pending' = pending /\ (at = "take" \/ faults' # 0)
  PROVE  StreamInv'
<1>1. worker[c].batch # {} /\ c \in live /\ worker[c].pc = at
  BY DEF StreamInv, BooksInv, WorkerAt
<1>2. /\ worker' \in [Consumers -> WorkerState]
      /\ \A d \in Consumers \ {c} : worker'[d] = worker[d]
      /\ worker'[c].batch = worker[c].batch \ {mine}
      /\ worker'[c].pc \in {"take", "read", "start"}
      /\ worker'[c].pc = "take" <=> worker'[c].batch # {}
  BY <1>1, AdvanceTo DEF StreamInv
<1>3. mine \in worker[c].batch /\ mine \in Events /\ Read(mine)
  BY <1>1, CurrentIn DEF StreamInv
<1>4. /\ pending' \in [Events -> Entry \cup {NotThere}]
      /\ \A e \in Events \ {mine} : pending'[e] = pending[e]
      /\ \A e \in Events : IsPending(e)' => IsPending(e) /\ pending'[e] = pending[e]
  <2>1. pending \in [Events -> Entry \cup {NotThere}]
    BY DEF StreamInv, StreamTypeOK
  <2>. QED  BY <1>3, <2>1 DEF Acknowledge, IsPending, NotThere
<1>5. StreamTypeOK'
  BY <1>2, <1>4 DEF StreamInv, StreamTypeOK
<1>6. BooksInv'
  BY <1>1, <1>2, <1>4, BooksKept DEF StreamInv
<1>7. \A e : Read(e)' <=> Read(e)
  BY ReadKept
<1>8. \A d \in Consumers \ {c} : worker[d].batch # {} => Current(d)' = Current(d)
  BY <1>2, CurrentKept DEF StreamInv
<1>9. HandledInv'
  <2>1. \A e \in Events : Handled(e) => Handled(e)'
    BY DEF Handled
  <2>2. ASSUME NEW e \in Events, kind[e] = "critical", Settled(e)', e \notin before
        PROVE  Handled(e)'
    <3>1. CASE Settled(e)
      BY <2>1, <2>2, <3>1 DEF StreamInv, HandledInv
    <3>2. CASE ~Settled(e)
      <4>1. IsPending(e) /\ ~IsPending(e)'
        BY <1>7, <2>2, <3>2 DEF Settled
      <4>2. e = mine /\ pending' # pending
        BY <1>4, <4>1 DEF IsPending
      <4>. QED  BY <2>2, <4>2
    <3>. QED  BY <3>1, <3>2
  <2>3. ASSUME NEW d \in Consumers, worker'[d].batch # {}, kind[Current(d)'] = "critical"
        PROVE  /\ worker'[d].pc = "xp" => visits[Current(d)'] > 0 \/ Current(d)' \in failed'
               /\ worker'[d].pc \in {"bury", "ack"} => Handled(Current(d))'
    <3>1. CASE d = c
      BY <1>2, <3>1
    <3>2. CASE d # c
      <4>1. worker'[d] = worker[d] /\ Current(d)' = Current(d) /\ Current(d) \in Events
        BY <1>2, <1>8, <2>3, <3>2, CurrentIn DEF StreamInv
      <4>2. /\ worker[d].pc = "xp" => visits[Current(d)] > 0 \/ Current(d) \in failed
            /\ worker[d].pc \in {"bury", "ack"} => Handled(Current(d))
        BY <2>3, <4>1 DEF StreamInv, HandledInv
      <4>. QED  BY <4>1, <4>2 DEF Handled
    <3>. QED  BY <3>1, <3>2
  <2>. QED  BY <2>2, <2>3 DEF HandledInv
<1>10. OnceInv'
  <2>. SUFFICES ASSUME faults' = 0, used' = live' PROVE OnceInv'
    BY DEF OnceInv
  <2>1. /\ \A e \in Events :
             /\ visits[e] <= 1 /\ xp[e] <= 1
             /\ ~Read(e) => visits[e] = 0 /\ xp[e] = 0
             /\ IsPending(e) /\ ~InHand(e, pending[e].owner) => visits[e] = 0 /\ xp[e] = 0
             /\ IsPending(e) /\ worker[pending[e].owner].pc = "xp"
                   /\ InHand(e, pending[e].owner) => xp[e] = 0
        /\ \A d \in Consumers : \A e \in worker[d].batch :
             pending[e].owner = d /\ ~pending[e].stale
    BY DEF StreamInv, OnceInv
  <2>2. \A e \in Events : IsPending(e) => pending[e].owner \in Consumers
    BY OwnerIs DEF StreamInv
  <2>3. \A e, d : d \in Consumers \ {c} => (InHand(e, d)' <=> InHand(e, d))
    BY <1>2, <1>8 DEF InHand
  <2>4. \A e : ~InHand(e, c)'
    BY <1>2 DEF InHand
  <2>5. ASSUME NEW e \in Events, IsPending(e)', NEW d, d = pending'[e].owner
        PROVE  /\ ~InHand(e, d)' => visits[e] = 0 /\ xp[e] = 0
               /\ worker'[d].pc = "xp" /\ InHand(e, d)' => xp[e] = 0
    <3>1. IsPending(e) /\ pending[e].owner = d /\ d \in Consumers
      BY <1>4, <2>2, <2>5
    <3>2. CASE d # c
      <4>1. worker'[d] = worker[d] /\ (InHand(e, d)' <=> InHand(e, d))
        BY <1>2, <2>3, <3>1, <3>2
      <4>. QED  BY <2>1, <3>1, <4>1
    <3>3. CASE d = c /\ e # mine
      BY <2>1, <2>4, <3>1, <3>3 DEF InHand
    <3>4. CASE e = mine /\ d = c
      <4>1. at = "take"
        BY <1>3, <1>4, <2>5, <3>1, <3>4 DEF Acknowledge, IsPending, NotThere, StreamInv, StreamTypeOK
      <4>. QED  BY <1>1, <1>3, <2>1, <2>4, <3>1, <3>4, <4>1 DEF InHand
    <3>. QED  BY <3>2, <3>3, <3>4
  <2>6. ASSUME NEW d \in Consumers, NEW e \in worker'[d].batch
        PROVE  pending'[e].owner = d /\ ~pending'[e].stale
    <3>1. e \in worker[d].batch /\ pending[e].owner = d /\ ~pending[e].stale /\ e \in Events
      BY <1>2, <2>1, Typed DEF StreamInv
    <3>2. e # mine
      BY <1>2, <1>3, <2>1, <3>1
    <3>. QED  BY <1>4, <3>1, <3>2
  <2>7. \A e \in Events :
          /\ (IsPending(e) /\ ~InHand(e, pending[e].owner) => visits[e] = 0 /\ xp[e] = 0)'
          /\ (IsPending(e) /\ worker[pending[e].owner].pc = "xp"
                /\ InHand(e, pending[e].owner) => xp[e] = 0)'
    BY <2>5
  <2>. QED  BY <1>7, <2>1, <2>6, <2>7 DEF OnceInv
<1>. QED  BY <1>5, <1>6, <1>9, <1>10 DEF StreamInv

LEMMA Counts == ASSUME StreamInv PROVE faults \in 0..MaxFaults /\ MaxFaults \in Nat
  BY DEF StreamInv, StreamTypeOK, StreamAssumption

LEMMA Sets == ASSUME StreamInv PROVE dlq \subseteq Events /\ failed \subseteq Events
  BY DEF StreamInv, StreamTypeOK

LEMMA InHandIn == ASSUME StreamInv, NEW c \in Consumers, NEW at \in Busy, WorkerAt(c, at)
                  PROVE  Current(c) \in Events /\ worker[c].batch # {}
<1>1. worker[c].batch # {}
  BY DEF StreamInv, BooksInv, WorkerAt
<1>. QED  BY <1>1, CurrentIn DEF StreamInv

LEMMA DeadLetterStep == ASSUME StreamInv, NEW c \in Consumers, DeadLetter(c) PROVE StreamInv'
<1>1. /\ WorkerAt(c, "take") /\ Goto(c, "bury")
      /\ UNCHANGED <<stream, groupVars, live, used, effectVars, kind, before>>
      /\ \/ dlq' = dlq \cup {Current(c)} /\ UNCHANGED <<faults, failed>>
         \/ /\ faults < MaxFaults /\ faults' = faults + 1
            /\ failed' = failed \cup {Current(c)} /\ UNCHANGED dlq
  BY DEF DeadLetter, Swallowed, Fault
<1>. USE <1>1 DEF groupVars, effectVars
<1>2. Current(c) \in Events
  BY InHandIn
<1>3. /\ dlq \subseteq dlq' /\ dlq' \subseteq Events
      /\ failed \subseteq failed' /\ failed' \subseteq Events
      /\ faults' \in 0..MaxFaults /\ (faults' = 0 => faults = 0)
      /\ Current(c) \in dlq' \cup failed'
  BY <1>2, Counts, Sets
<1>4. /\ StreamTypeOK' /\ BooksInv'
      /\ Current(c) \in worker[c].batch
      /\ \A d \in Consumers : worker[d].batch # {} => Current(d)' = Current(d)
      /\ \A e : Read(e)' <=> Read(e)
      /\ \A d \in Consumers : worker'[d].batch = worker[d].batch
      /\ \A d \in Consumers \ {c} : worker'[d] = worker[d]
      /\ worker'[c].pc = "bury"
  BY <1>3, Stepping, "take" \in Busy, "bury" \in Busy DEF StreamInv, StreamTypeOK
<1>5. HandledInv'
  BY <1>3, <1>4 DEF StreamInv, HandledInv, Handled, Settled, IsPending
<1>6. OnceInv'
  <2>1. \A e \in Events : IsPending(e) => pending[e].owner \in Consumers
    BY OwnerIs DEF StreamInv
  <2>2. \A e, d : InHand(e, d) /\ d \in Consumers \ {c} => InHand(e, d)'
    BY <1>4 DEF InHand
  <2>. QED  BY <1>3, <1>4, <2>1, <2>2 DEF StreamInv, OnceInv, InHand, IsPending, WorkerAt
<1>. QED  BY <1>4, <1>5, <1>6 DEF StreamInv

LEMMA BuryStep == ASSUME StreamInv, NEW c \in Consumers, Bury(c) PROVE StreamInv'
<1>. PICK e : e = Current(c)
  OBVIOUS
<1>1. WorkerAt(c, "bury") /\ Acknowledge(e) /\ Advance(c, worker[c])
      /\ UNCHANGED <<stream, cursor, live, used, visits, xp, kind, before, dlq, faults, failed>>
  BY DEF Bury, effectVars, historyVars
<1>2. e \in Events /\ worker[c].batch # {}
  BY <1>1, InHandIn
<1>3. kind[e] = "critical" => Handled(e)'
  BY <1>1, <1>2 DEF StreamInv, HandledInv, Handled, WorkerAt
<1>. QED  BY <1>1, <1>3, Counts, Sets, Finishing

\* The worker drops what is left of its batch, which stays pending: a call has failed.
LEMMA BuryFailsStep == ASSUME StreamInv, NEW c \in Consumers, BuryFails(c) PROVE StreamInv'
<1>1. /\ c \in live /\ worker' = [worker EXCEPT ![c] = Fresh]
      /\ faults < MaxFaults /\ faults' = faults + 1
      /\ stream' = stream /\ cursor' = cursor /\ pending' = pending /\ used' = used
      /\ dlq' = dlq /\ live' = live /\ visits' = visits /\ xp' = xp
      /\ kind' = kind /\ failed' = failed /\ before' = before
  BY DEF BuryFails, Fault, WorkerAt, groupVars, effectVars, historyVars
<1>. USE <1>1
<1>2. /\ worker' \in [Consumers -> WorkerState] /\ worker'[c] = Fresh
      /\ \A d \in Consumers \ {c} : worker'[d] = worker[d]
  BY Typed DEF StreamInv, WorkerState, Fresh
<1>3. StreamTypeOK' /\ faults' # 0
  BY <1>2, Counts DEF StreamInv, StreamTypeOK
<1>4. /\ \A x : (Read(x)' <=> Read(x)) /\ (Appended(x)' <=> Appended(x))
      /\ \A x : IsPending(x)' <=> IsPending(x)
      /\ \A d \in Consumers \ {c} : Current(d)' = Current(d)
  BY <1>2 DEF Read, Appended, Current, Oldest, IsPending
<1>5. BooksInv'
  BY <1>2, <1>4 DEF StreamInv, BooksInv, Fresh
<1>6. HandledInv'
  BY <1>2, <1>4 DEF StreamInv, HandledInv, Handled, Settled, Fresh
<1>7. OnceInv'
  BY <1>3 DEF OnceInv
<1>. QED  BY <1>3, <1>5, <1>6, <1>7 DEF StreamInv

LEMMA RefuseStep == ASSUME StreamInv, NEW c \in Consumers, Refuse(c) PROVE StreamInv'
<1>1. WorkerAt(c, "take") /\ Advance(c, worker[c])
      /\ UNCHANGED <<stream, groupVars, live, used, dlq, faults, effectVars, historyVars>>
  BY DEF Refuse
<1>. QED  BY <1>1, Counts, Sets, Finishing DEF groupVars, effectVars, historyVars

LEMMA AckStep == ASSUME StreamInv, NEW c \in Consumers, Ack(c) PROVE StreamInv'
<1>. PICK e : e = Current(c)
  OBVIOUS
<1>1. WorkerAt(c, "ack") /\ Acknowledge(e) /\ Advance(c, worker[c])
      /\ UNCHANGED <<stream, cursor, live, used, visits, xp, kind, before, dlq, faults, failed>>
  BY DEF Ack, effectVars, historyVars
<1>2. e \in Events /\ worker[c].batch # {}
  BY <1>1, InHandIn
<1>3. kind[e] = "critical" => Handled(e)'
  BY <1>1, <1>2 DEF StreamInv, HandledInv, Handled, WorkerAt
<1>. QED  BY <1>1, <1>3, Counts, Sets, Finishing

LEMMA AckFailsStep == ASSUME StreamInv, NEW c \in Consumers, AckFails(c) PROVE StreamInv'
<1>1. WorkerAt(c, "ack") /\ Advance(c, worker[c])
      /\ faults < MaxFaults /\ faults' = faults + 1
      /\ UNCHANGED <<stream, cursor, pending, live, used, visits, xp, kind, before, dlq, failed>>
  BY DEF AckFails, Fault, groupVars, effectVars, historyVars
<1>. QED  BY <1>1, Counts, Sets, Finishing

\* What is due of the fields of an entry that is, or becomes, nobody's current one.
LEMMA Owed ==
  ASSUME StreamInv, faults = 0, used = live
  PROVE  /\ \A e \in Events :
             /\ visits[e] <= 1 /\ xp[e] <= 1
             /\ ~Read(e) => visits[e] = 0 /\ xp[e] = 0
             /\ IsPending(e) /\ ~InHand(e, pending[e].owner) => visits[e] = 0 /\ xp[e] = 0
             /\ IsPending(e) /\ worker[pending[e].owner].pc = "xp"
                   /\ InHand(e, pending[e].owner) => xp[e] = 0
         /\ \A d \in Consumers : \A e \in worker[d].batch :
             pending[e].owner = d /\ ~pending[e].stale
  BY DEF StreamInv, OnceInv

\* A minute goes by for an entry, and a worker that still has it is slow, which is a fault.
LEMMA Staling ==
  ASSUME StreamInv, NEW e \in Events, IsPending(e),
         pending' = [pending EXCEPT ![e].stale = TRUE],
         UNCHANGED <<stream, cursor, worker, live, used, dlq, effectVars, historyVars>>,
         faults' \in 0..MaxFaults, faults' = 0 => faults = 0 /\ Abandoned(e)
  PROVE  StreamInv'
<1>. USE DEF effectVars, historyVars
<1>1. /\ pending' \in [Events -> Entry \cup {NotThere}]
      /\ \A x \in Events \ {e} : pending'[x] = pending[x]
      /\ \A x \in Events : pending'[x].owner = pending[x].owner
  <2>1. pending \in [Events -> Entry \cup {NotThere}] /\ pending[e] \in Entry
    BY DEF StreamInv, StreamTypeOK, IsPending, NotThere
  <2>. QED  BY <2>1 DEF Entry
<1>2. StreamTypeOK'
  BY <1>1 DEF StreamInv, StreamTypeOK
<1>3. \A x \in Events : IsPending(x)' <=> IsPending(x)
  BY <1>1 DEF IsPending
<1>4. /\ \A x : (Read(x)' <=> Read(x)) /\ (Appended(x)' <=> Appended(x))
      /\ \A x, d : InHand(x, d)' <=> InHand(x, d)
      /\ \A d : Current(d)' = Current(d)
  BY DEF Read, Appended, InHand, Current, Oldest
<1>5. BooksInv'
  BY <1>3, <1>4 DEF StreamInv, BooksInv
<1>6. HandledInv'
  BY <1>3, <1>4 DEF StreamInv, HandledInv, Handled, Settled
<1>7. OnceInv'
  <2>. SUFFICES ASSUME faults' = 0, used' = live' PROVE OnceInv'
    BY DEF OnceInv
  <2>1. \A x \in Events :
             /\ visits[x] <= 1 /\ xp[x] <= 1
             /\ ~Read(x) => visits[x] = 0 /\ xp[x] = 0
             /\ IsPending(x) /\ ~InHand(x, pending[x].owner) => visits[x] = 0 /\ xp[x] = 0
             /\ IsPending(x) /\ worker[pending[x].owner].pc = "xp"
                   /\ InHand(x, pending[x].owner) => xp[x] = 0
    BY Owed
  <2>2. ASSUME NEW d \in Consumers, NEW x \in worker[d].batch
        PROVE  pending'[x].owner = d /\ ~pending'[x].stale
    <3>1. pending[x].owner = d /\ ~pending[x].stale /\ x \in Events /\ d \in live
      BY Owed, Typed DEF StreamInv, BooksInv, Fresh
    <3>2. x # e
      BY <3>1 DEF Abandoned
    <3>. QED  BY <1>1, <3>1, <3>2
  <2>3. ASSUME NEW x \in Events, NEW d, d = pending'[x].owner, IsPending(x)'
        PROVE  /\ ~InHand(x, d)' => visits[x] = 0 /\ xp[x] = 0
               /\ worker[d].pc = "xp" /\ InHand(x, d)' => xp[x] = 0
    BY <1>1, <1>3, <1>4, <2>1, <2>3
  <2>4. \A x \in Events :
          /\ (IsPending(x) /\ ~InHand(x, pending[x].owner) => visits[x] = 0 /\ xp[x] = 0)'
          /\ (IsPending(x) /\ worker[pending[x].owner].pc = "xp"
                /\ InHand(x, pending[x].owner) => xp[x] = 0)'
    BY <2>3
  <2>. QED  BY <1>4, <2>1, <2>2, <2>4 DEF OnceInv
<1>. QED  BY <1>2, <1>5, <1>6, <1>7 DEF StreamInv

LEMMA GoStaleStep == ASSUME StreamInv, NEW e \in Events, GoStale(e) PROVE StreamInv'
  BY Staling, Counts DEF GoStale

LEMMA LagStep == ASSUME StreamInv, NEW e \in Events, Lag(e) PROVE StreamInv'
<1>1. /\ IsPending(e) /\ pending' = [pending EXCEPT ![e].stale = TRUE]
      /\ UNCHANGED <<stream, cursor, worker, live, used, dlq, effectVars, historyVars>>
      /\ faults < MaxFaults /\ faults' = faults + 1
  BY DEF Lag, Fault
<1>2. faults' \in 0..MaxFaults /\ faults' # 0
  BY <1>1, Counts
<1>. QED  BY <1>1, <1>2, Staling

\* A worker starts, under a name nobody has had.
LEMMA StartStep == ASSUME StreamInv, NEW c \in Consumers, Start(c) PROVE StreamInv'
<1>1. /\ used = 1..(c - 1) /\ live' = live \cup {c} /\ used' = used \cup {c}
      /\ stream' = stream /\ cursor' = cursor /\ pending' = pending /\ worker' = worker
      /\ dlq' = dlq /\ faults' = faults /\ visits' = visits /\ xp' = xp
      /\ kind' = kind /\ failed' = failed /\ before' = before
  BY DEF Start, groupVars, effectVars, historyVars
<1>. USE <1>1
<1>2. c \notin used /\ live \subseteq used
  BY DEF StreamInv, StreamTypeOK
<1>3. StreamTypeOK'
  BY DEF StreamInv, StreamTypeOK
<1>4. /\ \A x : (Read(x)' <=> Read(x)) /\ (Appended(x)' <=> Appended(x))
      /\ \A x : IsPending(x)' <=> IsPending(x)
      /\ \A x, d : InHand(x, d)' <=> InHand(x, d)
      /\ \A d : Current(d)' = Current(d)
  BY DEF Read, Appended, InHand, Current, Oldest, IsPending
<1>5. BooksInv'
  BY <1>4 DEF StreamInv, BooksInv
<1>6. HandledInv'
  BY <1>4 DEF StreamInv, HandledInv, Handled, Settled
<1>7. OnceInv'
  <2>1. used' = live' => used = live
    BY <1>2
  <2>. QED  BY <1>4, <2>1 DEF StreamInv, OnceInv
<1>. QED  BY <1>3, <1>5, <1>6, <1>7 DEF StreamInv

\* A worker dies, and its name stays taken.
LEMMA CrashStep == ASSUME StreamInv, NEW c \in Consumers, Crash(c) PROVE StreamInv'
<1>1. /\ c \in live /\ live' = live \ {c} /\ worker' = [worker EXCEPT ![c] = Fresh]
      /\ stream' = stream /\ cursor' = cursor /\ pending' = pending /\ used' = used
      /\ dlq' = dlq /\ faults' = faults /\ visits' = visits /\ xp' = xp
      /\ kind' = kind /\ failed' = failed /\ before' = before
  BY DEF Crash, groupVars, effectVars, historyVars
<1>. USE <1>1
<1>2. /\ worker' \in [Consumers -> WorkerState] /\ worker'[c] = Fresh
      /\ \A d \in Consumers \ {c} : worker'[d] = worker[d]
  BY Typed DEF StreamInv, WorkerState, Fresh
<1>3. StreamTypeOK'
  BY <1>2 DEF StreamInv, StreamTypeOK
<1>4. /\ \A x : (Read(x)' <=> Read(x)) /\ (Appended(x)' <=> Appended(x))
      /\ \A x : IsPending(x)' <=> IsPending(x)
      /\ \A d \in Consumers \ {c} : Current(d)' = Current(d)
  BY <1>2 DEF Read, Appended, Current, Oldest, IsPending
<1>5. BooksInv'
  BY <1>2, <1>4 DEF StreamInv, BooksInv, Fresh
<1>6. HandledInv'
  BY <1>2, <1>4 DEF StreamInv, HandledInv, Handled, Settled, Fresh
<1>7. OnceInv'
  BY DEF StreamInv, StreamTypeOK, OnceInv
<1>. QED  BY <1>3, <1>5, <1>6, <1>7 DEF StreamInv

\* The API appends an event: nobody has read it.
LEMMA EmitStep == ASSUME StreamInv, NEW e \in Events, Emit(e) PROVE StreamInv'
<1>1. /\ ~Appended(e) /\ stream' = Append(stream, e)
      /\ before' = IF cursor = -1 THEN before \cup {e} ELSE before
      /\ cursor' = cursor /\ pending' = pending /\ worker' = worker /\ live' = live
      /\ used' = used /\ dlq' = dlq /\ faults' = faults /\ visits' = visits /\ xp' = xp
      /\ kind' = kind /\ failed' = failed
  BY DEF Emit, groupVars, effectVars
<1>2. stream \in Seq(Events) /\ Len(stream) \in Nat /\ cursor \in -1..Len(stream)
  BY Cursor DEF StreamInv
<1>3. /\ stream' \in Seq(Events) /\ Len(stream') = Len(stream) + 1 /\ stream'[Len(stream) + 1] = e
      /\ \A i \in 1..Len(stream) : stream'[i] = stream[i]
  BY <1>1, <1>2
<1>4. StreamTypeOK'
  BY <1>1, <1>3 DEF StreamInv, StreamTypeOK
<1>5. /\ \A x : Read(x)' <=> Read(x)
      /\ \A x : Appended(x)' => Appended(x) \/ x = e
      /\ \A x : IsPending(x)' <=> IsPending(x)
  <2>1. \A x : Read(x)' <=> Read(x)
    <3>1. cursor' = cursor /\ \A i \in 1..cursor : stream'[i] = stream[i]
      BY <1>1, <1>2, <1>3
    <3>. QED  BY <3>1 DEF Read
  <2>2. \A x : Appended(x)' => Appended(x) \/ x = e
    <3>1. \A i \in 1..Len(stream') : i \in 1..Len(stream) \/ i = Len(stream) + 1
      BY <1>2, <1>3
    <3>. QED  BY <1>3, <3>1 DEF Appended
  <2>. QED  BY <1>1, <2>1, <2>2 DEF IsPending
<1>6. \A i, j \in 1..Len(stream') : stream'[i] = stream'[j] => i = j
  <2>1. \A i \in 1..Len(stream) : stream[i] # e
    BY <1>1 DEF Appended
  <2>2. \A i, j \in 1..Len(stream) : stream[i] = stream[j] => i = j
    BY DEF StreamInv, BooksInv
  <2>. QED  BY <1>2, <1>3, <2>1, <2>2
<1>7. BooksInv'
  <2>1. cursor' <= Len(stream')
    <3>1. Len(stream') = Len(stream) + 1 /\ cursor' = cursor
      BY <1>1, <1>3
    <3>. QED  BY <1>2, <3>1
  <2>2. cursor' = -1 => \A x \in Events : Appended(x)' => x \in before'
    BY <1>1, <1>5 DEF StreamInv, BooksInv
  <2>3. /\ \A d \in Consumers \ live' : worker'[d] = Fresh
        /\ \A d \in Consumers : worker'[d].pc \in Busy <=> worker'[d].batch # {}
        /\ \A d \in Consumers : worker'[d].pc \in {"reclaim", "read"} => cursor' >= 0
        /\ \A d \in Consumers : \A x \in worker'[d].batch : Read(x)'
        /\ \A x \in Events : IsPending(x)' => Read(x)'
    BY <1>1, <1>5 DEF StreamInv, BooksInv
  <2>. QED  BY <1>6, <2>1, <2>2, <2>3 DEF BooksInv
<1>8. \A d \in Consumers : worker[d].batch # {} => Current(d)' = Current(d)
  BY <1>1, CurrentKept DEF StreamInv
<1>9. HandledInv'
  BY <1>1, <1>5, <1>8 DEF StreamInv, HandledInv, Handled, Settled
<1>10. OnceInv'
  <2>1. \A x, d : d \in Consumers => (InHand(x, d)' <=> InHand(x, d))
    BY <1>1, <1>8 DEF InHand
  <2>2. \A x \in Events : IsPending(x) => pending[x].owner \in Consumers
    BY OwnerIs DEF StreamInv
  <2>. QED  BY <1>1, <1>5, <2>1, <2>2 DEF StreamInv, OnceInv
<1>. QED  BY <1>4, <1>7, <1>9, <1>10 DEF StreamInv


\* The group comes to be at the end of the stream, or is there already.
LEMMA EnsureGroupStep == ASSUME StreamInv, NEW c \in Consumers, EnsureGroup(c) PROVE StreamInv'
<1>1. /\ c \in live /\ worker[c].pc = "start" /\ Goto(c, "reclaim")
      /\ cursor' = IF cursor = -1 THEN Len(stream) ELSE cursor
      /\ stream' = stream /\ live' = live /\ pending' = pending /\ used' = used
      /\ dlq' = dlq /\ faults' = faults /\ visits' = visits /\ xp' = xp
      /\ kind' = kind /\ failed' = failed /\ before' = before
  BY DEF EnsureGroup, WorkerAt, effectVars, historyVars
<1>2. /\ worker' \in [Consumers -> WorkerState]
      /\ \A d \in Consumers \ {c} : worker'[d] = worker[d]
      /\ worker'[c].batch = worker[c].batch
      /\ worker'[c].pc = "reclaim"
  BY <1>1, GoneTo DEF StreamInv
<1>3. stream \in Seq(Events) /\ Len(stream) \in Nat /\ cursor \in -1..Len(stream)
  BY Cursor DEF StreamInv
<1>4. /\ cursor' \in 0..Len(stream)
      /\ \A x : Read(x) => Read(x)'
      /\ \A x \in Events : Read(x)' => Read(x) \/ x \in before
  <2>1. cursor' \in 0..Len(stream)
    BY <1>1, <1>3
  <2>2. \A x : Read(x) => Read(x)'
    BY <1>1, <1>3 DEF Read
  <2>3. CASE cursor = -1
    <3>1. \A x \in Events : Appended(x) => x \in before
      BY <2>3 DEF StreamInv, BooksInv
    <3>2. \A x : Read(x)' => Appended(x)
      BY <1>1, <2>3 DEF Read, Appended
    <3>. QED  BY <2>1, <2>2, <3>1, <3>2
  <2>4. CASE cursor # -1
    BY <1>1, <2>1, <2>2, <2>4 DEF Read
  <2>. QED  BY <2>3, <2>4
<1>5. StreamTypeOK'
  BY <1>1, <1>2, <1>3, <1>4 DEF StreamInv, StreamTypeOK
<1>6. /\ \A x : (Appended(x)' <=> Appended(x)) /\ (IsPending(x)' <=> IsPending(x))
      /\ \A d \in Consumers : Current(d)' = Current(d)
      /\ \A d \in Consumers : worker'[d].batch = worker[d].batch
      /\ worker[c].batch = {}
  BY <1>1, <1>2 DEF Appended, Current, Oldest, IsPending, StreamInv, BooksInv
<1>7. BooksInv'
  <2>1. /\ cursor' <= Len(stream') /\ cursor' >= 0 /\ cursor' # -1
        /\ \A i, j \in 1..Len(stream') : stream'[i] = stream'[j] => i = j
    BY <1>1, <1>3, <1>4 DEF StreamInv, BooksInv
  <2>2. /\ \A d \in Consumers \ live' : worker'[d] = Fresh
        /\ \A d \in Consumers : worker'[d].pc \in Busy <=> worker'[d].batch # {}
        /\ \A d \in Consumers : \A e \in worker'[d].batch : Read(e)'
        /\ \A e \in Events : IsPending(e)' => Read(e)'
    BY <1>1, <1>2, <1>4, <1>6 DEF StreamInv, BooksInv
  <2>. QED  BY <2>1, <2>2 DEF BooksInv
<1>8. HandledInv'
  <2>1. \A x : Handled(x)' <=> Handled(x)
    BY <1>1 DEF Handled
  <2>2. \A x \in Events : Settled(x)' /\ x \notin before => Settled(x)
    BY <1>4, <1>6 DEF Settled
  <2>3. ASSUME NEW d \in Consumers, worker'[d].batch # {}, kind[Current(d)] = "critical"
        PROVE  /\ worker'[d].pc = "xp" => visits[Current(d)] > 0 \/ Current(d) \in failed
               /\ worker'[d].pc \in {"bury", "ack"} => Handled(Current(d))
    BY <1>2, <1>6, <2>3 DEF StreamInv, HandledInv
  <2>. QED  BY <1>1, <1>6, <2>1, <2>2, <2>3 DEF StreamInv, HandledInv
<1>9. OnceInv'
  <2>1. \A x, d : d \in Consumers => (InHand(x, d)' <=> InHand(x, d))
    BY <1>2, <1>6 DEF InHand
  <2>2. \A x \in Events : IsPending(x) => pending[x].owner \in Consumers
    BY OwnerIs DEF StreamInv
  <2>3. \A x : ~InHand(x, c)
    BY <1>6 DEF InHand
  <2>. QED  BY <1>1, <1>2, <1>4, <1>6, <2>1, <2>2, <2>3 DEF StreamInv, OnceInv
<1>. QED  BY <1>5, <1>7, <1>8, <1>9 DEF StreamInv

\* Stale entries change hands: nobody is at work on one unless a worker was slow.
LEMMA ReclaimStep == ASSUME StreamInv, NEW c \in Consumers, Reclaim(c) PROVE StreamInv'
<1>. DEFINE mine == Claimable(c)
<1>1. /\ c \in live /\ worker[c].pc = "reclaim"
      /\ pending' = [e \in Events |->
              IF e \in mine THEN [owner |-> c, times |-> pending[e].times + 1, stale |-> FALSE]
              ELSE pending[e]]
      /\ worker' = [worker EXCEPT ![c] =
              IF mine = {} THEN [Fresh EXCEPT !.pc = "read"]
              ELSE [pc |-> "take", reclaiming |-> TRUE, batch |-> mine]]
      /\ stream' = stream /\ live' = live /\ cursor' = cursor /\ used' = used
      /\ dlq' = dlq /\ faults' = faults /\ visits' = visits /\ xp' = xp
      /\ kind' = kind /\ failed' = failed /\ before' = before
  BY DEF Reclaim, WorkerAt, effectVars, historyVars
<1>2. \A e \in mine : e \in Events /\ IsPending(e) /\ pending[e].stale /\ pending[e].owner # c
  BY DEF Claimable, Outstanding
<1>3. /\ pending \in [Events -> Entry \cup {NotThere}]
      /\ \A e \in mine : pending[e] \in Entry
  BY <1>2 DEF StreamInv, StreamTypeOK, IsPending, NotThere
<1>4. mine \subseteq Events
  BY <1>2
<1>. HIDE DEF mine
<1>5. /\ worker' \in [Consumers -> WorkerState]
      /\ \A d \in Consumers \ {c} : worker'[d] = worker[d]
      /\ worker'[c].batch = mine
      /\ worker'[c].pc \in {"take", "read"} /\ (worker'[c].pc = "take" <=> mine # {})
  <2>1. worker \in [Consumers -> WorkerState]
    BY Typed DEF StreamInv
  <2>. QED  BY <1>1, <1>4, <2>1 DEF WorkerState, Fresh
<1>6. /\ pending' \in [Events -> Entry \cup {NotThere}]
      /\ \A e \in Events \ mine : pending'[e] = pending[e]
      /\ \A e \in mine : pending'[e].owner = c /\ ~pending'[e].stale
      /\ \A e \in Events : IsPending(e)' <=> IsPending(e)
  <2>1. \A e \in mine : [owner |-> c, times |-> pending[e].times + 1, stale |-> FALSE] \in Entry
    BY <1>3 DEF Entry
  <2>2. \A e \in mine : pending'[e].owner = c /\ c # Nobody /\ ~pending'[e].stale
    BY <1>1, <1>4
  <2>. QED  BY <1>1, <1>2, <1>3, <1>4, <2>1, <2>2 DEF IsPending
<1>7. StreamTypeOK'
  BY <1>1, <1>5, <1>6 DEF StreamInv, StreamTypeOK
<1>8. /\ \A x : (Appended(x)' <=> Appended(x)) /\ (Read(x)' <=> Read(x))
      /\ \A d \in Consumers \ {c} : Current(d)' = Current(d)
      /\ cursor >= 0
  BY <1>1, <1>5 DEF Appended, Read, Current, Oldest, StreamInv, BooksInv
<1>9. BooksInv'
  <2>1. \A e \in mine : Read(e)
    BY <1>2 DEF StreamInv, BooksInv
  <2>. QED  BY <1>1, <1>5, <1>6, <1>8, <2>1 DEF StreamInv, BooksInv
<1>10. HandledInv'
  BY <1>1, <1>5, <1>6, <1>8 DEF StreamInv, HandledInv, Handled, Settled
<1>11. OnceInv'
  <2>. SUFFICES ASSUME faults' = 0, used' = live' PROVE OnceInv'
    BY DEF OnceInv
  <2>1. /\ \A e \in Events :
             /\ visits[e] <= 1 /\ xp[e] <= 1
             /\ ~Read(e) => visits[e] = 0 /\ xp[e] = 0
             /\ IsPending(e) /\ ~InHand(e, pending[e].owner) => visits[e] = 0 /\ xp[e] = 0
             /\ IsPending(e) /\ worker[pending[e].owner].pc = "xp"
                   /\ InHand(e, pending[e].owner) => xp[e] = 0
        /\ \A d \in Consumers : \A e \in worker[d].batch :
             pending[e].owner = d /\ ~pending[e].stale
    BY <1>1, Owed
  <2>2. \A d \in Consumers : worker[d].batch \subseteq Events \ mine
    BY <1>2, <2>1, Typed DEF StreamInv
  <2>3. ASSUME NEW d \in Consumers, NEW e \in worker'[d].batch
        PROVE  pending'[e].owner = d /\ ~pending'[e].stale
    BY <1>5, <1>6, <2>1, <2>2, <2>3
  <2>4. ASSUME NEW e \in Events, NEW d, d = pending'[e].owner, IsPending(e)'
        PROVE  /\ ~InHand(e, d)' => visits[e] = 0 /\ xp[e] = 0
               /\ worker'[d].pc = "xp" /\ InHand(e, d)' => xp[e] = 0
    <3>1. CASE e \in mine
      <4>1. IsPending(e) /\ pending[e].owner \in Consumers
        BY <1>2, <3>1, OwnerIs DEF StreamInv
      <4>2. ~InHand(e, pending[e].owner)
        BY <2>2, <3>1, <4>1 DEF InHand
      <4>. QED  BY <2>1, <4>1, <4>2
    <3>2. CASE e \notin mine /\ d # c
      <4>1. IsPending(e) /\ pending[e].owner = d /\ d \in Consumers
        BY <1>6, <2>4, <3>2, OwnerIs DEF StreamInv
      <4>2. InHand(e, d)' <=> InHand(e, d)
        BY <1>5, <1>8, <3>2, <4>1 DEF InHand
      <4>. QED  BY <1>5, <2>1, <3>2, <4>1, <4>2
    <3>3. CASE e \notin mine /\ d = c
      <4>1. IsPending(e) /\ pending[e].owner = c
        BY <1>6, <2>4, <3>3
      <4>2. ~InHand(e, c)
        BY <1>1 DEF InHand
      <4>. QED  BY <2>1, <4>1, <4>2
    <3>. QED  BY <3>1, <3>2, <3>3
  <2>5. \A e \in Events :
          /\ (IsPending(e) /\ ~InHand(e, pending[e].owner) => visits[e] = 0 /\ xp[e] = 0)'
          /\ (IsPending(e) /\ worker[pending[e].owner].pc = "xp"
                /\ InHand(e, pending[e].owner) => xp[e] = 0)'
    BY <1>1, <2>4
  <2>. QED  BY <1>1, <1>8, <2>1, <2>3, <2>5 DEF OnceInv
<1>. QED  BY <1>7, <1>9, <1>10, <1>11 DEF StreamInv

\* What nobody has read goes to one worker.
LEMMA ReadNewStep == ASSUME StreamInv, NEW c \in Consumers, ReadNew(c) PROVE StreamInv'
<1>. DEFINE mine == Unread
<1>1. /\ c \in live /\ worker[c].pc = "read" /\ cursor' = Len(stream)
      /\ pending' = [e \in Events |->
           IF e \in mine THEN [owner |-> c, times |-> 1, stale |-> FALSE] ELSE pending[e]]
      /\ worker' = [worker EXCEPT ![c] =
           IF mine = {} THEN Fresh ELSE [pc |-> "take", reclaiming |-> FALSE, batch |-> mine]]
      /\ stream' = stream /\ live' = live /\ used' = used
      /\ dlq' = dlq /\ faults' = faults /\ visits' = visits /\ xp' = xp
      /\ kind' = kind /\ failed' = failed /\ before' = before
  BY DEF ReadNew, WorkerAt, effectVars, historyVars
<1>2. /\ stream \in Seq(Events) /\ Len(stream) \in Nat /\ cursor \in -1..Len(stream)
      /\ cursor >= 0
  BY <1>1, Cursor DEF StreamInv, BooksInv
<1>3. /\ mine \subseteq Events
      /\ \A x \in mine : ~Read(x)
      /\ \A x : Read(x)' <=> Read(x) \/ x \in mine
  <2>1. \A i \in 1..Len(stream) : stream[i] \in Events
    BY <1>2
  <2>2. \A i, j \in 1..Len(stream) : stream[i] = stream[j] => i = j
    BY DEF StreamInv, BooksInv
  <2>3. \A i \in cursor + 1 .. Len(stream) : i \in 1..Len(stream) /\ i \notin 1..cursor
    BY <1>2
  <2>4. \A i \in 1..cursor : i \in 1..Len(stream)
    BY <1>2
  <2>5. \A i \in 1..Len(stream) : i \in 1..cursor \/ i \in cursor + 1 .. Len(stream)
    BY <1>2
  <2>6. mine \subseteq Events
    BY <2>1, <2>3 DEF Unread
  <2>7. \A x \in mine : ~Read(x)
    BY <2>2, <2>3, <2>4 DEF Unread, Read
  <2>8. \A x : Read(x)' <=> \E i \in 1..Len(stream) : stream[i] = x
    BY <1>1 DEF Read
  <2>9. \A x : (\E i \in 1..Len(stream) : stream[i] = x) <=> Read(x) \/ x \in mine
    BY <2>3, <2>4, <2>5 DEF Read, Unread
  <2>. QED  BY <2>6, <2>7, <2>8, <2>9
<1>. HIDE DEF mine
<1>5. /\ worker' \in [Consumers -> WorkerState]
      /\ \A d \in Consumers \ {c} : worker'[d] = worker[d]
      /\ worker'[c].batch = mine
      /\ worker'[c].pc \in {"take", "start"} /\ (worker'[c].pc = "take" <=> mine # {})
  <2>1. worker \in [Consumers -> WorkerState]
    BY Typed DEF StreamInv
  <2>. QED  BY <1>1, <1>3, <2>1 DEF WorkerState, Fresh
<1>6. /\ pending' \in [Events -> Entry \cup {NotThere}]
      /\ \A e \in Events \ mine : pending'[e] = pending[e]
      /\ \A e \in mine : IsPending(e)' /\ pending'[e].owner = c /\ ~pending'[e].stale
  <2>1. [owner |-> c, times |-> 1, stale |-> FALSE] \in Entry
    BY DEF Entry
  <2>2. pending \in [Events -> Entry \cup {NotThere}]
    BY DEF StreamInv, StreamTypeOK
  <2>3. \A e \in mine : pending'[e].owner = c /\ c # Nobody /\ ~pending'[e].stale
    BY <1>1, <1>3
  <2>. QED  BY <1>1, <2>1, <2>2, <2>3 DEF IsPending
<1>7. StreamTypeOK'
  BY <1>1, <1>2, <1>5, <1>6 DEF StreamInv, StreamTypeOK
<1>8. /\ \A x : Appended(x)' <=> Appended(x)
      /\ \A d \in Consumers \ {c} : Current(d)' = Current(d)
      /\ \A x \in Events \ mine : IsPending(x)' <=> IsPending(x)
      /\ \A x \in mine : ~IsPending(x)
  BY <1>1, <1>3, <1>5, <1>6 DEF Appended, Current, Oldest, IsPending, StreamInv, BooksInv
<1>9. BooksInv'
  <2>1. /\ cursor' <= Len(stream') /\ cursor' >= 0 /\ cursor' # -1
        /\ \A i, j \in 1..Len(stream') : stream'[i] = stream'[j] => i = j
    BY <1>1, <1>2 DEF StreamInv, BooksInv
  <2>2. /\ \A d \in Consumers \ live' : worker'[d] = Fresh
        /\ \A d \in Consumers : worker'[d].pc \in Busy <=> worker'[d].batch # {}
        /\ \A d \in Consumers : \A e \in worker'[d].batch : Read(e)'
        /\ \A e \in Events : IsPending(e)' => Read(e)'
    BY <1>1, <1>3, <1>5, <1>8 DEF StreamInv, BooksInv
  <2>. QED  BY <2>1, <2>2 DEF BooksInv
<1>10. HandledInv'
  <2>1. \A x \in Events : Settled(x)' => Settled(x)
    BY <1>3, <1>6, <1>8 DEF Settled
  <2>. QED  BY <1>1, <1>5, <1>8, <2>1 DEF StreamInv, HandledInv, Handled
<1>11. OnceInv'
  <2>. SUFFICES ASSUME faults' = 0, used' = live' PROVE OnceInv'
    BY DEF OnceInv
  <2>1. /\ \A e \in Events :
             /\ visits[e] <= 1 /\ xp[e] <= 1
             /\ ~Read(e) => visits[e] = 0 /\ xp[e] = 0
             /\ IsPending(e) /\ ~InHand(e, pending[e].owner) => visits[e] = 0 /\ xp[e] = 0
             /\ IsPending(e) /\ worker[pending[e].owner].pc = "xp"
                   /\ InHand(e, pending[e].owner) => xp[e] = 0
        /\ \A d \in Consumers : \A e \in worker[d].batch :
             pending[e].owner = d /\ ~pending[e].stale
    BY <1>1, Owed
  <2>2. \A d \in Consumers : worker[d].batch \subseteq Events \ mine
    BY <1>3, Typed DEF StreamInv, BooksInv
  <2>3. ASSUME NEW d \in Consumers, NEW e \in worker'[d].batch
        PROVE  pending'[e].owner = d /\ ~pending'[e].stale
    BY <1>5, <1>6, <2>1, <2>2, <2>3
  <2>4. ASSUME NEW e \in Events, NEW d, d = pending'[e].owner, IsPending(e)'
        PROVE  /\ ~InHand(e, d)' => visits[e] = 0 /\ xp[e] = 0
               /\ worker'[d].pc = "xp" /\ InHand(e, d)' => xp[e] = 0
    <3>1. CASE e \in mine
      BY <1>3, <2>1, <3>1
    <3>2. CASE e \notin mine /\ d # c
      <4>1. IsPending(e) /\ pending[e].owner = d /\ d \in Consumers
        BY <1>6, <1>8, <2>4, <3>2, OwnerIs DEF StreamInv
      <4>2. InHand(e, d)' <=> InHand(e, d)
        BY <1>5, <1>8, <3>2, <4>1 DEF InHand
      <4>. QED  BY <1>5, <2>1, <3>2, <4>1, <4>2
    <3>3. CASE e \notin mine /\ d = c
      <4>1. IsPending(e) /\ pending[e].owner = c
        BY <1>6, <1>8, <2>4, <3>3
      <4>2. ~InHand(e, c)
        BY <1>1 DEF InHand
      <4>. QED  BY <2>1, <4>1, <4>2
    <3>. QED  BY <3>1, <3>2, <3>3
  <2>5. \A e \in Events :
          /\ (IsPending(e) /\ ~InHand(e, pending[e].owner) => visits[e] = 0 /\ xp[e] = 0)'
          /\ (IsPending(e) /\ worker[pending[e].owner].pc = "xp"
                /\ InHand(e, pending[e].owner) => xp[e] = 0)'
    BY <1>1, <2>4
  <2>. QED  BY <1>1, <1>3, <2>1, <2>3, <2>5 DEF OnceInv
<1>. QED  BY <1>7, <1>9, <1>10, <1>11 DEF StreamInv


LEMMA StreamInvHolds == StreamSpec => []StreamInv
<1>1. StreamInit => StreamInv
  BY StreamStarts
<1>2. StreamInv /\ [StreamNext]_streamVars => StreamInv'
  <2>. SUFFICES ASSUME StreamInv, [StreamNext]_streamVars PROVE StreamInv'
    OBVIOUS
  <2>1. ASSUME NEW e \in Events, Emit(e) \/ GoStale(e) \/ Lag(e) PROVE StreamInv'
    BY <2>1, EmitStep, GoStaleStep, LagStep
  <2>2. ASSUME NEW c \in Consumers, Start(c) \/ Crash(c) \/ AckFails(c) \/ BuryFails(c) PROVE StreamInv'
    BY <2>2, StartStep, CrashStep, AckFailsStep, BuryFailsStep
  <2>3. ASSUME NEW c \in Consumers, Step(c) PROVE StreamInv'
    BY <2>3, EnsureGroupStep, ReclaimStep, ReadNewStep, DeadLetterStep, BuryStep, RefuseStep, SkipStep,
       HandleStep, FireAttributionStep, GrantXpStep, AckStep DEF Step
  <2>4. CASE UNCHANGED streamVars
    <3>. USE <2>4 DEF streamVars, groupVars, effectVars, historyVars
    <3>1. StreamTypeOK' /\ BooksInv'
      BY DEF StreamInv, StreamTypeOK, BooksInv, Appended, Read, IsPending
    <3>2. /\ \A x : (Settled(x)' <=> Settled(x)) /\ (Handled(x)' <=> Handled(x))
          /\ \A x : (Read(x)' <=> Read(x)) /\ (IsPending(x)' <=> IsPending(x))
          /\ \A x, d : InHand(x, d)' <=> InHand(x, d)
          /\ \A d : Current(d)' = Current(d)
      BY DEF Handled, Settled, Read, IsPending, InHand, Current, Oldest
    <3>3. HandledInv'
      BY <3>2 DEF StreamInv, HandledInv, Handled
    <3>4. OnceInv'
      BY <3>2 DEF StreamInv, OnceInv
    <3>. QED  BY <3>1, <3>3, <3>4 DEF StreamInv
  <2>. QED  BY <2>1, <2>2, <2>3, <2>4 DEF StreamNext
<1>. QED  BY <1>1, <1>2, PTL DEF StreamSpec

THEOREM StreamTyped == StreamSpec => []StreamTypeOK
<1>1. StreamInv => StreamTypeOK
  BY DEF StreamInv
<1>. QED  BY <1>1, StreamInvHolds, PTL

THEOREM CriticalEventsAreHandled == StreamSpec => []CriticalIsHandled
<1>1. StreamInv => CriticalIsHandled
  BY DEF StreamInv, HandledInv, Handled, CriticalIsHandled
<1>. QED  BY <1>1, StreamInvHolds, PTL

THEOREM ReplicasShareNoEntry == StreamSpec => []OnceWithoutFaults
<1>1. StreamInv => OnceWithoutFaults
  BY DEF StreamInv, OnceInv, OnceWithoutFaults
<1>. QED  BY <1>1, StreamInvHolds, PTL
=============================================================================
