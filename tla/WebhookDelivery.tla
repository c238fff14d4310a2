---------------------------- MODULE WebhookDelivery ----------------------------
(***************************************************************************)
(* Delivery of the completion webhooks: the webhook queue                   *)
(* (webhook_queue.ts), its Worker (transcode_worker.ts:79-94) and the POST  *)
(* to the caller (deliver_webhook.ts).  A delivery is one job with a frozen *)
(* payload; jobs have ids of their own, so nothing deduplicates them.       *)
(*                                                                         *)
(* The caller is outside: it may handle a POST and answer 2xx, answer       *)
(* anything else, stay silent, or handle one long after the service has     *)
(* given up waiting for its answer.                                         *)
(***************************************************************************)
EXTENDS BullMQ

CONSTANTS
  Deliveries,       \* the payloads enqueued
  NoDelivery,       \* what an idle worker delivers
  WebhookAttempts,  \* attempts: 5
  MaxTroubles       \* bound: worker deaths and lost locks

ASSUME NoDeliveryIsNone == NoDelivery \notin Deliveries
ASSUME WebhookAttemptsArePositive == WebhookAttempts \in Nat \ {0}
ASSUME MaxTroublesIsNat == MaxTroubles \in Nat

VARIABLES
  job,      \* per delivery: its job
  sent,     \* per delivery: how many POSTs have left
  handled,  \* the POSTs <<delivery, nth>> that the caller has processed
  run,      \* per worker: the delivery in its hands, and which POST it is
  troubles  \* bounded history

wvars == <<job, sent, handled, run, troubles>>

Idle == [of |-> NoDelivery, nth |-> 0]
Waits(w) == run[w].of # NoDelivery /\ run[w].nth > 0

Init ==
  /\ job = [d \in Deliveries |-> NoJob]
  /\ sent = [d \in Deliveries |-> 0]
  /\ handled = {}
  /\ run = [w \in Workers |-> Idle]
  /\ troubles = 0

-------------------------------------------------------------------------------
Enqueue(d) ==
  /\ job[d].state = "none"
  /\ job' = [job EXCEPT ![d] = Added(@)]
  /\ UNCHANGED <<sent, handled, run, troubles>>

(* Faulty: the run POSTs again by itself before it fails. *)
PostsTwice(n) == n + 2

(* A run POSTs once; retrying is left to the queue. *)
Posts(n) == n + 1

(* The Worker takes a job and POSTs its payload; a job that stalled too    *)
(* often is only taken to be failed.                                        *)
TakeWebhook(w, d) ==
  /\ run[w] = Idle
  /\ job[d].state = "waiting"
  /\ job' = [job EXCEPT ![d] = Taken(@, w)]
  /\ IF Doomed(job[d])
     THEN /\ run' = [run EXCEPT ![w] = [of |-> d, nth |-> 0]]
          /\ UNCHANGED sent
     ELSE /\ run' = [run EXCEPT ![w] = [of |-> d, nth |-> Posts(sent[d])]]
          /\ sent' = [sent EXCEPT ![d] = Posts(@)]
  /\ UNCHANGED <<handled, troubles>>

(* Faulty: a response of any status is a success. *)
AnyResponse(ok) == TRUE

(* Only a 2xx completes the job (deliver_webhook.ts:39). *)
Succeeds(ok) == ok

(* A response arrives in time: a 2xx, of a POST that was handled, or not.  *)
(* A worker that lost its lock can no longer finish the job.                *)
Hear(w) ==
  LET d == run[w].of IN
  /\ Waits(w)
  /\ \E ok \in BOOLEAN :
       /\ ok => <<d, run[w].nth>> \in handled
       /\ job' = IF ~HeldBy(job[d], w) THEN job
                 ELSE [job EXCEPT ![d] = IF Succeeds(ok) THEN Completed(@)
                                         ELSE Failed(@, WebhookAttempts, FALSE)]
  /\ run' = [run EXCEPT ![w] = Idle]
  /\ UNCHANGED <<sent, handled, troubles>>

(* Faulty: no timer, so a caller that never answers keeps the worker. *)
Unbounded(w) == FALSE

TimesOut(w) == Waits(w)

(* The timer aborts the fetch, or the fetch fails: the attempt does.       *)
Abort(w) ==
  LET d == run[w].of IN
  /\ TimesOut(w)
  /\ job' = IF HeldBy(job[d], w)
            THEN [job EXCEPT ![d] = Failed(@, WebhookAttempts, FALSE)] ELSE job
  /\ run' = [run EXCEPT ![w] = Idle]
  /\ UNCHANGED <<sent, handled, troubles>>

FailDoomed(w) ==
  LET d == run[w].of IN
  /\ d # NoDelivery
  /\ run[w].nth = 0
  /\ job' = IF HeldBy(job[d], w)
            THEN [job EXCEPT ![d] = Failed(@, WebhookAttempts, TRUE)] ELSE job
  /\ run' = [run EXCEPT ![w] = Idle]
  /\ UNCHANGED <<sent, handled, troubles>>

-------------------------------------------------------------------------------
(* The caller processes a POST, awaited still or long since aborted.       *)
Handle(d) ==
  /\ \E nth \in 1..sent[d] :
       /\ <<d, nth>> \notin handled
       /\ handled' = handled \union {<<d, nth>>}
  /\ UNCHANGED <<job, sent, run, troubles>>

Crash(w) ==
  /\ troubles < MaxTroubles
  /\ run[w] # Idle
  /\ run' = [run EXCEPT ![w] = Idle]
  /\ troubles' = troubles + 1
  /\ UNCHANGED <<job, sent, handled>>

(* The lock of a job in hand expires; what its worker hears is for nothing. *)
LoseLock(d) ==
  /\ troubles < MaxTroubles
  /\ \E w \in Workers : HeldBy(job[d], w) /\ run[w].of = d
  /\ job' = [job EXCEPT ![d] = Stalled(@)]
  /\ troubles' = troubles + 1
  /\ UNCHANGED <<sent, handled, run>>

(* The stalled check gives back the job of a worker that died. *)
Recover(d) ==
  /\ \E w \in Workers : HeldBy(job[d], w) /\ run[w].of # d
  /\ job' = [job EXCEPT ![d] = Stalled(@)]
  /\ UNCHANGED <<sent, handled, run, troubles>>

Deliver(w) == Hear(w) \/ Abort(w) \/ FailDoomed(w)

Next ==
  \/ \E d \in Deliveries : Enqueue(d) \/ Handle(d) \/ LoseLock(d) \/ Recover(d)
  \/ \E w \in Workers, d \in Deliveries : TakeWebhook(w, d)
  \/ \E w \in Workers : Deliver(w) \/ Crash(w)

Spec == Init /\ [][Next]_wvars

(* The Worker and the stalled check run; the caller owes nothing.  A queue *)
(* is first in first out, so no job in it is passed over for ever.          *)
Fairness ==
  /\ \A d \in Deliveries :
       WF_wvars(Recover(d)) /\ SF_wvars(\E w \in Workers : TakeWebhook(w, d))
  /\ \A w \in Workers : WF_wvars(FailDoomed(w)) /\ WF_wvars(Abort(w))

FairSpec == Spec /\ Fairness
-------------------------------------------------------------------------------
MaxPosts == WebhookAttempts + MaxStalled

TypeOK ==
  /\ job \in [Deliveries -> Jobs(WebhookAttempts)]
  /\ sent \in [Deliveries -> 0..MaxPosts]
  /\ handled \in SUBSET (Deliveries \X (1..MaxPosts))
  /\ run \in [Workers -> [of : Deliveries \union {NoDelivery}, nth : 0..MaxPosts]]
  /\ troubles \in 0..MaxTroubles

(* At least once: a delivery that counts as done was processed by the      *)
(* caller (ADR-0005, "au moins une fois").                                  *)
CompletedWasHandled ==
  \A d \in Deliveries :
    job[d].state = "completed" => \E nth \in 1..sent[d] : <<d, nth>> \in handled

(* And not much more: timeouts, refusals, deaths and lost locks together   *)
(* cost the caller WebhookAttempts + MaxStalled POSTs at most.              *)
InHand(d) == job[d].state = "active" /\ ~Doomed(job[d])
PostsAreBounded ==
  \A d \in Deliveries :
    sent[d] <= job[d].made + job[d].stalls
                 + (IF InHand(d) THEN 1 ELSE 0)

(* A delivery ends, delivered or given up, however silent the callers are: *)
(* one that never answers does not keep the worker from the others.        *)
DeliverySettles ==
  \A d \in Deliveries :
    job[d].state = "waiting" ~> job[d].state \in {"completed", "failed"}
===============================================================================
