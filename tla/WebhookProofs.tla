----------------------------- MODULE WebhookProofs -----------------------------
(***************************************************************************)
(* A delivery that counts as done was processed by the caller, who gets a  *)
(* bounded number of POSTs for it - for every number of workers, of         *)
(* deliveries, of attempts, of stalls, of deaths and of lost locks.         *)
(***************************************************************************)
EXTENDS WebhookDelivery, BullMQProofs

(* What else an inductive step needs: a delivery that was not enqueued has *)
(* sent nothing, and a worker waits for a POST that has left.               *)
Unsent == \A d \in Deliveries : job[d].state = "none" => sent[d] = 0
WaitsForSent ==
  \A w \in Workers : Waits(w) => run[w].nth \in 1..sent[run[w].of]
IInv == TypeOK /\ Unsent /\ WaitsForSent /\ PostsAreBounded /\ CompletedWasHandled

LEMMA Numbers ==
  /\ WebhookAttempts \in Nat \ {0} /\ MaxStalled \in Nat /\ MaxTroubles \in Nat
  /\ MaxPosts = WebhookAttempts + MaxStalled
BY WebhookAttemptsArePositive, MaxStalledIsNat, MaxTroublesIsNat DEF MaxPosts

LEMMA JobNumbers ==
  ASSUME NEW j \in Jobs(WebhookAttempts)
  PROVE  /\ j.made \in 0..WebhookAttempts /\ j.stalls \in 0..(MaxStalled + 1)
         /\ j.made \in Nat /\ j.stalls \in Nat
         /\ j.state \in {"waiting", "active"} => j.made <= WebhookAttempts - 1
BY Numbers DEF Jobs

LEMMA InitIInv == Init => IInv
<1> SUFFICES ASSUME Init PROVE IInv
  OBVIOUS
<1>1. TypeOK
  BY Numbers, NoJobType DEF Init, TypeOK, Idle
<1>2. Unsent /\ WaitsForSent /\ CompletedWasHandled
  BY DEF Init, Unsent, WaitsForSent, Waits, Idle, CompletedWasHandled, NoJob
<1>3. PostsAreBounded
  BY DEF Init, PostsAreBounded, InHand, NoJob
<1> QED BY <1>1, <1>2, <1>3 DEF IInv

(* A step in which one job moves and no POST leaves. *)
LEMMA JobMoves ==
  ASSUME IInv, NEW d \in Deliveries, NEW j \in Jobs(WebhookAttempts),
         job' = [job EXCEPT ![d] = j], j.state # "none",
         UNCHANGED <<sent, handled>>,
         sent[d] <= j.made + j.stalls
           + (IF j.state = "active" /\ ~Doomed(j) THEN 1 ELSE 0),
         j.state = "completed" => \E nth \in 1..sent[d] : <<d, nth>> \in handled
  PROVE  /\ job' \in [Deliveries -> Jobs(WebhookAttempts)]
         /\ Unsent' /\ PostsAreBounded' /\ CompletedWasHandled'
<1>1. job'[d] = j /\ \A e \in Deliveries : e # d => job'[e] = job[e]
  BY DEF IInv, TypeOK
<1>2. job' \in [Deliveries -> Jobs(WebhookAttempts)]
  BY DEF IInv, TypeOK
<1>3. Unsent'
  BY <1>1 DEF IInv, Unsent
<1>4. CompletedWasHandled'
  BY <1>1 DEF IInv, CompletedWasHandled
<1>5. PostsAreBounded'
  BY <1>1 DEF IInv, PostsAreBounded, InHand
<1> QED BY <1>2, <1>3, <1>4, <1>5

(* A worker puts down what it has. *)
LEMMA PutsDown ==
  ASSUME IInv, NEW w \in Workers, run' = [run EXCEPT ![w] = Idle], UNCHANGED sent
  PROVE  /\ run' \in [Workers -> [of : Deliveries \union {NoDelivery}, nth : 0..MaxPosts]]
         /\ WaitsForSent'
<1>1. Idle \in [of : Deliveries \union {NoDelivery}, nth : 0..MaxPosts]
  BY Numbers DEF Idle
<1> QED BY <1>1 DEF IInv, TypeOK, WaitsForSent, Waits, Idle

(* However a run ends: the job completes, fails, or is another's already.    *)
LEMMA DeliverStep == IInv /\ (\E w \in Workers : Deliver(w)) => IInv'
<1> SUFFICES ASSUME IInv, NEW w \in Workers, Deliver(w) PROVE IInv'
  OBVIOUS
<1> DEFINE d == run[w].of
<1>1. run' = [run EXCEPT ![w] = Idle] /\ UNCHANGED <<sent, handled, troubles>>
  BY DEF Deliver, Hear, Abort, FailDoomed
<1>2. d \in Deliveries
  BY DEF Deliver, Hear, Abort, FailDoomed, Waits, TimesOut, IInv, TypeOK
<1>3. job[d] \in Jobs(WebhookAttempts)
  BY <1>2 DEF IInv, TypeOK
<1>4. WaitsForSent' /\ run' \in [Workers -> [of : Deliveries \union {NoDelivery},
                                             nth : 0..MaxPosts]]
  BY <1>1, PutsDown
<1>5. CASE job' = job
  BY <1>1, <1>4, <1>5 DEF IInv, TypeOK, Unsent, PostsAreBounded, InHand,
                          CompletedWasHandled
<1>6. ASSUME HeldBy(job[d], w), job' # job PROVE IInv'
  <2>1. job[d].state = "active"
    BY <1>6 DEF HeldBy
  <2>2. PICK j : /\ job' = [job EXCEPT ![d] = j]
                 /\ \/ /\ j = Completed(job[d])
                       /\ \E nth \in 1..sent[d] : <<d, nth>> \in handled
                    \/ \E u \in BOOLEAN : j = Failed(job[d], WebhookAttempts, u)
    <3>1. CASE Hear(w)
      <4>1. PICK ok \in BOOLEAN :
              /\ ok => <<d, run[w].nth>> \in handled
              /\ job' = [job EXCEPT ![d] =
                           IF ok THEN Completed(@) ELSE Failed(@, WebhookAttempts, FALSE)]
        BY <1>6, <3>1 DEF Hear, Succeeds
      <4>2. run[w].nth \in 1..sent[d]
        BY <3>1 DEF Hear, IInv, WaitsForSent
      <4>3. CASE ok
        BY <4>1, <4>2, <4>3
      <4>4. CASE ~ok
        BY <4>1, <4>4
      <4> QED BY <4>3, <4>4
    <3>2. CASE Abort(w)
      BY <1>6, <3>2 DEF Abort
    <3>3. CASE FailDoomed(w)
      BY <1>6, <3>3 DEF FailDoomed
    <3> QED BY <3>1, <3>2, <3>3 DEF Deliver
  <2>3. sent[d] <= job[d].made + job[d].stalls + 1
    BY <1>2, <1>3, JobNumbers DEF IInv, PostsAreBounded, TypeOK
  <2>4. j \in Jobs(WebhookAttempts)
    BY <1>3, <2>1, <2>2, CompletedType, FailedType, Numbers
  <2>5. j.made = job[d].made + 1 /\ j.stalls = job[d].stalls
          /\ j.state \in {"completed", "waiting", "failed"}
          /\ (j.state = "completed" => j = Completed(job[d]))
    BY <1>3, <2>2 DEF Completed, Failed, Jobs
  <2>6. sent[d] <= j.made + j.stalls
                     + (IF j.state = "active" /\ ~Doomed(j) THEN 1 ELSE 0)
    BY <1>3, <2>3, <2>5, JobNumbers
  <2>7. j.state = "completed" => \E nth \in 1..sent[d] : <<d, nth>> \in handled
    BY <1>3, <2>2 DEF Failed, Jobs
  <2>8. /\ job' \in [Deliveries -> Jobs(WebhookAttempts)]
        /\ Unsent' /\ PostsAreBounded' /\ CompletedWasHandled'
    BY <1>1, <1>2, <2>2, <2>4, <2>5, <2>6, <2>7, JobMoves
  <2> QED BY <1>1, <1>4, <2>8 DEF IInv, TypeOK
<1> QED BY <1>5, <1>6 DEF Deliver, Hear, Abort, FailDoomed

(* A stalled job: the POST of the run that lost it is counted by "stalls". *)
LEMMA StalledStep ==
  ASSUME IInv, NEW d \in Deliveries, job[d].state = "active",
         job' = [job EXCEPT ![d] = Stalled(@)], UNCHANGED <<sent, handled, run>>,
         troubles' \in 0..MaxTroubles
  PROVE  IInv'
<1>1. job[d] \in Jobs(WebhookAttempts)
  BY DEF IInv, TypeOK
<1>2. Stalled(job[d]) \in Jobs(WebhookAttempts)
  BY <1>1, Numbers, StalledType
<1>3. Stalled(job[d]).state = "waiting" /\ Stalled(job[d]).made = job[d].made
  BY <1>1 DEF Stalled, Jobs
<1>4. Stalled(job[d]).stalls = IF Doomed(job[d]) THEN job[d].stalls ELSE job[d].stalls + 1
  BY <1>1 DEF Stalled, Jobs
<1>5. sent[d] <= job[d].made + job[d].stalls + (IF Doomed(job[d]) THEN 0 ELSE 1)
  BY DEF IInv, PostsAreBounded, InHand
<1>6. sent[d] <= Stalled(job[d]).made + Stalled(job[d]).stalls
  BY <1>1, <1>3, <1>4, <1>5, JobNumbers
<1>7. /\ job' \in [Deliveries -> Jobs(WebhookAttempts)]
      /\ Unsent' /\ PostsAreBounded' /\ CompletedWasHandled'
  <2> DEFINE j == Stalled(job[d])
  <2>1. j.state # "none" /\ j.state # "completed" /\ j.state # "active"
    BY <1>3
  <2>2. sent[d] <= j.made + j.stalls
                     + (IF j.state = "active" /\ ~Doomed(j) THEN 1 ELSE 0)
    BY <1>2, <1>6, <2>1, JobNumbers
  <2> HIDE DEF j
  <2> QED BY <1>2, <2>1, <2>2, JobMoves DEF j
<1> QED BY <1>7 DEF IInv, TypeOK, WaitsForSent, Waits

LEMMA TakeStep == IInv /\ (\E w \in Workers, d \in Deliveries : TakeWebhook(w, d)) => IInv'
<1> SUFFICES ASSUME IInv, NEW w \in Workers, NEW d \in Deliveries, TakeWebhook(w, d)
             PROVE  IInv'
  OBVIOUS
<1> DEFINE j == Taken(job[d], w)
<1>1. job[d] \in Jobs(WebhookAttempts) /\ job[d].state = "waiting"
        /\ job' = [job EXCEPT ![d] = j] /\ UNCHANGED <<handled, troubles>>
  BY DEF TakeWebhook, IInv, TypeOK
<1>2. j \in Jobs(WebhookAttempts)
  BY <1>1, TakenType, Numbers
<1>3. j.state = "active" /\ j.made = job[d].made /\ j.stalls = job[d].stalls
  BY <1>1 DEF Taken, Jobs
<1>4. sent[d] \in Nat /\ sent[d] <= job[d].made + job[d].stalls
  BY <1>1, JobNumbers, Numbers DEF IInv, PostsAreBounded, InHand, TypeOK
<1>5. CASE Doomed(job[d])
  <2>1. run' = [run EXCEPT ![w] = [of |-> d, nth |-> 0]] /\ UNCHANGED sent
    BY <1>5 DEF TakeWebhook
  <2>2. WaitsForSent' /\ run' \in [Workers -> [of : Deliveries \union {NoDelivery},
                                               nth : 0..MaxPosts]]
    <3>1. [of |-> d, nth |-> 0] \in [of : Deliveries \union {NoDelivery}, nth : 0..MaxPosts]
      BY Numbers
    <3> QED BY <2>1, <3>1 DEF IInv, TypeOK, WaitsForSent, Waits
  <2>3. /\ job' \in [Deliveries -> Jobs(WebhookAttempts)]
        /\ Unsent' /\ PostsAreBounded' /\ CompletedWasHandled'
    <3>1. sent[d] <= j.made + j.stalls
                       + (IF j.state = "active" /\ ~Doomed(j) THEN 1 ELSE 0)
      BY <1>1, <1>3, <1>4, JobNumbers
    <3> HIDE DEF j
    <3> QED BY <1>1, <1>2, <1>3, <2>1, <3>1, JobMoves
  <2> QED BY <1>1, <2>1, <2>2, <2>3 DEF IInv, TypeOK
<1>6. CASE ~Doomed(job[d])
  <2>1. /\ run' = [run EXCEPT ![w] = [of |-> d, nth |-> sent[d] + 1]]
        /\ sent' = [sent EXCEPT ![d] = sent[d] + 1]
    BY <1>6 DEF TakeWebhook, Posts
  <2>2. sent[d] + 1 <= MaxPosts
    BY <1>1, <1>4, <1>6, JobNumbers, Numbers DEF Doomed
  <2>3. sent[d] + 1 \in 0..MaxPosts
    BY <1>4, <2>2, Numbers
  <2>4. sent' \in [Deliveries -> 0..MaxPosts]
    BY <2>1, <2>3 DEF IInv, TypeOK
  <2>5. sent'[d] = sent[d] + 1 /\ \A e \in Deliveries : e # d => sent'[e] = sent[e]
    BY <2>1 DEF IInv, TypeOK
  <2>6. job'[d] = j /\ \A e \in Deliveries : e # d => job'[e] = job[e]
    BY <1>1 DEF IInv, TypeOK
  <2>7. run' \in [Workers -> [of : Deliveries \union {NoDelivery}, nth : 0..MaxPosts]]
    <3>1. [of |-> d, nth |-> sent[d] + 1]
            \in [of : Deliveries \union {NoDelivery}, nth : 0..MaxPosts]
      BY <2>3
    <3> QED BY <2>1, <3>1 DEF IInv, TypeOK
  <2>8. WaitsForSent'
    <3> SUFFICES ASSUME NEW v \in Workers, Waits(v)'
                 PROVE  run'[v].nth \in 1..sent'[run'[v].of]
      BY DEF WaitsForSent
    <3>1. CASE v = w
      <4>1. run'[v].nth = sent[d] + 1 /\ run'[v].of = d
        BY <2>1, <3>1 DEF IInv, TypeOK
      <4> QED BY <1>4, <2>5, <4>1
    <3>2. CASE v # w
      <4>1. run'[v] = run[v]
        BY <2>1, <3>2 DEF IInv, TypeOK
      <4>2. run[v].of \in Deliveries /\ run[v].nth \in 1..sent[run[v].of]
        BY <4>1 DEF Waits, WaitsForSent, IInv, TypeOK
      <4>3. sent[run[v].of] \in Nat
        BY <4>2, Numbers DEF IInv, TypeOK
      <4>4. CASE run[v].of = d
        BY <1>4, <2>5, <4>1, <4>2, <4>4
      <4>5. CASE run[v].of # d
        BY <2>5, <4>1, <4>2, <4>5
      <4> QED BY <4>4, <4>5
    <3> QED BY <3>1, <3>2
  <2>9. job' \in [Deliveries -> Jobs(WebhookAttempts)]
    BY <1>1, <1>2 DEF IInv, TypeOK
  <2>10. Unsent' /\ CompletedWasHandled'
    BY <1>1, <1>3, <2>5, <2>6 DEF IInv, Unsent, CompletedWasHandled
  <2>11. PostsAreBounded'
    <3>1. ~Doomed(j)
      BY <1>3, <1>6 DEF Doomed
    <3>2. sent'[d] <= j.made + j.stalls + 1
      BY <1>1, <1>3, <1>4, <2>5, JobNumbers
    <3> HIDE DEF j
    <3> QED BY <1>3, <2>5, <2>6, <3>1, <3>2 DEF IInv, PostsAreBounded, InHand
  <2> QED BY <1>1, <2>4, <2>7, <2>8, <2>9, <2>10, <2>11 DEF IInv, TypeOK
<1> QED BY <1>5, <1>6

LEMMA NextIInv == IInv /\ [Next]_wvars => IInv'
<1> SUFFICES ASSUME IInv, [Next]_wvars PROVE IInv'
  OBVIOUS
<1>1. ASSUME NEW d \in Deliveries, Enqueue(d) PROVE IInv'
  <2>1. job' = [job EXCEPT ![d] = [NoJob EXCEPT !.state = "waiting"]] /\ sent[d] = 0
    BY <1>1 DEF Enqueue, Added, IInv, Unsent
  <2> DEFINE j == [NoJob EXCEPT !.state = "waiting"]
  <2>2. j \in Jobs(WebhookAttempts)
    BY Numbers, NoWorkerIsNotAWorker DEF NoJob, Jobs, JobStates
  <2>3. j.state = "waiting" /\ j.made = 0 /\ j.stalls = 0
    BY DEF NoJob
  <2>4. sent[d] <= j.made + j.stalls
                     + (IF j.state = "active" /\ ~Doomed(j) THEN 1 ELSE 0)
    BY <2>1, <2>3
  <2>5. UNCHANGED <<sent, handled, run, troubles>>
    BY <1>1 DEF Enqueue
  <2> HIDE DEF j
  <2>6. /\ job' \in [Deliveries -> Jobs(WebhookAttempts)]
        /\ Unsent' /\ PostsAreBounded' /\ CompletedWasHandled'
    BY <2>1, <2>2, <2>3, <2>4, <2>5, JobMoves DEF j
  <2> QED BY <2>5, <2>6 DEF IInv, TypeOK, WaitsForSent, Waits
<1>2. ASSUME NEW d \in Deliveries, Handle(d) PROVE IInv'
  <2>1. PICK nth \in 1..sent[d] : handled' = handled \union {<<d, nth>>}
    BY <1>2 DEF Handle
  <2>2. nth \in 1..MaxPosts
    BY Numbers DEF IInv, TypeOK
  <2>3. UNCHANGED <<job, sent, run, troubles>>
    BY <1>2 DEF Handle
  <2>4. handled' \in SUBSET (Deliveries \X (1..MaxPosts)) /\ handled \subseteq handled'
    BY <2>1, <2>2 DEF IInv, TypeOK
  <2>5. CompletedWasHandled'
    BY <2>3, <2>4 DEF IInv, CompletedWasHandled
  <2> QED BY <2>3, <2>4, <2>5 DEF IInv, TypeOK, Unsent, WaitsForSent, Waits,
                                  PostsAreBounded, InHand
<1>3. ASSUME NEW d \in Deliveries, LoseLock(d) PROVE IInv'
  <2>1. troubles' \in 0..MaxTroubles /\ job[d].state = "active"
    BY <1>3, Numbers DEF LoseLock, HeldBy, IInv, TypeOK
  <2> QED BY <1>3, <2>1, StalledStep DEF LoseLock
<1>4. ASSUME NEW d \in Deliveries, Recover(d) PROVE IInv'
  <2>1. troubles' \in 0..MaxTroubles /\ job[d].state = "active"
    BY <1>4 DEF Recover, HeldBy, IInv, TypeOK
  <2> QED BY <1>4, <2>1, StalledStep DEF Recover
<1>5. ASSUME NEW w \in Workers, Crash(w) PROVE IInv'
  <2>1. troubles' \in 0..MaxTroubles
    BY <1>5, Numbers DEF Crash, IInv, TypeOK
  <2>2. WaitsForSent' /\ run' \in [Workers -> [of : Deliveries \union {NoDelivery},
                                               nth : 0..MaxPosts]]
    BY <1>5, PutsDown DEF Crash
  <2> QED BY <1>5, <2>1, <2>2 DEF Crash, IInv, TypeOK, Unsent, PostsAreBounded, InHand,
                                  CompletedWasHandled
<1>6. CASE UNCHANGED wvars
  BY <1>6 DEF wvars, IInv, TypeOK, Unsent, WaitsForSent, Waits, PostsAreBounded, InHand,
              CompletedWasHandled
<1> QED BY <1>1, <1>2, <1>3, <1>4, <1>5, <1>6, DeliverStep, TakeStep DEF Next

LEMMA Delivered == Spec => []IInv
BY InitIInv, NextIInv, PTL DEF Spec

(* A delivery that counts as done was processed by the caller              *)
(* (deliver_webhook.ts:39).                                                 *)
THEOREM DeliveredAtLeastOnce == Spec => []CompletedWasHandled
<1>1. IInv => CompletedWasHandled
  BY DEF IInv
<1> QED BY <1>1, Delivered, PTL

(* A delivery costs its caller one POST per attempt that ended or stalled, *)
(* and no more (webhook_queue.ts:53-58).                                    *)
THEOREM DuplicatesAreBounded == Spec => []PostsAreBounded
<1>1. IInv => PostsAreBounded
  BY DEF IInv
<1> QED BY <1>1, Delivered, PTL

(* All of them: WebhookAttempts + MaxStalled POSTs at most.                *)
THEOREM WebhookTypeCorrect == Spec => []TypeOK
<1>1. IInv => TypeOK
  BY DEF IInv
<1> QED BY <1>1, Delivered, PTL
===============================================================================
