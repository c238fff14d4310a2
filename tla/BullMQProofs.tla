----------------------------- MODULE BullMQProofs -----------------------------
(***************************************************************************)
(* What the operations of a queue keep of a job, for every number of       *)
(* workers, of attempts and of stalls.                                      *)
(***************************************************************************)
EXTENDS BullMQ, TLAPS

(* The operations of a queue take a job of the queue to one of the queue.  *)

LEMMA NoJobType ==
  ASSUME NEW n \in Nat \ {0}
  PROVE  NoJob \in Jobs(n)
BY MaxStalledIsNat, NoWorkerIsNotAWorker DEF NoJob, Jobs, JobStates

LEMMA AddedType ==
  ASSUME NEW n \in Nat \ {0}, NEW job \in Jobs(n)
  PROVE  Added(job) \in Jobs(n)
BY MaxStalledIsNat, NoWorkerIsNotAWorker DEF Added, NoJob, Jobs, JobStates

LEMMA TakenType ==
  ASSUME NEW n \in Nat \ {0}, NEW job \in Jobs(n), job.state = "waiting",
         NEW w \in Workers
  PROVE  Taken(job, w) \in Jobs(n)
BY NoWorkerIsNotAWorker DEF Taken, Jobs, JobStates

LEMMA CompletedType ==
  ASSUME NEW n \in Nat \ {0}, NEW job \in Jobs(n), job.state = "active"
  PROVE  Completed(job) \in Jobs(n)
<1>1. job.made \in 0..n /\ job.made < n
  BY DEF Jobs
<1>2. job.made + 1 \in 0..n
  BY <1>1
<1> DEFINE after == Completed(job)
<1>3. after \in [state : JobStates, owner : Workers \union {NoWorker},
                 made : 0..n, stalls : 0..(MaxStalled + 1)]
  BY <1>2 DEF Completed, Jobs, JobStates
<1>4. after.state = "completed" /\ after.owner = NoWorker
  BY DEF Completed, Jobs
<1> QED
  BY <1>3, <1>4 DEF Jobs

LEMMA FailedType ==
  ASSUME NEW n \in Nat \ {0}, NEW job \in Jobs(n), job.state = "active",
         NEW unrecoverable \in BOOLEAN
  PROVE  Failed(job, n, unrecoverable) \in Jobs(n)
<1>1. job.made \in 0..n /\ job.made < n
  BY DEF Jobs
<1>2. job.made + 1 \in 0..n
  BY <1>1
<1> DEFINE after == Failed(job, n, unrecoverable)
<1>3. after \in [state : JobStates, owner : Workers \union {NoWorker},
                 made : 0..n, stalls : 0..(MaxStalled + 1)]
  BY <1>2 DEF Failed, Jobs, JobStates
<1>4. after.owner = NoWorker /\ after.made = job.made + 1
  BY DEF Failed, Jobs
<1>5. \/ after.state = "failed"
      \/ after.state = "waiting" /\ job.made + 1 < n
  BY <1>1 DEF Failed, Jobs
<1> QED
  BY <1>3, <1>4, <1>5 DEF Jobs

LEMMA StalledType ==
  ASSUME NEW n \in Nat \ {0}, NEW job \in Jobs(n), job.state = "active"
  PROVE  Stalled(job) \in Jobs(n)
<1> DEFINE after == Stalled(job)
<1>1. after.stalls \in 0..(MaxStalled + 1)
  BY MaxStalledIsNat DEF Stalled, Doomed, Jobs
<1>2. job.made \in 0..n /\ job.made < n
  BY DEF Jobs
<1>3. after \in [state : JobStates, owner : Workers \union {NoWorker},
                 made : 0..n, stalls : 0..(MaxStalled + 1)]
  BY <1>1 DEF Stalled, Jobs, JobStates
<1>4. after.state = "waiting" /\ after.owner = NoWorker /\ after.made = job.made
  BY DEF Stalled, Jobs
<1> QED
  BY <1>2, <1>3, <1>4 DEF Jobs
===============================================================================
