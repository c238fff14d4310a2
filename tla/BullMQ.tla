------------------------------- MODULE BullMQ -------------------------------
(***************************************************************************)
(* One job of a BullMQ 6 queue, as the transcode and archive queues use it *)
(* (queues/transcode_queue.ts, queues/archive_queue.ts, and the Workers of *)
(* commands/transcode_worker.ts).  The library is outside the repository;  *)
(* this module says what its callers rely on:                              *)
(*  - the job id is the Transcode id, so a queue holds at most one job for *)
(*    a Transcode, and adding an id the queue knows in any state -         *)
(*    finished ones included, since removeOnComplete is not set - does     *)
(*    nothing;                                                             *)
(*  - a worker that takes a job holds a lock on it.  The lock is renewed   *)
(*    while the worker's process is healthy; once it has expired, the      *)
(*    stalled check gives the job back, at most MaxStalled times, after    *)
(*    which the next pickup fails it for good without running it;          *)
(*  - a job is removed, completed or failed only by who owns it: removal   *)
(*    is refused while it is locked, and a worker that lost its lock can   *)
(*    no longer finish it.                                                 *)
(* The retry backoff is an unspecified time: a delayed job is "waiting".   *)
(***************************************************************************)
EXTENDS Integers

CONSTANTS
  Workers,    \* the worker processes (node ace transcode:work)
  NoWorker,   \* the owner of a job nobody holds
  MaxStalled  \* how many times a stalled job is given back (BullMQ: 1)

ASSUME NoWorkerIsNotAWorker == NoWorker \notin Workers
ASSUME MaxStalledIsNat == MaxStalled \in Nat

JobStates == {"none", "waiting", "active", "completed", "failed"}

(* The jobs of a queue whose add() asks for n attempts.  "made" counts the *)
(* attempts that ended; a job that may still run has one left.             *)
Jobs(n) ==
  {job \in [state  : JobStates,
            owner  : Workers \union {NoWorker},
            made   : 0..n,
            stalls : 0..(MaxStalled + 1)] :
     /\ job.state \in {"waiting", "active"} => job.made < n
     /\ job.state = "active" <=> job.owner # NoWorker}

NoJob == [state |-> "none", owner |-> NoWorker, made |-> 0, stalls |-> 0]

(* Queue.add with a jobId: a duplicate is dropped, whatever its state. *)
Added(job) ==
  IF job.state = "none" THEN [NoJob EXCEPT !.state = "waiting"] ELSE job

HeldBy(job, w) == job.state = "active" /\ job.owner = w

Taken(job, w) == [job EXCEPT !.state = "active", !.owner = w]

(* A job that stalled too often: its next pickup fails it unrecoverably. *)
Doomed(job) == job.stalls > MaxStalled

(* Faulty: the job completes, its owner stays. *)
CompletedStillOwned(job) ==
  [job EXCEPT !.state = "completed", !.made = @ + 1]

Completed(job) ==
  [job EXCEPT !.state = "completed", !.owner = NoWorker, !.made = @ + 1]

(* moveToFailed: retried while attempts are left, unless unrecoverable. *)
Failed(job, n, unrecoverable) ==
  [job EXCEPT
     !.state = IF unrecoverable \/ job.made + 1 >= n THEN "failed" ELSE "waiting",
     !.owner = NoWorker,
     !.made  = @ + 1]

(* The stalled check hands an active job whose lock expired back. *)
Stalled(job) ==
  [job EXCEPT !.state  = "waiting",
              !.owner  = NoWorker,
              !.stalls = IF Doomed(job) THEN @ ELSE @ + 1]

(* Faulty: the listener takes every failure for a terminal one. *)
TerminalAlways(job, n, unrecoverable) == TRUE

(* Faulty: it compares the attempts before the one that just failed. *)
TerminalTooLate(job, n, unrecoverable) == unrecoverable \/ job.made >= n

(* The 'failed' listener sees the job after the move: its own test of      *)
(* "terminal" (transcode_worker.ts:63-64) has to agree with Failed's.       *)
Terminal(job, n, unrecoverable) == unrecoverable \/ job.made + 1 >= n
=============================================================================
