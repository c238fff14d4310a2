----------------------------- MODULE WorkerDrain -----------------------------
(***************************************************************************)
(* SIGTERM (commands/transcode_worker.ts): the "terminating" hook closes   *)
(* the transcode, the webhook and the archive Worker of the process, one   *)
(* after the other.  A Worker that closes takes no job, and close() waits  *)
(* for those it runs.  Then the process goes, and another is started.       *)
(*                                                                         *)
(* Every step is a step of the pipeline, held back where a Worker closes,  *)
(* or a step of the shutdown.  Closing the webhook Worker takes some time  *)
(* (WebhookDelivery), as any step does.                                     *)
(***************************************************************************)
EXTENDS TranscodeProperties

CONSTANT MaxDrains   \* bound: how many times a process is told to stop

ASSUME MaxDrainsIsNat == MaxDrains \in Nat

VARIABLES
  phase,   \* per worker process: where its shutdown stands
  drains   \* how many shutdowns began

drainVars == <<vars, phase, drains>>

(* "closing": the transcode Worker; "closingArchive": the archive Worker. *)
Phases == {"up", "closing", "closingArchive", "gone"}
PhaseIs(w, p) == phase[w] = p
PhaseGoes(w, p) == phase' = [phase EXCEPT ![w] = p]
SamePhases == UNCHANGED <<phase, drains>>

DrainInit == Init /\ phase = [w \in Workers |-> "up"] /\ drains = 0

-------------------------------------------------------------------------------
(* The pipeline beside a shutdown. *)

(* The archive Worker still takes jobs while the transcode Worker closes. *)
MayTakeTranscode(w) == PhaseIs(w, "up")
MayTakeArchive(w) == phase[w] \in {"up", "closing"}

DrainRunTranscode(w) ==
  /\ RunTranscode(w)
  /\ At(w, "idle") => MayTakeTranscode(w)
  /\ SamePhases

DrainRunArchive(w) ==
  /\ RunArchive(w)
  /\ ArchAt(w, "idle") => MayTakeArchive(w)
  /\ SamePhases

(* A process that dies before its shutdown is through is started again. *)
Dies(w) == Crash(w) /\ PhaseGoes(w, "up") /\ UNCHANGED drains

Others ==
  /\ \/ Ingest \/ RunFail \/ \E w \in Workers : EncodeTick(w)
     \/ \E d \in Purges : StartDelete(d) \/ ServeDelete(d)
     \/ StallTranscode \/ StallArchive \/ ExpireProgress
  /\ SamePhases

-------------------------------------------------------------------------------
(* The shutdown. *)

Terminate(w) ==
  /\ PhaseIs(w, "up")
  /\ drains < MaxDrains
  /\ drains' = drains + 1
  /\ PhaseGoes(w, "closing")
  /\ UNCHANGED vars

(* Faulty: the Worker is closed by force, its job goes with the process. *)
ClosedByForce(w) == TRUE

TranscodeClosed(w) == At(w, "idle")
ArchiveClosed(w) == ArchAt(w, "idle")

CloseTranscode(w) ==
  /\ PhaseIs(w, "closing")
  /\ TranscodeClosed(w)
  /\ PhaseGoes(w, "closingArchive")
  /\ UNCHANGED <<vars, drains>>

(* close() waits for no listener it notified: the process may go while     *)
(* FailTranscode is running.  What it still ran is gone with it.            *)
CloseArchive(w) ==
  /\ PhaseIs(w, "closingArchive")
  /\ ArchiveClosed(w)
  /\ PhaseGoes(w, "gone")
  /\ proc' = [proc EXCEPT ![w] = IdleProc]
  /\ arch' = [arch EXCEPT ![w] = "idle"]
  /\ fail' = IF fail.by = w THEN NoFailure ELSE fail
  /\ UNCHANGED <<input, ingest, row, disk, bucket, progress, tjob, ajob, hooks,
                 del, reclaim, crashes, drains>>

Restart(w) == PhaseIs(w, "gone") /\ PhaseGoes(w, "up") /\ UNCHANGED <<vars, drains>>

Drain(w) == CloseTranscode(w) \/ CloseArchive(w) \/ Restart(w)

DrainNext ==
  \/ \E w \in Workers : DrainRunTranscode(w) \/ DrainRunArchive(w) \/ Dies(w)
                          \/ Terminate(w) \/ Drain(w)
  \/ Others

DrainSpec == DrainInit /\ [][DrainNext]_drainVars

(* As in the pipeline; a shutdown goes on, and the process is replaced. *)
DrainFairness ==
  /\ WF_drainVars(Ingest /\ SamePhases) /\ WF_drainVars(RunFail /\ SamePhases)
  /\ \A w \in Workers : /\ WF_drainVars(DrainRunTranscode(w))
                      /\ WF_drainVars(DrainRunArchive(w))
                      /\ WF_drainVars(Drain(w))
  /\ \A d \in Purges : /\ WF_drainVars(ServeDelete(d) /\ SamePhases)
                     /\ WF_drainVars(StartDelete(d) /\ SamePhases)
  /\ WF_drainVars(StallTranscode /\ SamePhases) /\ WF_drainVars(StallArchive /\ SamePhases)

DrainPurgingSpec == DrainSpec /\ DrainFairness

-------------------------------------------------------------------------------
(* A clean shutdown costs no job anything: whatever a process is told to   *)
(* stop in the middle of, no job of its is ever found stalled - the one    *)
(* give-back BullMQ grants is kept for a process that dies                  *)
(* (transcode_worker.ts:26-27, "drained cleanly on SIGTERM").               *)
RestartsCostNothing ==
  crashes = 0 => tjob.stalls = 0 /\ ajob.stalls = 0

(* Why: whoever holds a job still runs it, unless it died.                  *)
JobsAreRun ==
  crashes = 0 =>
    \A w \in Workers : /\ HeldBy(tjob, w) => ~At(w, "idle")
                       /\ HeldBy(ajob, w) => ~ArchAt(w, "idle")
DrainInvariant ==
  /\ JobsAreRun
  /\ RestartsCostNothing
  /\ \A w \in Workers : /\ phase[w] \in {"closingArchive", "gone"} => At(w, "idle")
                        /\ phase[w] = "gone" => ArchAt(w, "idle")
==============================================================================
