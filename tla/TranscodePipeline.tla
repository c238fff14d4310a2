-------------------------- MODULE TranscodePipeline --------------------------
(***************************************************************************)
(* The life of one Transcode: the request that creates it, the worker      *)
(* processes that encode and archive it, the listener that fails it and    *)
(* the requests that delete it, over the row, the disk, the bucket, Redis  *)
(* and the two queues they share.                                           *)
(***************************************************************************)
EXTENDS IngestTranscode, ProcessTranscode, FailTranscode, ArchiveTranscode,
        DeleteTranscode

Init ==
  /\ InitIngest
  /\ row = NoRow
  /\ disk = NoFiles
  /\ bucket = NoObjects
  /\ progress = "none"
  /\ tjob = NoJob
  /\ ajob = NoJob
  /\ hooks = {}
  /\ proc = [w \in Workers |-> IdleProc]
  /\ arch = [w \in Workers |-> "idle"]
  /\ fail = NoFailure
  /\ del = [d \in Purges |-> "idle"]
  /\ reclaim = FALSE
  /\ crashes = 0

-------------------------------------------------------------------------------
(* The environment of the workers. *)

Busy(w) == ~At(w, "idle") \/ ~ArchAt(w, "idle") \/ fail.by = w

(* A worker process dies with everything it was running (its ffmpeg too)   *)
(* and is restarted.  Its jobs stay active until their locks expire.        *)
Crash(w) ==
  /\ crashes < MaxCrashes
  /\ Busy(w)
  /\ crashes' = crashes + 1
  /\ proc' = [proc EXCEPT ![w] = IdleProc]
  /\ arch' = [arch EXCEPT ![w] = "idle"]
  /\ fail' = IF fail.by = w THEN NoFailure ELSE fail
  /\ UNCHANGED <<input, ingest, row, disk, bucket, progress, tjob, ajob, hooks,
                 del, reclaim>>

(* A lock expires when nobody renews it: the process that took the job is  *)
(* gone, or - a blocked event loop, a Redis outage - cannot.                *)
TranscodeLockExpired ==
  \E w \in Workers : HeldBy(tjob, w) /\ (At(w, "idle") \/ "lockLoss" \in Faults)
ArchiveLockExpired ==
  \E w \in Workers : HeldBy(ajob, w) /\ (ArchAt(w, "idle") \/ "lockLoss" \in Faults)

StallTranscode ==
  /\ TranscodeLockExpired
  /\ tjob' = Stalled(tjob)
  /\ UNCHANGED <<input, ingest, row, disk, bucket, progress, ajob, hooks, proc,
                 arch, fail, del, reclaim, crashes>>

StallArchive ==
  /\ ArchiveLockExpired
  /\ ajob' = Stalled(ajob)
  /\ UNCHANGED <<input, ingest, row, disk, bucket, progress, tjob, hooks, proc,
                 arch, fail, del, reclaim, crashes>>

(* The progress key carries a TTL of an hour (progress_store.ts). *)
ExpireProgress ==
  /\ progress # "none"
  /\ progress' = "none"
  /\ UNCHANGED <<input, ingest, row, disk, bucket, tjob, ajob, hooks, proc,
                 arch, fail, del, reclaim, crashes>>

Next ==
  \/ Ingest
  \/ \E w \in Workers : RunTranscode(w) \/ EncodeTick(w) \/ RunArchive(w) \/ Crash(w)
  \/ RunFail
  \/ \E d \in Purges : StartDelete(d) \/ ServeDelete(d)
  \/ StallTranscode \/ StallArchive \/ ExpireProgress

(* Started requests, runs and queues go on; clients and faults owe nothing. *)
Fairness ==
  /\ WF_vars(Ingest)
  /\ \A w \in Workers : WF_vars(RunTranscode(w)) /\ WF_vars(RunArchive(w))
  /\ WF_vars(RunFail)
  /\ \A d \in Purges : WF_vars(ServeDelete(d))
  /\ WF_vars(StallTranscode) /\ WF_vars(StallArchive)

Spec == Init /\ [][Next]_vars
FairSpec == Spec /\ Fairness

(* The purge of the caller (ADR-0008): a request that is refused is retried. *)
PurgingSpec == FairSpec /\ \A d \in Purges : WF_vars(StartDelete(d))
===============================================================================
