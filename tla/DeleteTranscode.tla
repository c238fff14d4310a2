--------------------------- MODULE DeleteTranscode ---------------------------
(***************************************************************************)
(* DELETE /transcodes/:id (delete_transcode.ts): withdraw both jobs, or    *)
(* answer 409; destroy what the service produced; remove the row last.     *)
(* The withdrawal (support/withdraw_job.ts) is three awaits - getJob,      *)
(* isActive, remove - and a worker may act between any two.                 *)
(***************************************************************************)
EXTENDS IngestTranscode

DelFrame == <<input, ingest, hooks, proc, arch, fail, crashes>>

DelAt(d, pc) == del[d] = pc
DelGoes(d, pc) == del' = [del EXCEPT ![d] = pc]
OnlyDel ==
  UNCHANGED <<DelFrame, row, disk, bucket, progress, tjob, ajob, reclaim>>

StartDelete(d) ==
  /\ IdIsKnown
  /\ DelAt(d, "idle")
  /\ DelGoes(d, "find")
  /\ OnlyDel

(* 404 for a row that is not there. *)
DelFind(d) ==
  /\ DelAt(d, "find")
  /\ DelGoes(d, IF RowExists THEN "getTranscode" ELSE "idle")
  /\ OnlyDel

-------------------------------------------------------------------------------
(* withdrawJob on a queue holding job: absence counts as withdrawn, a job  *)
(* some worker holds is refused - when isActive sees it, or when remove()  *)
(* meets its lock.                                                          *)
AfterGetJobAbsentRefused(job, check, withdrawn) ==   \* faulty: no job, no deletion
  IF job.state = "none" THEN "idle" ELSE check
AfterGetJob(job, check, withdrawn) == IF job.state = "none" THEN withdrawn ELSE check
AfterIsActive(job, remove) == IF job.state = "active" THEN "idle" ELSE remove
NeverLocked(job) == FALSE   \* faulty: the removal is forced
Locked(job) == job.state = "active"

GetTranscodeJob(d) ==
  /\ DelAt(d, "getTranscode")
  /\ DelGoes(d, AfterGetJob(tjob, "checkTranscode", "getArchive"))
  /\ OnlyDel

CheckTranscodeJob(d) ==
  /\ DelAt(d, "checkTranscode")
  /\ DelGoes(d, AfterIsActive(tjob, "removeTranscode"))
  /\ OnlyDel

RemoveTranscodeJob(d) ==
  /\ DelAt(d, "removeTranscode")
  /\ IF Locked(tjob)
     THEN DelGoes(d, "idle") /\ UNCHANGED tjob
     ELSE DelGoes(d, "getArchive") /\ tjob' = NoJob
  /\ UNCHANGED <<DelFrame, row, disk, bucket, progress, ajob, reclaim>>

(* Faulty: the archive queue is forgotten. *)
SkipArchiveQueue(d) == DelAt(d, "getArchive") /\ DelGoes(d, "purgeHls") /\ OnlyDel

GetArchiveJob(d) ==
  /\ DelAt(d, "getArchive")
  /\ DelGoes(d, AfterGetJob(ajob, "checkArchive", "purgeHls"))
  /\ OnlyDel

CheckArchiveJob(d) ==
  /\ DelAt(d, "checkArchive")
  /\ DelGoes(d, AfterIsActive(ajob, "removeArchive"))
  /\ OnlyDel

RemoveArchiveJob(d) ==
  /\ DelAt(d, "removeArchive")
  /\ IF Locked(ajob)
     THEN DelGoes(d, "idle") /\ UNCHANGED ajob
     ELSE DelGoes(d, "purgeHls") /\ ajob' = NoJob
  /\ UNCHANGED <<DelFrame, row, disk, bucket, progress, tjob, reclaim>>

-------------------------------------------------------------------------------
(* deletePrefix pages through the prefix.  It stops at the first call that *)
(* throws, and it does not look at the errors a DeleteObjects answer lists  *)
(* for single keys.                                                         *)
Some(extent) == IF extent = "none" THEN "none" ELSE "part"
LeftBy(extent) == {"none"} \union (IF "quietErrors" \in Faults THEN {Some(extent)} ELSE {})

PurgeHls(d) ==
  /\ DelAt(d, "purgeHls")
  /\ reclaim' = TRUE
  /\ \/ /\ DelGoes(d, "purgeDl")
        /\ \E left \in LeftBy(bucket.hls) : bucket' = [bucket EXCEPT !.hls = left]
     \/ /\ "rustfs" \in Faults
        /\ DelGoes(d, "idle")
        /\ bucket' = [bucket EXCEPT !.hls = Some(@)]
  /\ UNCHANGED <<DelFrame, row, disk, progress, tjob, ajob>>

PurgeDl(d) ==
  /\ DelAt(d, "purgeDl")
  /\ \/ /\ DelGoes(d, IF input.remote THEN "rmHls" ELSE "purgeArchive")
        /\ \E left \in LeftBy(bucket.dl) : bucket' = [bucket EXCEPT !.dl = left]
     \/ /\ "rustfs" \in Faults
        /\ DelGoes(d, "idle")
        /\ bucket' = [bucket EXCEPT !.dl = Some(@)]
  /\ UNCHANGED <<DelFrame, row, disk, progress, tjob, ajob, reclaim>>

PurgeArchive(d) ==
  /\ DelAt(d, "purgeArchive")
  /\ DelGoes(d, "rmHls")
  /\ bucket' = [bucket EXCEPT !.archive = "none"]
  /\ UNCHANGED <<DelFrame, row, disk, progress, tjob, ajob, reclaim>>

(* The local staging.  sourceStore.removeFor finds the Source by the id    *)
(* its name starts with.                                                    *)
DelRemove(d, pc, next, left) ==
  /\ DelAt(d, pc)
  /\ DelGoes(d, next)
  /\ disk' = left
  /\ UNCHANGED <<DelFrame, row, bucket, progress, tjob, ajob, reclaim>>

DelRmHls(d) == DelRemove(d, "rmHls", "rmDl", [disk EXCEPT !.hls = "none"])
DelRmDl(d) == DelRemove(d, "rmDl", "rmFlac", [disk EXCEPT !.dl = "none"])
DelKeepFlac(d) == DelRemove(d, "rmFlac", "rmSource", disk)   \* faulty: a file is forgotten
DelRmFlac(d) == DelRemove(d, "rmFlac", "rmSource", [disk EXCEPT !.flac = "none"])
DelRmSource(d) == DelRemove(d, "rmSource", "clear", [disk EXCEPT !.source = FALSE])

DelClear(d) ==
  /\ DelAt(d, "clear")
  /\ DelGoes(d, "row")
  /\ progress' = "none"
  /\ UNCHANGED <<DelFrame, row, disk, bucket, tjob, ajob, reclaim>>

DelRow(d) ==
  /\ DelAt(d, "row")
  /\ DelGoes(d, "idle")
  /\ row' = NoRow
  /\ UNCHANGED <<DelFrame, disk, bucket, progress, tjob, ajob, reclaim>>

(* Any other await that throws ends the request with a 500; so does the    *)
(* death of the HTTP process, at any of them.                               *)
DelThrow(d) ==
  /\ \/ "db" \in Faults /\ del[d] \in {"find", "row"}
     \/ "redis" \in Faults
          /\ del[d] \in WithdrawTranscodePcs \union WithdrawArchivePcs \union {"clear"}
     \/ "rustfs" \in Faults /\ DelAt(d, "purgeArchive")
     \/ "disk" \in Faults /\ del[d] \in {"rmHls", "rmDl", "rmFlac", "rmSource"}
     \/ "httpCrash" \in Faults /\ del[d] # "idle"
  /\ DelGoes(d, "idle")
  /\ OnlyDel

ServeDelete(d) ==
  \/ DelFind(d) \/ GetTranscodeJob(d) \/ CheckTranscodeJob(d) \/ RemoveTranscodeJob(d)
  \/ GetArchiveJob(d) \/ CheckArchiveJob(d) \/ RemoveArchiveJob(d)
  \/ PurgeHls(d) \/ PurgeDl(d) \/ PurgeArchive(d) \/ DelRmHls(d) \/ DelRmDl(d)
  \/ DelRmFlac(d) \/ DelRmSource(d) \/ DelClear(d) \/ DelRow(d) \/ DelThrow(d)
===============================================================================
