---------------------------- MODULE FailTranscode ----------------------------
(***************************************************************************)
(* FailTranscode.execute (fail_transcode.ts), run by the worker's 'failed' *)
(* listener.  The listener's event comes after the job has moved, so the   *)
(* worker no longer owns anything while this runs; and whatever it throws  *)
(* is only logged (transcode_worker.ts:73-75), nobody retries it.           *)
(* A job fails for good once, so one run at a time is all there is.        *)
(***************************************************************************)
EXTENDS TranscodeState

FailFrame == <<input, ingest, bucket, tjob, ajob, proc, arch, del, reclaim, crashes>>

FailAt(pc) == fail.pc = pc
FailGoes(pc) == fail' = IF pc = "idle" THEN NoFailure ELSE [fail EXCEPT !.pc = pc]

FailFind ==
  /\ FailAt("find")
  /\ fail' = IF RowExists
             THEN [fail EXCEPT !.pc = "save", !.published = row.published]
             ELSE NoFailure
  /\ UNCHANGED <<FailFrame, row, disk, progress, hooks>>

FailSave ==
  /\ FailAt("save")
  /\ FailGoes("clear")
  /\ row' = Updated([row EXCEPT !.status = "FAILED"])
  /\ UNCHANGED <<FailFrame, disk, progress, hooks>>

FailClear ==
  /\ FailAt("clear")
  /\ FailGoes(IF input.callback THEN "hook" ELSE "rmSource")
  /\ progress' = "none"
  /\ UNCHANGED <<FailFrame, row, disk, hooks>>

(* downloads: transcode.downloads ?? [] *)
EnqueueFailedHook ==
  /\ FailAt("hook")
  /\ hooks' = hooks \union {[status |-> "FAILED", downloads |-> fail.published]}
  /\ \/ FailGoes("rmSource")
     \/ "lostReply" \in Faults /\ FailGoes("idle")
  /\ UNCHANGED <<FailFrame, row, disk, progress>>

FailRmSource ==
  /\ FailAt("rmSource")
  /\ FailGoes("rmHls")
  /\ disk' = [disk EXCEPT !.source = @ /\ input.remote]
  /\ UNCHANGED <<FailFrame, row, progress, hooks>>

FailRmHls ==
  /\ FailAt("rmHls")
  /\ FailGoes("idle")
  /\ disk' = [disk EXCEPT !.hls = "none"]
  /\ UNCHANGED <<FailFrame, row, progress, hooks>>

FailThrow ==
  /\ \/ "db" \in Faults /\ fail.pc \in {"find", "save"}
     \/ "redis" \in Faults /\ fail.pc \in {"clear", "hook"}
     \/ "disk" \in Faults /\ fail.pc \in {"rmSource", "rmHls"}
  /\ FailGoes("idle")
  /\ UNCHANGED <<FailFrame, row, disk, progress, hooks>>

RunFail ==
  \/ FailFind \/ FailSave \/ FailClear \/ EnqueueFailedHook
  \/ FailRmSource \/ FailRmHls \/ FailThrow
===============================================================================
