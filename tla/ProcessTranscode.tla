--------------------------- MODULE ProcessTranscode ---------------------------
(***************************************************************************)
(* The transcode Worker's processor (commands/transcode_worker.ts) and     *)
(* ProcessTranscode.execute, which it runs (process_transcode.ts): one     *)
(* action per await, for worker w.                                          *)
(***************************************************************************)
EXTENDS TranscodeState

ProcFrame == <<input, ingest, arch, del, reclaim, crashes>>

At(w, pc) == proc[w].pc = pc
Goes(w, pc) == proc' = [proc EXCEPT ![w].pc = pc]
Ends(w) == proc' = [proc EXCEPT ![w] = IdleProc]
OnlyProc ==
  UNCHANGED <<ProcFrame, row, disk, bucket, progress, tjob, ajob, hooks, fail>>

(* A local Source must still be there to be read; a URL is the caller's.   *)
SourceReadable == input.remote \/ disk.source

(* Does another worker's ffmpeg write the same staging directory? *)
EncodingElsewhere(w) == \E v \in Workers \ {w} : At(v, "encoding")

-------------------------------------------------------------------------------
(* BullMQ hands the job to a free worker; a doomed one only to be failed.  *)
TakeTranscode(w) ==
  /\ tjob.state = "waiting"
  /\ At(w, "idle")
  /\ tjob' = Taken(tjob, w)
  /\ Goes(w, IF Doomed(tjob) THEN "fatal" ELSE "find")
  /\ UNCHANGED <<ProcFrame, row, disk, bucket, progress, ajob, hooks, fail>>

(* findOrFail: an absent row throws. *)
FindOrFail(w) ==
  /\ At(w, "find")
  /\ proc' = [proc EXCEPT ![w] = [pc |-> IF RowExists THEN "check" ELSE "thrown",
                                  seen |-> row.status]]
  /\ OnlyProc

(* The checkpoint: a staged master playlist means "already encoded". *)
Checkpoint(w) ==
  /\ At(w, "check")
  /\ Goes(w, IF MasterStaged THEN "measure" ELSE "probe")
  /\ OnlyProc

(* The worker turns NoAudioTrackException into an UnrecoverableError; a    *)
(* source ffprobe cannot open rejects like any other failure.               *)
AfterProbe ==
  IF input.media = "unreadable" \/ ~SourceReadable THEN "thrown"
  ELSE IF input.media = "silent" THEN "fatal" ELSE "saveProcessing"

Probe(w) ==
  /\ At(w, "probe")
  /\ Goes(w, AfterProbe)
  /\ OnlyProc

(* save() writes the status unless the instance already held it. *)
SaveStatus(w, status, published) ==
  row' = Updated([row EXCEPT
                    !.status = IF proc[w].seen = status THEN @ ELSE status,
                    !.published = @ \/ published])

SaveProcessing(w) ==
  /\ At(w, "saveProcessing")
  /\ SaveStatus(w, "PROCESSING", FALSE)
  /\ proc' = [proc EXCEPT ![w] = [pc |-> "progress0", seen |-> "PROCESSING"]]
  /\ UNCHANGED <<ProcFrame, disk, bucket, progress, tjob, ajob, hooks, fail>>

StartProgress(w) ==
  /\ At(w, "progress0")
  /\ Goes(w, "encode")
  /\ progress' = "live"
  /\ UNCHANGED <<ProcFrame, row, disk, bucket, tjob, ajob, hooks, fail>>

(* Faulty: a FLAC for URL sources too. *)
AlwaysArchive == TRUE

(* A URL source keeps no FLAC: the original lives at the URL. *)
WithArchive == ~input.remote

(* mkdir, then ffmpeg -y opens its outputs over whatever was there.  A     *)
(* source it cannot open stops it before it touches an output.              *)
StartEncode(w) ==
  /\ At(w, "encode")
  /\ IF SourceReadable
     THEN /\ Goes(w, "encoding")
          /\ disk' = [disk EXCEPT !.hls  = IF MasterStaged THEN "cut" ELSE "part",
                                  !.dl   = "part",
                                  !.flac = IF WithArchive THEN "part" ELSE @]
     ELSE /\ Goes(w, "thrown")
          /\ UNCHANGED disk
  /\ UNCHANGED <<ProcFrame, row, bucket, progress, tjob, ajob, hooks, fail>>

(* onProgress sets the percentage without awaiting it, errors swallowed. *)
EncodeTick(w) ==
  /\ At(w, "encoding")
  /\ progress' = "live"
  /\ UNCHANGED <<ProcFrame, row, disk, bucket, proc, tjob, ajob, hooks, fail>>

(* ffmpeg exits 0; two of them in one directory may leave a mixture.       *)
FinishEncode(w) ==
  /\ At(w, "encoding")
  /\ Goes(w, "measure")
  /\ \E extent \in {"whole"} \union (IF EncodingElsewhere(w) THEN {"cut"} ELSE {}) :
       disk' = [disk EXCEPT !.hls  = extent,
                            !.dl   = IF extent = "whole" THEN "whole" ELSE "part",
                            !.flac = IF ~WithArchive THEN @
                                     ELSE IF extent = "whole" THEN "whole" ELSE "part"]
  /\ UNCHANGED <<ProcFrame, row, bucket, progress, tjob, ajob, hooks, fail>>

(* ffmpeg exits otherwise.  Nothing is cleaned up.  With "cutMaster" the   *)
(* HLS muxer had closed its playlists: another output of the pass failed,  *)
(* or a signal made ffmpeg finish early.                                    *)
FailEncode(w) ==
  /\ At(w, "encoding")
  /\ "media" \in Faults
  /\ Goes(w, "thrown")
  /\ \/ UNCHANGED disk
     \/ "cutMaster" \in Faults /\ disk' = [disk EXCEPT !.hls = "cut"]
  /\ UNCHANGED <<ProcFrame, row, bucket, progress, tjob, ajob, hooks, fail>>

(* measureDownloads, after an encode or in place of one: stat throws if    *)
(* the staging is gone.                                                     *)
MeasureDownloads(w) ==
  /\ At(w, "measure")
  /\ Goes(w, IF disk.dl = "none" THEN "thrown" ELSE "pushHls")
  /\ OnlyProc

-------------------------------------------------------------------------------
(* uploadDirectory puts file after file: some objects, then the rest.      *)
(* Putting a whole directory over a whole prefix leaves it whole.           *)
SomePut(staged, there) ==
  IF staged = "whole" /\ there = "whole" THEN "whole" ELSE "part"
AllPut(staged) == IF staged = "whole" THEN "whole" ELSE "part"

(* readdir throws if the directory is gone. *)
PushHls(w) ==
  /\ At(w, "pushHls")
  /\ IF disk.hls = "none"
     THEN Goes(w, "thrown") /\ UNCHANGED bucket
     ELSE /\ Goes(w, "pushHlsRest")
          /\ bucket' = [bucket EXCEPT !.hls = SomePut(disk.hls, @)]
  /\ UNCHANGED <<ProcFrame, row, disk, progress, tjob, ajob, hooks, fail>>

PushHlsThen(w, next) ==
  /\ At(w, "pushHlsRest")
  /\ IF disk.hls = "none"
     THEN Goes(w, "thrown") /\ UNCHANGED bucket
     ELSE /\ Goes(w, next)
          /\ bucket' = [bucket EXCEPT !.hls = AllPut(disk.hls)]
  /\ UNCHANGED <<ProcFrame, row, disk, progress, tjob, ajob, hooks, fail>>

(* Faulty: COMPLETED before the download renditions are up. *)
PushHlsOnly(w) == PushHlsThen(w, "saveCompleted")

PushHlsRest(w) == PushHlsThen(w, "pushDl")

PushDl(w) ==
  /\ At(w, "pushDl")
  /\ IF disk.dl = "none"
     THEN Goes(w, "thrown") /\ UNCHANGED bucket
     ELSE /\ Goes(w, "pushDlRest")
          /\ bucket' = [bucket EXCEPT !.dl = SomePut(disk.dl, @)]
  /\ UNCHANGED <<ProcFrame, row, disk, progress, tjob, ajob, hooks, fail>>

PushDlRest(w) ==
  /\ At(w, "pushDlRest")
  /\ IF disk.dl = "none"
     THEN Goes(w, "thrown") /\ UNCHANGED bucket
     ELSE /\ Goes(w, "saveCompleted")
          /\ bucket' = [bucket EXCEPT !.dl = AllPut(disk.dl)]
  /\ UNCHANGED <<ProcFrame, row, disk, progress, tjob, ajob, hooks, fail>>

SaveCompleted(w) ==
  /\ At(w, "saveCompleted")
  /\ SaveStatus(w, "COMPLETED", TRUE)
  /\ proc' = [proc EXCEPT ![w] = [pc |-> "progress100", seen |-> "COMPLETED"]]
  /\ UNCHANGED <<ProcFrame, disk, bucket, progress, tjob, ajob, hooks, fail>>

(* Faulty: the second job is queued for callers with a webhook only. *)
ArchiveIfCallback == IF input.callback THEN "hook" ELSE "return"

(* Faulty: only the first attempt tells the caller. *)
HookOnFirstAttempt ==
  IF input.callback /\ tjob.made = 0 THEN "hook" ELSE "archive"

AfterCompleted == IF input.callback THEN "hook" ELSE "archive"

FinishProgress(w) ==
  /\ At(w, "progress100")
  /\ Goes(w, AfterCompleted)
  /\ progress' = "done"
  /\ UNCHANGED <<ProcFrame, row, disk, bucket, tjob, ajob, hooks, fail>>

EnqueueCompletedHook(w) ==
  /\ At(w, "hook")
  /\ hooks' = hooks \union {[status |-> "COMPLETED", downloads |-> TRUE]}
  /\ \/ Goes(w, "archive")
     \/ "lostReply" \in Faults /\ Goes(w, "thrown")
  /\ UNCHANGED <<ProcFrame, row, disk, bucket, progress, tjob, ajob, fail>>

(* The last await of the run; add() may have added the job and yet throw.  *)
EnqueueArchive(w) ==
  /\ At(w, "archive")
  /\ ajob' = Added(ajob)
  /\ \/ Goes(w, "return")
     \/ "lostReply" \in Faults /\ Goes(w, "thrown")
  /\ UNCHANGED <<ProcFrame, row, disk, bucket, progress, tjob, hooks, fail>>

-------------------------------------------------------------------------------
(* The awaits that a fault makes throw. *)
ProcFaulty(w) ==
  \/ "db" \in Faults /\ proc[w].pc \in {"find", "saveProcessing", "saveCompleted"}
  \/ "redis" \in Faults /\ proc[w].pc \in {"progress0", "progress100", "hook", "archive"}
  \/ "rustfs" \in Faults
       /\ proc[w].pc \in {"pushHls", "pushHlsRest", "pushDl", "pushDlRest"}
  \/ "media" \in Faults /\ proc[w].pc \in {"probe", "encode"}
  \/ "disk" \in Faults
       /\ proc[w].pc \in {"encode", "measure", "pushHls", "pushHlsRest", "pushDl", "pushDlRest"}

ProcThrow(w) ==
  /\ ProcFaulty(w)
  /\ Goes(w, "thrown")
  /\ OnlyProc

(* BullMQ completes the job, if the worker still has its lock. *)
CompleteTranscode(w) ==
  /\ At(w, "return")
  /\ tjob' = IF HeldBy(tjob, w) THEN Completed(tjob) ELSE tjob
  /\ Ends(w)
  /\ UNCHANGED <<ProcFrame, row, disk, bucket, progress, ajob, hooks, fail>>

(* BullMQ moves the job to failed or back to waiting, then emits 'failed', *)
(* whose listener runs FailTranscode for a terminal failure only.  Without *)
(* the lock neither happens.                                                *)
RejectTranscode(w) ==
  LET fatal == At(w, "fatal") IN
  /\ proc[w].pc \in {"thrown", "fatal"}
  /\ Ends(w)
  /\ IF HeldBy(tjob, w)
     THEN /\ tjob' = Failed(tjob, TranscodeAttempts, fatal)
          /\ fail' = IF Terminal(tjob, TranscodeAttempts, fatal)
                     THEN [NoFailure EXCEPT !.pc = "find", !.by = w]
                     ELSE fail
     ELSE UNCHANGED <<tjob, fail>>
  /\ UNCHANGED <<ProcFrame, row, disk, bucket, progress, ajob, hooks>>

RunTranscode(w) ==
  \/ TakeTranscode(w) \/ FindOrFail(w) \/ Checkpoint(w) \/ Probe(w)
  \/ SaveProcessing(w) \/ StartProgress(w) \/ StartEncode(w)
  \/ FinishEncode(w) \/ FailEncode(w) \/ MeasureDownloads(w)
  \/ PushHls(w) \/ PushHlsRest(w) \/ PushDl(w) \/ PushDlRest(w)
  \/ SaveCompleted(w) \/ FinishProgress(w) \/ EnqueueCompletedHook(w)
  \/ EnqueueArchive(w) \/ ProcThrow(w) \/ CompleteTranscode(w)
  \/ RejectTranscode(w)
===============================================================================
