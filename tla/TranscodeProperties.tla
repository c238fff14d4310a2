------------------------- MODULE TranscodeProperties -------------------------
(***************************************************************************)
(* What is true of the pipeline, and of what the documentation says of it, *)
(* what is not.  README.md says under which faults each property is        *)
(* checked, and why those.                                                  *)
(***************************************************************************)
EXTENDS TranscodePipeline

Purged == ingest = "accepted" /\ ~RowExists
Running == \E w \in Workers : ~At(w, "idle") \/ ~ArchAt(w, "idle")
Destroying == \E d \in Purges : del[d] \in DestroyPcs
MayRun(job) == job.state \in {"waiting", "active"}

-------------------------------------------------------------------------------
(* Deletion. *)

(* While a DELETE destroys, no worker runs a job of the Transcode and none *)
(* is queued that one could still take (delete_transcode.ts:63-70).         *)
DeletionExclusive ==
  Destroying => /\ ~Running
                /\ ~MayRun(tjob) /\ ~MayRun(ajob)

(* Once the row is gone nothing the service produced is left, and nothing  *)
(* comes back, in the bucket or on the disk (delete_transcode.ts:42-43,    *)
(* "never orphan bytes that nothing points to").                            *)
NoOrphanBytes == Purged => bucket = NoObjects /\ disk = NoFiles

(* A deleted Transcode stays deleted: no late save of a worker or of the   *)
(* failed listener brings its row back, even one that lost its lock.        *)
NoResurrection == [][Purged => ~RowExists']_vars

(* The deletion implements its contract. *)
Known == IF RowExists THEN "kept"
         ELSE IF ingest = "accepted" THEN "forgotten" ELSE "new"
Bytes == disk # NoFiles \/ bucket # NoObjects
Contract == INSTANCE ReclaimContract WITH
  known <- Known, held <- Running, closing <- Destroying, bytes <- Bytes
ReclaimsAsPromised == Contract!ContractSpec

(* A caller that retries its DELETE on 409 gets through in the end, dead   *)
(* workers included (transcode_in_progress_exception.ts:6-9).               *)
PurgeConverges == ingest = "accepted" ~> Purged

-------------------------------------------------------------------------------
(* Publication. *)

(* Whatever announces success - the row, the progress key at 100, the      *)
(* COMPLETED webhook - the client can play and download, until somebody    *)
(* deletes (process_transcode.ts:108-112, "before COMPLETED").              *)
Queued(status) == \E payload \in hooks : payload.status = status
Announced ==
  \/ row.status = "COMPLETED"
  \/ progress = "done"
  \/ Queued("COMPLETED")
AnnouncedIsServable == Announced /\ ~reclaim => Servable

(* What a caller hears by webhook is how its Transcode ended: FAILED is     *)
(* queued only for a row that says so and keeps saying so, downloads go     *)
(* with a published row only, and no transcode job completes without the    *)
(* COMPLETED its caller asked for - on a retry that skips the encode, after *)
(* a death, after add() queued and threw (process_transcode.ts:133,          *)
(* fail_transcode.ts:43).  Both may be queued for one Transcode.            *)
WebhooksTellTheOutcome ==
  /\ Queued("FAILED") => row.status \in {"FAILED", "none"}
  /\ \A payload \in hooks : payload.downloads => row.published \/ ~RowExists
  /\ tjob.state = "completed" /\ input.callback => Queued("COMPLETED")

(* An encode that was published is never paid for twice (docs/adr/0004).   *)
Publishes(w) == At(w, "encode") /\ proc'[w].pc = "encoding"
PublishedIsNotReencoded ==
  [][row.published => \A w \in Workers : ~Publishes(w)]_vars

(* The lifecycle ends once: a terminal status only ever gives way to the   *)
(* deletion.                                                                *)
TerminalIsFinal ==
  [][row.status \in {"COMPLETED", "FAILED"} => row'.status \in {row.status, "none"}]_vars
FailedIsFinal ==
  [][row.status = "FAILED" => row'.status \in {"FAILED", "none"}]_vars

(* The whole life of a Transcode, as its owner was promised it: forward, to *)
(* one end, COMPLETED only once it can be played, and a webhook that tells  *)
(* that end and no other (CONTEXT.md:34-43, docs/adr/0005).                 *)
Stage == IF RowExists THEN row.status
         ELSE IF ingest = "accepted" THEN "deleted" ELSE "new"
Lifecycle == INSTANCE LifecycleContract WITH
  stage <- Stage, playable <- Servable, told <- hooks, withdrawn <- reclaim
LivesAsPromised == Lifecycle!LifecycleSpec

(* One webhook is queued for a Transcode, and once: what its caller gets    *)
(* twice is one delivery repeated (docs/adr/0005, "au moins une fois").     *)
TellsCaller == (\E w \in Workers : EnqueueCompletedHook(w)) \/ EnqueueFailedHook
OneWebhook == [][TellsCaller => hooks = {}]_vars

(* Every accepted Transcode reaches a terminal status, unless a DELETE     *)
(* began to destroy it: one that then fails leaves a row without a job.     *)
AcceptedSettles ==
  ingest = "accepted" ~> reclaim \/ row.status \in {"COMPLETED", "FAILED"}

-------------------------------------------------------------------------------
(* The Source and the local disk. *)

(* A job that may still have to encode an upload finds its Source.          *)
SourceOutlivesItsJob ==
  MayRun(tjob) /\ ~row.published /\ ~input.remote => disk.source

(* A completed upload always has a master: its Source, or a whole archive  *)
(* (archive_transcode.ts:20-21, the archive before anything local).         *)
MasterIsKept ==
  row.status = "COMPLETED" /\ ~input.remote /\ ~reclaim
    => disk.source \/ bucket.archive = "whole"

(* A URL ingestion never has a Source, a FLAC or an archive of ours - which *)
(* is why its deletion may leave the archive key alone (docs/adr/0007).     *)
RemoteHasNoMaster ==
  input.remote => ~disk.source /\ disk.flac = "none" /\ bucket.archive = "none"

(* When the second job has succeeded nothing is left on the local disk.     *)
ArchivedDiskIsClear == ajob.state = "completed" => disk = NoFiles

(* A completed Transcode gives its local disk back in the end, unless its  *)
(* archive job gave up or a DELETE took over.                               *)
CompletedReleasesDisk ==
  row.status = "COMPLETED" ~> disk = NoFiles \/ ajob.state = "failed" \/ reclaim

-------------------------------------------------------------------------------
(* Why the deletion is exclusive and leaves nothing behind: the invariant  *)
(* that the steps preserve, as long as no worker loses a lock it still     *)
(* relies on.  PipelineProofs proves that they do.                          *)

(* Whoever runs a job holds it: the lock remove() meets stands for the run. *)
RunsHoldTheirJobs ==
  \A w \in Workers : /\ ~At(w, "idle") => HeldBy(tjob, w)
                     /\ ~ArchAt(w, "idle") => HeldBy(ajob, w)

(* A DELETE that went past a queue left no job in it, and none came back.  *)
WithdrawnIsAbsent ==
  \A d \in Purges :
    /\ del[d] \in WithdrawArchivePcs \union DestroyPcs => tjob.state = "none"
    /\ del[d] \in DestroyPcs => ajob.state = "none"

(* Only a Transcode whose request is through is deleted.                   *)
OnlyKnownIsDeleted ==
  /\ ingest = "job" => RowExists
  /\ \A d \in Purges : ~DelAt(d, "idle") => ingest = "accepted"
  /\ Purged => tjob.state = "none" /\ ajob.state = "none"

(* What a DELETE has destroyed so far stays destroyed while it goes on.    *)
AfterPurgeHls == DestroyPcs \ {"purgeHls"}
AfterPurgeDl == AfterPurgeHls \ {"purgeDl"}
AfterPurgeArchive == AfterPurgeDl \ {"purgeArchive"}
AfterRmHls == AfterPurgeArchive \ {"rmHls"}
AfterDelRmDl == AfterRmHls \ {"rmDl"}
AfterRmFlac == AfterDelRmDl \ {"rmFlac"}
AfterRmSource == AfterRmFlac \ {"rmSource"}
DestroyedStaysDestroyed ==
  \A d \in Purges :
    /\ del[d] \in AfterPurgeHls => bucket.hls = "none"
    /\ del[d] \in AfterPurgeDl => bucket.dl = "none"
    /\ del[d] \in AfterPurgeArchive => bucket.archive = "none"
    /\ del[d] \in AfterRmHls => disk.hls = "none"
    /\ del[d] \in AfterDelRmDl => disk.dl = "none"
    /\ del[d] \in AfterRmFlac => disk.flac = "none"
    /\ del[d] \in AfterRmSource => ~disk.source

Withdrawal == RunsHoldTheirJobs /\ WithdrawnIsAbsent /\ OnlyKnownIsDeleted
Reclamation ==
  /\ RemoteHasNoMaster
  /\ input.remote => ingest # "source"
  /\ DestroyedStaysDestroyed
  /\ NoOrphanBytes

(* The listener runs, and FAILED is saved, only for a job that failed for   *)
(* good: nobody takes it again.                                             *)
FailureIsTerminal ==
  /\ tjob.state # "none" => ingest = "accepted"
  /\ fail.pc # "idle" \/ row.status = "FAILED"
       => ingest = "accepted" /\ tjob.state \in {"failed", "none"}

-------------------------------------------------------------------------------
(* Statements of the documentation and of comments which the code does not *)
(* keep: each has a run of its own that exhibits the behaviour.             *)

Quiet == /\ ~MayRun(tjob) /\ ~MayRun(ajob) /\ ~Running /\ fail.pc = "idle"
         /\ \A d \in Purges : DelAt(d, "idle")

(* docs/adr/0004: neither Source nor HLS accumulate, the disk is bounded.   *)
FailedDiskIsClear == Quiet /\ row.status = "FAILED" => disk = NoFiles
===============================================================================
