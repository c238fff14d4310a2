---------------------------- MODULE TranscodeState ----------------------------
(***************************************************************************)
(* What the HTTP processes and the worker processes share about ONE        *)
(* Transcode.  Every key, path, job id and row is derived from the         *)
(* Transcode's id (support/hls.ts), so two Transcodes never meet and one   *)
(* of them is the whole state.                                             *)
(*                                                                         *)
(* A step of the model is the code between two awaits.  An await that may  *)
(* fail does so by throwing at its step, when the kind of fault it meets   *)
(* is in Faults; a call whose effect took place before it threw is, but    *)
(* for "lostReply", the same as the throw of the step that follows.        *)
(***************************************************************************)
EXTENDS BullMQ

CONSTANTS
  Purges,             \* the DELETE requests that may be in flight together
  Faults,             \* the kinds of fault that may happen
  TranscodeAttempts,  \* attempts of a transcode job (transcode_queue.ts: 3)
  ArchiveAttempts,    \* attempts of an archive job  (archive_queue.ts: 5)
  MaxCrashes          \* bound: how many times a worker process may die

FaultKinds ==
  {"db",          \* a Postgres query throws
   "redis",       \* a Redis command of the application throws
   "lostReply",   \* a job is added to a queue, but add() throws
   "rustfs",      \* an S3 call throws
   "media",       \* ffprobe or ffmpeg fails: OOM, I/O, disk full
   "disk",        \* a call to the local file system throws: EACCES, EBUSY, EIO
   "cutMaster",   \* a failed ffmpeg had written its master playlist already
   "lockLoss",    \* a job's lock expires while its worker is still running
   "quietErrors", \* DeleteObjects reports errors for some keys, in a 200
   "httpCrash"}   \* the HTTP process dies while it serves a request

ASSUME FaultsAreKinds == Faults \subseteq FaultKinds
ASSUME AttemptsArePositive ==
  TranscodeAttempts \in Nat \ {0} /\ ArchiveAttempts \in Nat \ {0}
ASSUME MaxCrashesIsNat == MaxCrashes \in Nat

VARIABLES
  input,     \* what the client sent
  ingest,    \* where its POST request stands
  row,       \* the Postgres row of the Transcode
  disk,      \* local files: the Source and the encode's staging
  bucket,    \* objects in RustFS under the keys of the Transcode
  progress,  \* the Redis progress key
  tjob,      \* the job of the transcode queue
  ajob,      \* the job of the archive queue
  hooks,     \* the distinct webhook payloads enqueued so far
  proc,      \* per worker: its run of ProcessTranscode
  arch,      \* per worker: its run of ArchiveTranscode
  fail,      \* the 'failed' listener's run of FailTranscode
  del,       \* per request: its run of DeleteTranscode
  reclaim,   \* history: a DELETE began to destroy
  crashes    \* how many times a worker process died

vars == <<input, ingest, row, disk, bucket, progress, tjob, ajob, hooks,
          proc, arch, fail, del, reclaim, crashes>>

-------------------------------------------------------------------------------
(* A media file the client sends: readable with an audio track, readable   *)
(* without one, or one ffprobe cannot read.                                 *)
Inputs == [remote   : BOOLEAN,
           callback : BOOLEAN,
           media    : {"good", "silent", "unreadable"}]

(* "refused": the request answered an error before its job was queued. *)
IngestPcs == {"source", "row", "job", "accepted", "refused"}

(* "none" is the absence of the row.  "published": output_playlist and     *)
(* downloads, saved together.  "archived": archive_key.                     *)
Statuses == {"none", "PENDING", "PROCESSING", "COMPLETED", "FAILED"}
Rows == [status : Statuses, published : BOOLEAN, archived : BOOLEAN]
NoRow == [status |-> "none", published |-> FALSE, archived |-> FALSE]
RowExists == row.status # "none"

(* Faulty: a save that inserts the row when it is missing. *)
Upserted(r) == r

(* An UPDATE touches the row only if it is still there: Lucid's save() of  *)
(* a loaded model never inserts.                                            *)
Updated(r) == IF RowExists THEN r ELSE row

(* How much of an artifact is there.  A local HLS directory is "cut" when  *)
(* it has a master playlist over renditions that stop short.                *)
Extents == {"none", "part", "whole"}
Disks == [source : BOOLEAN,
          hls    : Extents \union {"cut"},
          dl     : Extents,
          flac   : Extents]
NoFiles == [source |-> FALSE, hls |-> "none", dl |-> "none", flac |-> "none"]

(* Faulty: no checkpoint. *)
NeverStaged == FALSE

(* existsSync(masterPlaylistPath(id)): the checkpoint of ProcessTranscode. *)
MasterStaged == disk.hls \in {"cut", "whole"}

Buckets == [hls : Extents, dl : Extents, archive : Extents]
NoObjects == [hls |-> "none", dl |-> "none", archive |-> "none"]
Servable == bucket.hls = "whole" /\ bucket.dl = "whole"

(* The progress key: absent, a percentage below 100, or 100. *)
Percents == {"none", "live", "done"}

Payloads == [status : {"COMPLETED", "FAILED"}, downloads : BOOLEAN]

(* Where a run stands: the await it is at.  "thrown" and "fatal" are runs  *)
(* whose promise rejected, the second with an UnrecoverableError.           *)
ProcPcs ==
  {"idle", "find", "check", "probe", "saveProcessing", "progress0", "encode",
   "encoding", "measure", "pushHls", "pushHlsRest", "pushDl", "pushDlRest",
   "saveCompleted", "progress100", "hook", "archive", "return",
   "thrown", "fatal"}
ArchPcs == {"idle", "find", "push", "record", "rmHls", "rmDl", "rmFlac",
            "rmSource", "return", "thrown", "fatal"}
FailPcs == {"idle", "find", "save", "clear", "hook", "rmSource", "rmHls"}
WithdrawTranscodePcs == {"getTranscode", "checkTranscode", "removeTranscode"}
WithdrawArchivePcs == {"getArchive", "checkArchive", "removeArchive"}
DestroyPcs == {"purgeHls", "purgeDl", "purgeArchive", "rmHls", "rmDl",
               "rmFlac", "rmSource", "clear", "row"}
DelPcs == {"idle", "find"} \union WithdrawTranscodePcs
            \union WithdrawArchivePcs \union DestroyPcs

(* ProcessTranscode keeps the status its model instance last saw: Lucid's  *)
(* save() writes a column only if it differs from that.                     *)
IdleProc == [pc |-> "idle", seen |-> "none"]
(* FailTranscode keeps the worker it runs in and the downloads it read. *)
NoFailure == [pc |-> "idle", by |-> NoWorker, published |-> FALSE]

TypeOK ==
  /\ input \in Inputs
  /\ ingest \in IngestPcs
  /\ row \in Rows
  /\ disk \in Disks
  /\ bucket \in Buckets
  /\ progress \in Percents
  /\ tjob \in Jobs(TranscodeAttempts)
  /\ ajob \in Jobs(ArchiveAttempts)
  /\ hooks \in SUBSET Payloads
  /\ proc \in [Workers -> [pc : ProcPcs, seen : Statuses]]
  /\ arch \in [Workers -> ArchPcs]
  /\ fail \in [pc : FailPcs, by : Workers \union {NoWorker}, published : BOOLEAN]
  /\ del \in [Purges -> DelPcs]
  /\ reclaim \in BOOLEAN
  /\ crashes \in 0..MaxCrashes
===============================================================================
