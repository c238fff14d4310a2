# Verification of the HLS streaming service

TLA+ models of the Transcode pipeline of this repository, TLC configurations
that check them on small instances, and TLAPS proofs of their central safety
properties. Paths below are relative to the repository.

## 1. The system

The service turns an audio or video source into audio-only HLS, three download
renditions and - for uploads - a lossless FLAC master. It is a set of processes
over shared stores.

| Part | State it keeps | Operations | Who it meets |
|---|---|---|---|
| HTTP: `POST /upload`, `POST /transcodes` (`upload_file_controller.ts`, `ingest_url_controller.ts`, `create_transcode.ts`, `source_store.ts`) | Source on the local disk, PENDING row | save, create, enqueue, answer 202 | transcode queue |
| HTTP: `DELETE /transcodes/:id` (`delete_transcode.ts`, `withdraw_job.ts`) | none of its own | withdraw both jobs, purge RustFS, clear the disk and Redis, delete the row; 404, 409, 500 | both queues, everything the workers write |
| Worker process (`transcode_worker.ts`) | the runs of its three BullMQ Workers and of its `failed` listener, where its shutdown stands | transcode, archive, deliver webhooks; drain on SIGTERM | queues, row, disk, RustFS, Redis |
| `ProcessTranscode` | row, staging, HLS and downloads in RustFS, progress key | checkpoint, probe, encode, push, COMPLETED, enqueue webhook and archive job | ffmpeg, archive and webhook queues |
| `FailTranscode` | row, disk | FAILED, clear progress, enqueue webhook, remove Source and HLS staging | run by the listener, its errors are only logged |
| `ArchiveTranscode` | archive object, `archive_key`, disk | push the FLAC, record its key, clear the disk | races with deletion and with transcode retries |
| Progress report (`ffmpeg_transcoder.ts:105-140`, `process_transcode.ts:85-96`, `progress_store.ts`) | the text not read yet, the last percentage, Redis commands in flight, the key | read a chunk, take a line, SET, DEL, expire | ffmpeg's stdout, Redis, the status endpoint |
| BullMQ queues | job state, lock, attempts | add, take, complete, fail, stall, remove | Redis; outside the repository |
| Webhook delivery (`deliver_webhook.ts`) | the webhook job | POST with a 10 s abort, 5 attempts | the caller |
| Status and SSE (`get_transcode_status_by_id_controller.ts`, `transcode_publisher.ts`) | none | read row, then progress key; fire-and-forget broadcasts | clients, who are promised one payload on both channels |
| Ops snapshot (`get_ops_pipeline_controller.ts`) | none | counts and lists of the transcode queue | operators |
| Token verification (`token_verifier.ts`) | cached verdicts in Redis | ask, cache, answer | external verifier |
| Localised texts and messages (`localized_text.ts`, `request_lang.ts`, `validator_messages.ts`, `validators/localized_text.ts`, the exceptions) | none | resolve a language, pick a translation, validate and explain a field | the 401, 404 and 409 of the routes; the translated field and the messages have no caller, and the routes' validators install none |
| Search terms (`search_term.ts`) | none | trim, bound, escape, build the pattern | Postgres ILIKE; no caller yet |
| Images (`image_store.ts`, `image_signature.ts`, the image rule) | files | detect, validate, store under an extension | an upload whose temporary file may vanish; no caller yet |
| Published names (`hls.ts`), pagination | none | string functions | - |

What is hard: a step is only the code between two awaits, and between any two
of them another worker, a DELETE or the stalled check may act; every await may
throw and BullMQ repeats the run on whatever it left; a worker may die with its
jobs locked; nothing is transactional across Postgres, Redis, RustFS and the
disk. `PROJECT.json` lists the hazards at the line where they bite.

What makes each part correct, in one line each: *ingestion* - an accepted
request always has its row and its job; *transcode job* - nothing announces
success before a client can play it, a published encode is never redone, every
accepted Transcode ends COMPLETED or FAILED once, and its caller hears that very
end; *archive job* - no master is removed before it is archived, and the local
disk is given back; *deletion* - it destroys only what nobody works on, leaves no
bytes without a row, and converges when retried; *deletePrefix* - it empties its
prefix, touches nothing else, and returns; *shutdown* - it costs no job one of its
stalls; *progress* - no report is lost between two chunks, the percentage falls
only with a new encode, and nothing late follows the end; *token cache* - a revoked
token fades, a denial too; *webhooks* - at least once, a bounded number of times,
and never a worker held for ever; *status* - a poll is never behind what was
pushed, and every end is pushed; *helpers* - a refusal whose words the service chose
is in French for who asks for French, a translated field shows what was stored, a
search matches the texts that contain what was typed and no others, an image is stored
under the extension of its bytes. Of the helpers the routes use the exceptions and the
language of a request only; the rest is code the service keeps and does not call yet.

## 2. Modules and the code they stand for

```
BullMQ ─── TranscodeState ─┬─ IngestTranscode  ─┐
   │                       ├─ ProcessTranscode ─┤
   │                       ├─ FailTranscode    ─┼─ TranscodePipeline ─ TranscodeProperties
   │                       ├─ ArchiveTranscode ─┤      (the latter with INSTANCE ReclaimContract
   │                       └─ DeleteTranscode  ─┘                          and LifecycleContract)
   │     TranscodeProperties ─┬─ MCTranscodePipeline ─┬──────────────┐
   │                          ├─ StatusRead ──────────┴─ MCStatusRead │
   │                          └─ WorkerDrain ──────────── MCWorkerDrain
   └─ WebhookDelivery ─ MCWebhookDelivery
EncodeProgress ─ MCEncodeProgress
PrefixDeletion ─ MCPrefixDeletion          TokenVerifier ─ MCTokenVerifier
Localisation, SearchTerm, ImageUpload ─ HelperCalls ─ MCHelperCalls

Proofs: BullMQProofs ─┬─ PipelineProofs ─── CompletionProofs
                      │  (and WorkerDrain)  (and StatusRead)
                      └─ WebhookProofs
        ProgressProofs       PrefixProofs       TokenProofs       HelperProofs
```

| Module | Code | State and actions |
|---|---|---|
| `BullMQ` | the library, as its callers use it | a job as `[state, owner, made, stalls]`; add (deduplicated by id in any state), take, complete, fail with retries, stalled check |
| `TranscodeState` | `hls.ts`, the model and migration, the payload types | row, disk, bucket, progress key, both jobs, enqueued webhooks, and one program counter per running handler |
| `IngestTranscode` | the two POST controllers, `create_transcode.ts` | Source, row, enqueue, or the refusal in between |
| `ProcessTranscode` | `process_transcode.ts`, `ffmpeg_transcoder.ts`, the transcode Worker | one action per await, from `findOrFail` to the enqueue of the archive job; `ProcThrow` is any of them throwing |
| `FailTranscode` | `fail_transcode.ts`, the `failed` listener | runs once the job is gone for good; whatever throws in it is dropped |
| `ArchiveTranscode` | `archive_transcode.ts`, the archive Worker | push, record, four removals |
| `DeleteTranscode` | `delete_transcode.ts`, `withdraw_job.ts`, its controller | `getJob`, `isActive` and `remove` of each queue as three steps, then nine destructive awaits, the row last |
| `TranscodePipeline` | `transcode_worker.ts` and all of the above | composition; crash, expired lock, stalled check, TTL of the progress key; fairness |
| `ReclaimContract` | the contract in the header of `delete_transcode.ts` and ADR-0008 | abstract: destroyed only while nobody holds it, forgotten only when no byte is left |
| `LifecycleContract` | `CONTEXT.md:34-43`, ADR-0005 | abstract: the life of a Transcode as its owner was promised it - the four statuses and the deletion, when it can be played, what the webhook tells |
| `TranscodeProperties` | - | every property of the pipeline and the inductive invariants |
| `StatusRead` | `transcode_publisher.ts`, `pipeline_firehose.ts`, `transcode_transformer.ts`, `transcode_progress.ts`, the status controller, `find_transcode.ts` | the last payload pushed, joined to the pipeline's own steps, and a poll in two reads that any step may come between |
| `WorkerDrain` | the `terminating` hook of `transcode_worker.ts:119-123` | the pipeline beside shutdowns: a phase per process; told to stop, it takes no job and waits for those it runs, transcode Worker first, archive Worker last; then it is replaced |
| `EncodeProgress` | `ffmpeg_transcoder.ts:105-140`, `process_transcode.ts:85-96`, `progress_store.ts` | lines written, chunks read, lines taken, SETs sent without awaiting them, executed in order or refused; attempts, a probe that rejects the source at once, deaths, the listener's DEL or what throws before it, the TTL |
| `PrefixDeletion` | `rustfs_storage.ts:64-96` | close the prefix with one slash, list, delete, follow the token; several calls at once |
| `TokenVerifier` | `token_verifier.ts`, `auth_middleware.ts`, `transmit.ts` | the cached verdict and its TTL, requests that look up, ask, hear and store, in ticks of time |
| `WebhookDelivery` | `webhook_queue.ts`, `deliver_webhook.ts`, the webhook Worker | jobs, POSTs, a caller that handles one late, refuses or stays silent |
| `Localisation` | `request_lang.ts`, `localized_text.ts`, `validator_messages.ts`, `validators/localized_text.ts`, the exceptions | operators: language of a request, fallback chains, rules and messages of a translated field; a route's 422 is VineJS's own, in English (external) |
| `SearchTerm` | `search_term.ts` | operators: the pattern of a term, and what ILIKE (external) makes of it |
| `ImageUpload` | `image_signature.ts`, `image_store.ts`, the image rule | operators: format by signature, what the validator accepts, what is stored; @adonisjs/static, which serves it, is external and taken to agree with `file_agent.ts` on the extensions stored |
| `HelperCalls` | the refusals of the routes, and who would call the three | a route refuses, or one call of a helper, and for texts and images the second one that uses what the first stored |

Reading conventions.

- **One Transcode.** Every key, path, row and job id is a function of the id
  (`hls.ts`), so two Transcodes share nothing but workers; one is the state. A
  worker busy with another Transcode is a worker that does not act.
- **A step is the code between two awaits.** An await fails by throwing at its
  step when its kind of fault is in `Faults`. A call that took effect and still
  threw is the same as the throw of the next step, except the enqueues, which are
  deduplicated: those are the fault `lostReply`. An `rm` of the local disk (`disk`)
  throws with what it names still there or gone; one that stops halfway through a
  directory is not modelled.
- **Workers** run with `WORKER_CONCURRENCY` 1 (the default): one transcode run, one
  archive run and the listener per process. A delayed retry is `"waiting"`: the
  backoff is an unspecified time.
- **Locks.** A job stays locked from the moment it is taken until it ends or the
  stalled check gives it back; an expired lock is visible only then. A process
  that is killed takes its ffmpeg with it.
- **Lucid.** `save()` of a loaded model updates the columns that differ from what it
  loaded (`seen`) and never inserts.
- **Text.** In `EncodeProgress` a line is a short sequence of symbols and times have one or
  two digits; in `PrefixDeletion` a name is a sequence of letters; in `Localisation` a text is the
  language it is written in.
- **Data.** A directory is `none`, `part`, `whole`, or - HLS only - `cut`: a master
  playlist over truncated renditions. Display columns, ffmpeg arguments, wording
  and logging are left out.
- A definition whose comment begins with *Faulty* is a plausible bug of the
  definition after it, used to show that a property can fail.

## 3. What the runs check

| Run | Instance and faults | Properties | What it shows |
|---|---|---|---|
| `faults` | two workers, two DELETEs, 3 and 5 attempts; Postgres, Redis, RustFS, ffmpeg, the local disk and the HTTP process fail anywhere | `TypeOK`, `DeletionExclusive`, `NoOrphanBytes`, `AnnouncedIsServable`, `MasterIsKept`, `SourceOutlivesItsJob`, `ArchivedDiskIsClear`, `RemoteHasNoMaster`, `WebhooksTellTheOutcome`, `PublishedIsNotReencoded`, `FailedIsFinal`, `NoResurrection`, `ReclaimsAsPromised` | with no process death, lost lock or lost reply, no await that throws breaks the pipeline, and the deletion refines its contract |
| `crashes` | two workers, one DELETE, two attempts, one death, RustFS errors, lost replies | `AnnouncedIsServable`, `WebhooksTellTheOutcome` | what clients and callers are told stays true under a worker death and enqueues that both happen and throw |
| `settles` | one worker, one DELETE, 3 and 2 attempts, a client that polls; RustFS and ffmpeg fail for ever if they like | `TerminalIsFinal`, `LivesAsPromised`, `OneWebhook`, `AcceptedSettles`, `CompletedReleasesDisk`, `PollKeepsUp`, `OutcomeIsPushed` | every accepted Transcode goes through the stages its owner was promised to one end, tells its caller of it once and its clients the same way on both channels; a completed one gives its disk back |
| `converges` | one worker, one DELETE repeated, one death, one shutdown, ffmpeg fails | `RestartsCostNothing`, `PurgeConverges` | a shutdown drains; the retrying purge of ADR-0008 gets through deaths and shutdowns |
| `progress` | digits 1 and 9, three lines per encode, three attempts, any chunking, refused SETs, rejected probes, a listener that throws, deaths, TTL | `TicksSurviveChunks`, `EndHasTheLastWord`, `SetsAreThrottled`, `ProgressNeverFalls` | the percentage is the most ffmpeg reported, whatever cuts its report, and nothing late follows the end |
| `prefix` | six keys: three in the directory, an object of its very name, a sibling that sorts before them and one after; pages of two, a failing store, two calls, one bare as DELETE's and one with two slashes | `Emptied`, `NeighboursAreKept`, `Terminates` | deleting while paging loses no key and, the prefix being closed, touches no neighbour |
| `tokens` | two requests, TTL 3, timeout 2 | `AllowedIsFresh`, `DenialPasses` | the bound on a stale verdict is TTL plus timeout, and tight up to one tick |
| `webhook` | two payloads, two workers, 3 attempts, two deaths or lost locks | `CompletedWasHandled`, `PostsAreBounded`, `DeliverySettles` | at least once, at most attempts + `MaxStalled` POSTs, always an end |
| `helpers` | all languages and one that is not one of ours, every state of a translation, terms and texts of up to four characters, every kind of file | `RefusalsAreReadable`, `StoredTextShows`, `PatternMeansContains`, `ServedAsItsContent` | the routes' refusals and each helper against what they promise, the ILIKE pattern against a reference definition of "contains" |
| `v_cut_master`, `v_failed_disk`, `v_master_lost` | the fewest faults each needs | one each | section 6 |

`TerminalIsFinal`, `PollKeepsUp`, `LivesAsPromised` and `OneWebhook` leave Redis up, and `AcceptedSettles` Postgres too, because
the code does not keep them otherwise: a failure after COMPLETED saves FAILED, and a
listener whose own save fails is never repeated (section 6). `MasterIsKept`,
`ArchivedDiskIsClear` and `PublishedIsNotReencoded` leave out deaths and lost replies for the
same reason (`v_master_lost`), and so do `LivesAsPromised` and `OneWebhook`; the first leaves out the master
playlist of a failed ffmpeg too (`v_cut_master`). `SourceOutlivesItsJob` and `ReclaimsAsPromised`
are checked without deaths and proved with them. `WebhooksTellTheOutcome` allows COMPLETED and FAILED for one
Transcode, in that order: the code sends both when it fails after COMPLETED.
`RemoteHasNoMaster` is what lets a deletion skip the archive key of a URL ingestion.
`RefusalsAreReadable` says in which language each refusal is, where the code chooses it: the
401, 404 and 409 in French for French and in English for neither French nor Ewe, the 409
and every error of a translated field in French for Ewe. It claims nothing of the 422 of a
route, nor of the 401 and 404 in Ewe: those are in English, against what the helpers promise
(section 6).

**Bounds, and why they are enough.** The transcode job has its real retry limit (3)
wherever a property depends on its last attempt, the archive job its own (5) in
`faults`; elsewhere one or two attempts keep the retry and the exhaustion. One
poll at a time is every poll: the properties relate a poll to what came before
it. Two workers are the most that can meet over one job (its owner, and the one
that took it back), plus an archive run in either. Two DELETEs show every
interleaving of a pair; the deletion's invariants are proved for any number, crashes
included. `MaxStalled` is BullMQ's default, 1. `MaxCrashes`, `MaxTroubles` and `MaxDrains` bound
deaths and shutdowns; one death and one shutdown meet in every order. In
`EncodeProgress` a duration of 90 makes one digit, two digits and a time past the end
different percentages, and `MaxLines` 3 gives a number cut in two between two others.
`MaxTermLength` is 3 where the code has 120: terms one shorter than the least, of each
length allowed and cut at the most all occur. In `TokenVerifier` a requester returns at the
earliest one tick after its answer, so that time cannot be crowded out; two
requesters already interleave every await. Symmetry is used in runs without
liveness only. Deadlock checking is off except in `tokens`: a refused request, a
Transcode nobody deletes, a delivery or an encode that ended are where the system stops.

**Fairness.** Weak fairness of each worker's runs, of the listener, of requests that
were begun and of the stalled check: the event loop runs what is due, BullMQ
polls. Nothing is assumed of clients, faults, crashes or the caller of a webhook.
`PurgingSpec` adds a client that repeats its DELETE, which is what ADR-0008 asks of
it. `DrainPurgingSpec` adds that a shutdown that can go on does and that a process which
is gone is replaced; nobody has to ask for a shutdown. `TokenVerifier` assumes that time
passes; `WebhookDelivery` takes the timer of the POST as fair and, the queue being first in
first out, the pickup of a waiting job as strongly fair. An encode ends or fails:
ffmpeg is not assumed to succeed.

## 4. What is proved

All of it, but for what the last column assumes, for every number of workers, deletions,
attempts, crashes and shutdowns -
and, in the small modules, keys, page sizes, requests, durations, digits, lines and
deliveries.

| Theorem | Says | Assumes |
|---|---|---|
| `TypeCorrect` (`PipelineProofs`) | `Spec => []TypeOK` | - |
| `DeletionIsExclusive` | `[]DeletionExclusive` | no lock is lost by a live worker |
| `DeletionLeavesNothing` | `[]NoOrphanBytes` | that, and no silent delete errors |
| `DeletionKeepsItsContract` | `ReclaimsAsPromised`: the pipeline refines `ReclaimContract` | the same two |
| `DeletedStaysDeleted` | `NoResurrection` | - (every fault) |
| `RemoteIsNeverArchived` | `[]RemoteHasNoMaster` | - (every fault) |
| `FailedStaysFailed` | `FailedIsFinal` | no lock is lost by a live worker |
| `WebhooksAreTrue` | `[]WebhooksTellTheOutcome` | the same |
| `SourceIsThere` | `[]SourceOutlivesItsJob` | the same |
| `AnnouncedCanBePlayed` | `[]AnnouncedIsServable` | the same, and no master playlist left by a failed ffmpeg |
| `ShutdownsCostNothing` | `DrainSpec => []RestartsCostNothing` | no lock is lost by a live worker |
| `EncodesArePaidOnce` (`CompletionProofs`) | `PublishedIsNotReencoded` | no lost lock, no death, no lost reply |
| `ArchivingClearsTheDisk` | `[]ArchivedDiskIsClear` | the same |
| `UploadsKeepAMaster` | `[]MasterIsKept` | no lost lock, no death, no master playlist left by a failed ffmpeg; not both a lost reply and a failing local disk |
| `EndsAreFinal` | `TerminalIsFinal` | no lost lock, no death, no lost reply, no error of Redis |
| `PollsAreNeverBehind` | `StatusSpec => []PollKeepsUp` | the same as `EndsAreFinal` |
| `CallerIsToldOnce` | `OneWebhook`: one payload is queued for a Transcode, once | the same as `EndsAreFinal` |
| `LifeIsAsPromised` | `LivesAsPromised`: the pipeline refines `LifecycleContract` | that, and no master playlist left by a failed ffmpeg |
| `PercentagesStayInRange`, `TheEndHasTheLastWord`, `TicksAreThrottled`, `PercentageNeverFalls` (`ProgressProofs`) | `[]TypeOK`, `[]EndHasTheLastWord`, `[]SetsAreThrottled`, `ProgressNeverFalls` | - |
| `ReportsSurviveChunks` | `[]TicksSurviveChunks` | - |
| `PrefixIsEmptied`, `NeighboursStay` (`PrefixProofs`) | `[]Emptied`, `NeighboursAreKept` | the listing is ordered; what is asked is the directory and any number of slashes |
| `VerdictsStayRecent`, `RevokedTokensAge` (`TokenProofs`) | `[]VerdictsAreRecent`, `AllowedIsFresh` | positive durations |
| `DeliveredAtLeastOnce`, `DuplicatesAreBounded`, `WebhookTypeCorrect` (`WebhookProofs`) | `[]CompletedWasHandled`, `[]PostsAreBounded`, `[]TypeOK` | - |
| `RefusalsCanBeRead`, `StoredIsShown` (`HelperProofs`) | `[]RefusalsAreReadable`, `[]StoredTextShows`, whatever languages are asked for | - |
| `ImagesAreServedAsTheyAre` | `[]ServedAsItsContent` | - |

The assumptions of `CompletionProofs` are no larger than the code forces: with any one of
them given up, TLC finds the property violated on the instance of `faults` or of `settles`
with that one fault added (a death breaks all seven; a lost lock, too; a lost reply all of
them, `MasterIsKept` because the disk fails there too; a master playlist left by a failed ffmpeg `MasterIsKept` and `LivesAsPromised`; an
error of Redis `TerminalIsFinal`, `PollKeepsUp`, `OneWebhook` and `LivesAsPromised`). What is left -
Postgres, RustFS, ffmpeg, the local disk, and but for the last four theorems Redis, failing at any await and any number of times, the expiry of the
progress key, a request that dies, deletions whenever they come - breaks none.

The arguments.

- *Deletion is exclusive.* `DeletionExclusive` is not inductive: that no worker runs
  while a DELETE destroys follows from who holds which job. `Withdrawal` adds that
  every run holds its job (false once a lock may be lost by a live worker, hence the
  assumption), that a DELETE past a queue left no job in it, and that nothing is
  enqueued again: the transcode job alone fills the archive queue, and it is
  withdrawn first.
- *Deletion leaves nothing.* `Reclamation` adds what each DELETE has destroyed so far
  and that nobody creates it again, because of `Withdrawal`; and that a URL ingestion
  has no archive, which the DELETE leaves alone.
- *Deletion keeps its contract.* The mapping: the row and the request give `known`, any run
  gives `held`, any DELETE past both withdrawals gives `closing`, disk and bucket give
  `bytes`. Every step of a worker is `Work`, because whoever has a job keeps every DELETE
  out (`Withdrawal`); the steps of a DELETE are `Close`, `Destroy`, `GiveUp` and `Forget`,
  the last because its row goes only after everything else (`Reclamation`);
  `RequestComesFirst` adds that nothing works on a Transcode whose request is not through.
- *FAILED stays.* The listener runs only for a job that failed for good
  (`FailureIsTerminal`): the agreement of its own test of "terminal" with BullMQ's.
- *Webhooks are true, the Source is there.* `Outcome` follows a run through its steps:
  before the job is queued there is the Source and nothing else (`NothingIsEarly`), what
  follows the save of COMPLETED finds a published row or none (`PublishedFirst`), what
  follows the enqueue has told the caller (`ToldFirst`), FAILED is saved before it is
  told (`FailedIsSaved`). It is inductive because one run at a time is all there is.
- *What is announced can be played.* `Publication`: a run that encodes started from a
  staging without a master playlist, one that pushes finds whole directories or none (an
  archive job may be clearing them), one that announces has pushed both; and a bucket
  that is whole never becomes less but by a DELETE.
- *An encode is paid for once.* `Undisturbed` collects what no death and no lost lock leave to
  rely on: whoever is active is run, and by one worker. The archive job is queued by the last
  await of the run that succeeds, so once it exists nobody runs the first job again
  (`ArchiveComesLast`; a lost reply breaks exactly this). Until then nobody removes what is
  staged, so a published Transcode whose job may run again still has its master playlist, and the
  checkpoint finds it (`EncodesOnce`).
- *The disk is given back.* `Cleared`: an archive run past a removal has left nothing of that
  kind, and by `ArchiveComesLast` nobody writes it again; a retry starts over and removes the
  rest. A URL ingestion, which skips two removals, has neither file (`RemoteHasNoMaster`).
- *A master is kept.* `MasterIsWhole`: where an upload's first job may run again, a staged encode
  has a whole FLAC beside it (`StagedIsWhole`, which is what a master playlist left by a failed
  ffmpeg breaks); the archive job is queued over a whole FLAC, and over an encode that makes a
  rerun of the first job take the checkpoint instead of writing it again (`PushedIsWhole` - this
  is what a lost reply leaves intact); and the Source goes only once the archive object is
  whole (`SourceOrArchive`). A retried archive run whose removals threw pushes again what it
  has left, a whole FLAC or none (`ToPushAgain`); the FLAC stays whole because nobody encodes any
  more, or, after a lost reply, because no removal failed. All of it until a DELETE begins to
  destroy.
- *Ends are final.* `CompletedIsLast`: whoever holds the job of a completed row is past its save
  and has only Redis left to wait for, the listener is idle, and nobody waits to take the job.
  So COMPLETED is not followed by FAILED; FAILED stays by `FailureIsTerminal`. The `settles` run
  leaves Postgres up too, for its liveness; the theorem does without.
- *Polls keep up.* `Told` says what a payload once pushed still tells of the row and the
  percentage: an end stands in both, but for what the TTL and the deletion take away. `Heard`
  says it of the payload a poll began after, and that its first read was no older.
  `SeenIsPast` is needed because Lucid skips the save of PROCESSING when a retry has read that
  very status: the tick it pushes is true all the same.
- *Told once.* `ToldIsEnded`: once a payload is queued, the transcode job does not wait any more, a
  run that still has it is past the enqueue, with the archive job left to queue and only Redis to
  fail it, and the listener is idle or past its own. So whoever comes to queue one finds nothing
  told.
- *Life as promised.* The mapping: the row's status, "new" before there is a row and "deleted"
  after, is the stage; `Servable` is playable; the queued payloads are what is told; `reclaim` is
  withdrawn. Each step of the code is one step of the contract or none. `StartedFirst`: an encode is
  staged, and a run comes to push or to save COMPLETED, only after PROCESSING was saved, so
  COMPLETED and what is published come from there. `PublishedIsCompleted`: a row that names its
  renditions is COMPLETED, and the listener has read none, so a FAILED webhook has no downloads -
  an error of Redis is what breaks this. `ReclaimEndsJobs`: once some DELETE destroys there is no
  job, so no run saves; only a listener that had begun still may, which is why the contract allows
  FAILED of a Transcode being deleted. `PurgedIsNotPlayable`: the row goes after the bucket.
- *Shutdowns.* `DrainInvariant`: as long as no process died, whoever holds a job runs it, and
  a process past closing a Worker runs nothing of it; so the stalled check finds nothing.
- *Progress.* The commands in flight are in the order of the connection; the invariant
  says which of them may be an awaited one (the last), that the SETs before it ascend
  from the key to the last percentage, and that no SET of a callback is below it.
- *Reports survive chunks.* The text between ffmpeg's pen and the handler - the lines being
  gone through, the rest of the last chunk, what was not read - is one text of whole lines,
  wherever it is cut (`TextIsWhole`). Every line that starts there was written, every line
  written is there still or has been taken into account, and the last percentage is that of
  a line written (`NothingIsLost`). Reading a chunk moves the cuts and leaves the text as it is;
  taking a line takes the text's first. When ffmpeg closes the text is empty. The model says
  where a line ends by the positions of the newlines (`FirstEndsAt`, `LastEndsAt`) rather than by
  a recursive splitting, which is what makes this a proof about positions and not an
  induction over texts.
- *Prefix.* However many slashes close what is asked, stripping them leaves the directory
  (`StrippedIsDirectory`), and the names that begin with it and one slash are those in it
  (`MatchingIsUnder`); without the slash a sibling's would too. `ClearedBehind`: behind its token a call has left nothing but refused keys;
  other calls only remove.
- *Tokens.* `VerdictsAreRecent` bounds the age of a verdict at each of the places it
  can be: in the cache, on its way back, about to be stored.
- *Webhooks.* `PostsAreBounded` counts each POST against the attempt or the stall
  that ended it.
- *Texts.* What passes every rule is missing or is text in its language, and French is not missing
  (`AcceptedIsWritten`), so the stored map tells what was sent (`StoredIsWritten`); and a chain that
  finds nothing ends on French. Every rule a field can break has a message
  (`EveryErrorIsExplained`), and so have those of what is no map at all (`NoMapIsExplained`), so
  a refused field is explained in one language. A route's 422 is in English by VineJS, so the
  statement has it among what a reader of neither French nor Ewe gets and nowhere else.
- *Images.* A file is taken for a format only if its bytes carry the signature (`FormatOfFile`, by
  cases on the kinds of `Content`), and the extension of the stored name is that format's
  (`ExtensionAfterTheDot`), so the first read, the claimed extension and AdonisJS' detection do
  not matter.

`FairSpec` implies `Spec`, so the theorems hold of the fair specifications too.

## 5. What is only model-checked

Liveness (`AcceptedSettles`, `CompletedReleasesDisk`, `PurgeConverges`, `Terminates`,
`DenialPasses`, `DeliverySettles`, `OutcomeIsPushed`): the prover has no rule for fairness.
And one invariant, `PatternMeansContains`: it compares the pattern with what Postgres makes of it,
a recursive definition, for which the escaping of a whole term would have to be followed symbol
by symbol; induction over data is out of the prover's reach. The run takes every term and text
of up to four characters over one symbol for each case of the code.

## 6. Where the code and its documentation differ

With a run that shows it (`PROJECT.json`, findings, quotes the lines):

1. `v_master_lost`: the archive job has pushed the whole FLAC, recorded its key and removed
   the HLS staging when the worker dies, with the transcode job active too. Given back, the
   transcode job finds no master playlist and encodes again, over the FLAC; the archive
   job, given back meanwhile, starts over, pushes the FLAC that is being rewritten over the
   archive and goes on to remove the Source.
2. `v_cut_master`: the presence of a master playlist is taken for a finished encode,
   and a failed encode leaves its staging: the retry may publish a truncated encode.
3. `v_failed_disk`: a FAILED Transcode keeps its FLAC and its downloads on the disk.

Met while modelling, without a run of their own:

- A lock lost by a live worker (`lockLoss`) lets it write after the deletion: `NoOrphanBytes`
  fails, although `withdraw_job.ts:32` calls the withdrawal race-free. The theorems
  need their assumption.
- `DeleteObjects` reports per-key errors inside a 200 and nobody reads them
  (`rustfs_storage.ts:81`): with `quietErrors`, bytes stay behind a removed row.
- An archive job whose last removals fail finds its FLAC gone on the retry
  (`archive_transcode.ts:33`) and fails for good; and an enqueue that took effect
  but threw lets the retry encode into a staging that the archive job is clearing. The
  two together lose the master as in `v_master_lost`: `UploadsKeepAMaster` excludes them.
- A container ffprobe cannot read is retried like a transient error
  (`transcode_worker.ts:49`), where `CONTEXT.md:37-38` has it rejected at once.
- If the listener's save fails the row never becomes FAILED (`transcode_worker.ts:73`); nor
  does it when SIGTERM comes while the listener runs: close() waits for jobs, not for
  listeners (`transcode_worker.ts:26-27`).
- A failure after COMPLETED turns the row to FAILED, and a FAILED webhook with downloads
  follows the COMPLETED one (`fail_transcode.ts:56-57`, where `webhook_queue.ts:14` has no
  downloads with FAILED). `CallerIsToldOnce` and `LifeIsAsPromised` show what it takes: with
  Redis up and nothing lost, one payload is queued, and as that line has it.
- A DELETE refused by the archive queue has already withdrawn the transcode job
  (`delete_transcode.ts:68`): after a lost reply or a death, a Transcode that answers 409 may
  have lost its retry.
- A request that dies between the row and the enqueue leaves a PENDING row that
  nothing queues again (`upload_file_controller.ts:84-86`).
- A tick that an earlier worker process sent may reach Redis after a later process's SET
  of 0: the order of `EncodeProgress` is that of one connection.
- A malformed request is refused in VineJS's English whatever `Accept-Language` says: the
  validators of `get_transcode_status_by_id_controller.ts:42`,
  `delete_transcode_by_id_controller.ts:24,41`, `upload_file_controller.ts:69-71` and
  `ingest_url_controller.ts:51-53` have no messages provider, and nothing calls
  `ValidatorMessages.getProvider`, which is there to translate them.
- Ewe readers: `localized_text.ts:55` falls back from Ewe to French, and the 409
  refusal and the errors of a translated field do so; the 401 and 404 refusals test for French
  alone and give Ewe readers English, which `localized_text.ts:32-33,55-64` promises to no Ewe reader.
- A refusal built with a message of its own never shows it: the argument of
  `UnauthencatedException` is unused. A refusal about an id that is missing reads
  "undefined" where the id would be.
- `validators/localized_text.ts:6` says that keys of other languages are rejected; VineJS drops
  them.
- `getExtension` of a URL whose query holds a dot is what follows that dot.

## 7. Not modelled, and what is left

- **Callers of the helpers**: no route of this repository uses `search_term.ts`,
  `image_store.ts`, `localizedText` or `ValidatorMessages`. `SearchTerm`, `ImageUpload` and the
  field of `Localisation` are the code by itself, called with every input of a bounded set.
- **Pagination** (`app/common`): a holder of page and limit that nothing here uses.
- **Ops snapshot** (`get_ops_pipeline_controller.ts`): it reads the transcode queue and changes
  nothing.
- **HTTP scaffolding and configuration**: framework wiring without state of its own.
- **ffmpeg's and ffprobe's command lines**, and the numbers they print but the time: a
  transcoding is judged by the extent of the files it leaves. That ffmpeg dies with the
  worker that started it is an assumption: nothing in the code could tell an orphan's
  files from its own.
- **The HMAC of the webhook**, content types, display columns, wording and logs.
- **Two Transcodes at once**: they share nothing but workers (section 2).

Order in which the project grew: the pipeline, its properties and the deletion contract; the
leaves with a protocol of their own (`PrefixDeletion`, `TokenVerifier`, `WebhookDelivery`);
`StatusRead`; the shutdown and the progress report; the helpers; and along with each its
proofs. Left:

1. An ffmpeg that outlives its worker, as one more fault of `ProcessTranscode`.
2. `WebhookDelivery` under the pipeline: the order in which a caller receives COMPLETED and
   FAILED of one Transcode where both are queued, that is after an error of Redis, a lost reply
   or a death; without those there is one payload (`CallerIsToldOnce`).
3. `PatternMeansContains` for terms of every length, should the prover come to do induction.
