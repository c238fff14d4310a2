---------------------------- MODULE CompletionProofs ----------------------------
(***************************************************************************)
(* How a Transcode completes, while no worker dies and none loses a lock    *)
(* it relies on: the archive comes last, after the only run that encodes,   *)
(* and clears the disk only once it has pushed a whole FLAC.  Then a master *)
(* is kept, the disk is given back, an encode is never paid for twice, an   *)
(* end is an end, no client that heard of it is told otherwise, and the     *)
(* whole is the life that the owner of a Transcode was promised.             *)
(***************************************************************************)
EXTENDS PipelineProofs, StatusRead

-------------------------------------------------------------------------------
(* What a worker that neither dies nor loses a lock leaves to rely on.      *)

(* Nothing is encoded of a Transcode before its job is queued. *)
NothingIsMade ==
  ingest # "accepted" =>
    ~row.published /\ row.status \in {"none", "PENDING"} /\ ~MasterStaged

Undisturbed == /\ Withdrawal /\ FailureIsTerminal /\ RequestComesFirst
               /\ JobsAreRun /\ NothingIsMade

LEMMA UndisturbedInit == Init => Undisturbed
<1>1. Init => JobsAreRun /\ NothingIsMade
  BY DEF Init, JobsAreRun, NothingIsMade, NoJob, HeldBy, NoRow, NoFiles, MasterStaged
<1> QED
  BY <1>1, WithdrawalInit, FailureInit, RequestInit DEF Undisturbed

(* Nobody dies, and no job stalls: what is left of the environment is the  *)
(* expiry of the progress key.                                              *)
LEMMA StepsWithoutDisturbance ==
  ASSUME "lockLoss" \notin Faults, MaxCrashes = 0, TypeOK, JobsAreRun, Next
  PROVE  \/ Ingest
         \/ \E w \in Workers : RunTranscode(w) \/ EncodeTick(w)
         \/ \E w \in Workers : RunArchive(w)
         \/ RunFail
         \/ \E d \in Purges : StartDelete(d) \/ ServeDelete(d)
         \/ ExpireProgress
<1>1. crashes = 0
  BY DEF TypeOK
<1>2. ~\E w \in Workers : Crash(w)
  BY <1>1 DEF Crash
<1>3. ~StallTranscode /\ ~StallArchive
  BY <1>1 DEF StallTranscode, TranscodeLockExpired, StallArchive, ArchiveLockExpired, JobsAreRun
<1> QED
  BY <1>2, <1>3 DEF Next

(* Who acts on a queued job acts on an accepted Transcode whose row is     *)
(* there; the listener and a deletion that destroys do so only when no run  *)
(* is left.                                                                  *)
LEMMA RunnerFindsRow ==
  ASSUME Undisturbed, tjob.state # "none" \/ ajob.state # "none"
  PROVE  ingest = "accepted" /\ RowExists
BY DEF Undisturbed, Withdrawal, OnlyKnownIsDeleted, Purged, RequestComesFirst

LEMMA ProcessHoldsJob ==
  ASSUME TypeOK, Undisturbed, NEW w \in Workers, RunTranscode(w) \/ EncodeTick(w)
  PROVE  /\ tjob.state \in {"waiting", "active"} /\ MayRun(tjob)
         /\ \/ tjob.state = "waiting" /\ At(w, "idle")
            \/ HeldBy(tjob, w) /\ ~At(w, "idle")
         /\ ingest = "accepted" /\ RowExists /\ row.status # "FAILED"
         /\ fail.pc = "idle"
         /\ \A v \in Workers \ {w} : At(v, "idle") /\ proc'[v] = proc[v]
         /\ UNCHANGED <<ingest, arch, del>> /\ RowExists'
<1> USE DEF Undisturbed
<1>1. \/ tjob.state = "waiting" /\ At(w, "idle")
      \/ HeldBy(tjob, w) /\ ~At(w, "idle")
  BY ProcessShape DEF Withdrawal, RunsHoldTheirJobs, HeldBy
<1>2. tjob.state \in {"waiting", "active"} /\ MayRun(tjob)
  BY <1>1 DEF HeldBy, MayRun
<1> QED
  BY <1>1, <1>2, RunnerFindsRow, RunningHasNotFailed, OneRunAtATime, ProcessFrame

LEMMA ArchiveHoldsJob ==
  ASSUME TypeOK, Undisturbed, NEW w \in Workers, RunArchive(w)
  PROVE  /\ ajob.state # "none" /\ ajob'.state # "none"
         /\ \/ ajob.state = "waiting" /\ ArchAt(w, "idle")
            \/ HeldBy(ajob, w) /\ ~ArchAt(w, "idle")
         /\ ingest = "accepted" /\ RowExists /\ RowExists'
         /\ \A v \in Workers \ {w} : ArchAt(v, "idle") /\ arch'[v] = arch[v]
         /\ UNCHANGED <<ingest, tjob, proc, del, input, reclaim, progress, fail, hooks>>
         /\ row'.status = row.status /\ row'.published = row.published
<1> USE DEF Undisturbed
<1>1. \/ ajob.state = "waiting" /\ ArchAt(w, "idle")
      \/ HeldBy(ajob, w) /\ ~ArchAt(w, "idle")
  BY ArchiveShape DEF Withdrawal, RunsHoldTheirJobs, HeldBy
<1>2. ajob.state # "none"
  BY <1>1 DEF HeldBy
<1>3. ajob'.state # "none"
  BY <1>2 DEF RunArchive, TakeArchive, ArchFind, PushArchive, RecordArchive, ArchRmHls,
     ArchRmDl, ArchRmFlac, ArchRmSource, ArchRemove, ArchThrow, CompleteArchive,
     RejectArchive, Taken, Completed, Failed, TypeOK, Jobs
<1>4. \A v \in Workers \ {w} : ArchAt(v, "idle")
  BY <1>1 DEF Withdrawal, RunsHoldTheirJobs, HeldBy
<1>5. UNCHANGED <<input, reclaim, progress, fail, hooks>>
      /\ row'.status = row.status /\ row'.published = row.published
  BY DEF RunArchive, TakeArchive, ArchFind, PushArchive, RecordArchive, ArchRmHls,
     ArchRmDl, ArchRmFlac, ArchRmSource, ArchRemove, ArchThrow, CompleteArchive,
     RejectArchive, ArchFrame, Updated, TypeOK, Rows
<1> QED
  BY <1>1, <1>2, <1>3, <1>4, <1>5, RunnerFindsRow, ArchiveFrame

LEMMA ListenerIsAlone ==
  ASSUME TypeOK, Undisturbed, RunFail
  PROVE  /\ fail.pc # "idle" /\ tjob.state \in {"failed", "none"} /\ ingest = "accepted"
         /\ \A w \in Workers : At(w, "idle")
         /\ UNCHANGED <<input, ingest, bucket, tjob, ajob, proc, arch, del, reclaim, crashes>>
         /\ row'.published = row.published
         /\ row'.status = row.status \/ (row'.status = "FAILED" /\ RowExists)
         /\ disk'.dl = disk.dl /\ disk'.flac = disk.flac
         /\ disk'.hls = disk.hls \/ disk'.hls = "none"
         /\ disk'.source = disk.source \/ fail.pc = "rmSource"
<1> USE DEF RunFail, FailFind, FailSave, FailClear, EnqueueFailedHook, FailRmSource,
            FailRmHls, FailThrow, FailAt
<1>1. fail.pc # "idle"
  OBVIOUS
<1>2. tjob.state \in {"failed", "none"} /\ ingest = "accepted"
  BY <1>1 DEF Undisturbed, FailureIsTerminal
<1>3. \A w \in Workers : At(w, "idle")
  BY <1>2 DEF Undisturbed, Withdrawal, RunsHoldTheirJobs, HeldBy
<1>4. UNCHANGED <<input, ingest, bucket, tjob, ajob, proc, arch, del, reclaim, crashes>>
  BY DEF FailFrame
<1>5. /\ row'.published = row.published
      /\ row'.status = row.status \/ (row'.status = "FAILED" /\ RowExists)
  BY DEF Updated, TypeOK, Rows
<1>6. /\ disk'.dl = disk.dl /\ disk'.flac = disk.flac
      /\ disk'.hls = disk.hls \/ disk'.hls = "none"
      /\ disk'.source = disk.source \/ fail.pc = "rmSource"
  BY DEF TypeOK, Disks
<1> QED
  BY <1>1, <1>2, <1>3, <1>4, <1>5, <1>6

LEMMA DeletionIsAlone ==
  ASSUME TypeOK, Undisturbed, NEW d \in Purges, StartDelete(d) \/ ServeDelete(d)
  PROVE  /\ ingest = "accepted"
         /\ UNCHANGED <<input, ingest, hooks, proc, arch, fail, crashes>>
         /\ tjob' = tjob \/ (tjob' = NoJob /\ ajob' = ajob)
         /\ ajob' = ajob \/ (ajob' = NoJob /\ tjob.state = "none" /\ tjob' = tjob)
         /\ row' = row \/ row' = NoRow
         /\ progress' = progress \/ progress' = "none"
         /\ reclaim => reclaim'
         /\ \/ UNCHANGED <<row, disk, bucket, progress>>
            \/ del[d] \in DestroyPcs /\ (del[d] = "purgeHls" => reclaim')
         /\ del[d] \in DestroyPcs
              => /\ tjob.state = "none" /\ ajob.state = "none"
                 /\ \A w \in Workers : At(w, "idle") /\ ArchAt(w, "idle")
<1> USE DEF StartDelete, ServeDelete, DelFind, GetTranscodeJob, CheckTranscodeJob,
            RemoveTranscodeJob, GetArchiveJob, CheckArchiveJob, RemoveArchiveJob,
            PurgeHls, PurgeDl, PurgeArchive, DelRmHls, DelRmDl, DelRmFlac,
            DelRmSource, DelRemove, DelClear, DelRow, DelThrow, OnlyDel
<1>1. UNCHANGED <<input, ingest, hooks, proc, arch, fail, crashes>>
  BY DEF DelFrame
<1>2. /\ tjob' = tjob \/ (tjob' = NoJob /\ ajob' = ajob)
      /\ ajob' = ajob \/ (ajob' = NoJob /\ DelAt(d, "removeArchive") /\ tjob' = tjob)
  OBVIOUS
<1>3. /\ row' = row \/ row' = NoRow
      /\ progress' = progress \/ progress' = "none"
      /\ reclaim => reclaim'
  OBVIOUS
<1>4. \/ UNCHANGED <<row, disk, bucket, progress>>
      \/ del[d] \in DestroyPcs /\ (del[d] = "purgeHls" => reclaim')
  BY DEF DelAt, DestroyPcs
<1> HIDE DEF StartDelete, ServeDelete
<1>5. DelAt(d, "removeArchive") => tjob.state = "none"
  BY DEF Undisturbed, Withdrawal, WithdrawnIsAbsent, DelAt, WithdrawArchivePcs
<1>6. del[d] \in DestroyPcs
        => /\ tjob.state = "none" /\ ajob.state = "none"
           /\ \A w \in Workers : At(w, "idle") /\ ArchAt(w, "idle")
  BY DEF Undisturbed, Withdrawal, WithdrawnIsAbsent, RunsHoldTheirJobs, HeldBy
<1>7. ingest = "accepted"
  BY DeleteIsAsked DEF Undisturbed
<1> QED
  BY <1>1, <1>2, <1>3, <1>4, <1>5, <1>6, <1>7

LEMMA RequestIsAlone ==
  ASSUME TypeOK, Undisturbed, Ingest
  PROVE  /\ ingest # "accepted"
         /\ tjob.state = "none" /\ ajob.state = "none" /\ fail.pc = "idle"
         /\ \A w \in Workers : At(w, "idle") /\ ArchAt(w, "idle")
         /\ UNCHANGED <<input, bucket, progress, ajob, hooks, proc, arch, fail, del,
                        reclaim, crashes>>
         /\ disk'.hls = disk.hls /\ disk'.dl = disk.dl /\ disk'.flac = disk.flac
         /\ disk.source => disk'.source
         /\ \/ row' = row
            \/ ingest = "row" /\ row' = [NoRow EXCEPT !.status = "PENDING"] /\ tjob' = tjob
         /\ tjob' = tjob \/ (tjob' = Added(tjob) /\ ingest' = "accepted" /\ row' = row)
<1> USE DEF Ingest, SaveSource, CreateTranscode, EnqueueTranscode, RefuseIngest, IngestFrame
<1>1. ingest # "accepted"
  OBVIOUS
<1>2. tjob.state = "none" /\ ajob.state = "none" /\ fail.pc = "idle"
  BY <1>1 DEF Undisturbed, RequestComesFirst
<1>3. \A w \in Workers : At(w, "idle") /\ ArchAt(w, "idle")
  BY <1>2 DEF Undisturbed, Withdrawal, RunsHoldTheirJobs, HeldBy
<1>4. /\ disk'.hls = disk.hls /\ disk'.dl = disk.dl /\ disk'.flac = disk.flac
      /\ disk.source => disk'.source
  BY DEF TypeOK, Disks
<1> QED
  BY <1>1, <1>2, <1>3, <1>4

LEMMA JobsStayRun ==
  ASSUME "lockLoss" \notin Faults, MaxCrashes = 0, TypeOK, Undisturbed, [Next]_vars
  PROVE  JobsAreRun'
<1> SUFFICES ASSUME NEW v \in Workers
             PROVE  /\ HeldBy(tjob', v) => ~At(v, "idle")'
                    /\ HeldBy(ajob', v) => ~ArchAt(v, "idle")'
  BY DEF JobsAreRun
<1>1. /\ HeldBy(tjob, v) => ~At(v, "idle")
      /\ HeldBy(ajob, v) => ~ArchAt(v, "idle")
  BY DEF Undisturbed, JobsAreRun, TypeOK
<1> USE DEF At, ArchAt
<1>2. CASE UNCHANGED vars
  BY <1>1, <1>2 DEF vars
<1>3. CASE Ingest
  BY <1>1, <1>3, RequestIsAlone DEF Added, NoJob, HeldBy
<1>4. ASSUME NEW w \in Workers, RunTranscode(w) \/ EncodeTick(w)
      PROVE  /\ HeldBy(tjob', v) => ~At(v, "idle")'
             /\ HeldBy(ajob', v) => ~ArchAt(v, "idle")'
  BY <1>1, <1>4, ProcessKeepsHold, ProcessHoldsJob
<1>5. ASSUME NEW w \in Workers, RunArchive(w)
      PROVE  /\ HeldBy(tjob', v) => ~At(v, "idle")'
             /\ HeldBy(ajob', v) => ~ArchAt(v, "idle")'
  BY <1>1, <1>5, ArchiveKeepsHold, ArchiveHoldsJob
<1>6. CASE RunFail
  BY <1>1, <1>6, ListenerIsAlone
<1>7. ASSUME NEW d \in Purges, StartDelete(d) \/ ServeDelete(d)
      PROVE  /\ HeldBy(tjob', v) => ~At(v, "idle")'
             /\ HeldBy(ajob', v) => ~ArchAt(v, "idle")'
  BY <1>1, <1>7, DeletionIsAlone DEF NoJob, HeldBy
<1>8. CASE ExpireProgress
  BY <1>1, <1>8 DEF ExpireProgress
<1> QED
  BY <1>2, <1>3, <1>4, <1>5, <1>6, <1>7, <1>8, StepsWithoutDisturbance DEF Undisturbed

LEMMA NothingIsMadeStep ==
  ASSUME "lockLoss" \notin Faults, MaxCrashes = 0, TypeOK, Undisturbed, [Next]_vars
  PROVE  NothingIsMade'
<1> USE DEF NothingIsMade
<1>1. NothingIsMade
  BY DEF Undisturbed
<1>2. CASE UNCHANGED vars
  BY <1>1, <1>2 DEF vars, MasterStaged
<1>3. CASE Ingest
  BY <1>1, <1>3, RequestIsAlone DEF NoRow, MasterStaged
<1>4. ASSUME NEW w \in Workers, RunTranscode(w) \/ EncodeTick(w)
      PROVE  NothingIsMade'
  BY <1>4, ProcessHoldsJob
<1>5. ASSUME NEW w \in Workers, RunArchive(w)
      PROVE  NothingIsMade'
  BY <1>5, ArchiveHoldsJob
<1>6. CASE RunFail
  BY <1>6, ListenerIsAlone
<1>7. ASSUME NEW d \in Purges, StartDelete(d) \/ ServeDelete(d)
      PROVE  NothingIsMade'
  BY <1>7, DeletionIsAlone
<1>8. CASE ExpireProgress
  BY <1>1, <1>8 DEF ExpireProgress, MasterStaged
<1> QED
  BY <1>2, <1>3, <1>4, <1>5, <1>6, <1>7, <1>8, StepsWithoutDisturbance DEF Undisturbed

LEMMA UndisturbedStep ==
  ASSUME "lockLoss" \notin Faults, MaxCrashes = 0, TypeOK, Undisturbed, [Next]_vars
  PROVE  Undisturbed'
BY WithdrawalStep, FailureStep, RequestStep, JobsStayRun, NothingIsMadeStep DEF Undisturbed

LEMMA UndisturbedInvariant ==
  ASSUME "lockLoss" \notin Faults, MaxCrashes = 0
  PROVE  Spec => []Undisturbed
<1>1. TypeOK /\ Undisturbed /\ [Next]_vars => Undisturbed'
  BY UndisturbedStep
<1> QED
  BY <1>1, UndisturbedInit, TypeCorrect, PTL DEF Spec

-------------------------------------------------------------------------------
(* The archive comes last: its job is queued by the last await of the run  *)
(* of ProcessTranscode that succeeds, after which nobody runs the first job *)
(* again (process_transcode.ts:153-167).                                     *)

ArchiveComesLast ==
  ajob.state # "none" =>
    /\ tjob.state \notin {"waiting", "failed"}
    /\ \A w \in Workers : At(w, "idle") \/ At(w, "return")

(* All that is left to a run once the archive is queued is to return. *)
LEMMA RunOnlyReturns ==
  ASSUME TypeOK, Undisturbed, ArchiveComesLast, ajob.state # "none",
         NEW w \in Workers, RunTranscode(w) \/ EncodeTick(w)
  PROVE  CompleteTranscode(w) /\ HeldBy(tjob, w)
<1>1. HeldBy(tjob, w) /\ At(w, "return")
  BY ProcessHoldsJob DEF ArchiveComesLast
<1> QED
  BY <1>1 DEF At, RunTranscode, EncodeTick, TakeTranscode, FindOrFail, Checkpoint, Probe,
     SaveProcessing, StartProgress, StartEncode, FinishEncode, FailEncode,
     MeasureDownloads, PushHls, PushHlsRest, PushHlsThen, PushDl, PushDlRest,
     SaveCompleted, FinishProgress, EnqueueCompletedHook, EnqueueArchive,
     ProcThrow, ProcFaulty, RejectTranscode

LEMMA RunReturns ==
  ASSUME TypeOK, NEW w \in Workers, CompleteTranscode(w), HeldBy(tjob, w)
  PROVE  /\ tjob'.state = "completed" /\ proc'[w].pc = "idle"
         /\ UNCHANGED <<input, ingest, row, disk, bucket, progress, ajob, hooks, arch,
                        fail, del, reclaim, crashes>>
<1>1. tjob' = Completed(tjob) /\ proc' = [proc EXCEPT ![w] = IdleProc]
  BY DEF CompleteTranscode, Ends
<1>2. tjob'.state = "completed"
  BY <1>1 DEF Completed, TypeOK, Jobs
<1>3. proc'[w].pc = "idle"
  BY <1>1 DEF IdleProc, TypeOK
<1> QED
  BY <1>2, <1>3 DEF CompleteTranscode, ProcFrame

(* What only the first job's last await can do. *)
LEMMA ArchiveIsQueuedAtTheEnd ==
  ASSUME TypeOK, NEW w \in Workers, RunTranscode(w) \/ EncodeTick(w), ~EnqueueArchive(w)
  PROVE  ajob' = ajob
<1>1. CASE At(w, "archive")
  <2>1. ProcThrow(w)
    BY <1>1 DEF At, RunTranscode, EncodeTick, TakeTranscode, FindOrFail, Checkpoint, Probe,
       SaveProcessing, StartProgress, StartEncode, FinishEncode, FailEncode,
       MeasureDownloads, PushHls, PushHlsRest, PushHlsThen, PushDl, PushDlRest,
       SaveCompleted, FinishProgress, EnqueueCompletedHook, CompleteTranscode,
       RejectTranscode
  <2> QED
    BY <2>1 DEF ProcThrow, OnlyProc
<1> QED
  BY <1>1, ProcessEffects

LEMMA ArchiveComesLastStep ==
  ASSUME "lockLoss" \notin Faults, "lostReply" \notin Faults, MaxCrashes = 0,
         TypeOK, Undisturbed, ArchiveComesLast, [Next]_vars
  PROVE  ArchiveComesLast'
<1>1. CASE UNCHANGED vars
  BY <1>1 DEF vars, ArchiveComesLast, At
<1>2. CASE Ingest
  BY <1>2, RequestIsAlone DEF ArchiveComesLast
<1>3. ASSUME NEW w \in Workers, RunTranscode(w) \/ EncodeTick(w)
      PROVE  ArchiveComesLast'
  <2>1. CASE ajob.state # "none"
    <3>1. tjob'.state = "completed" /\ proc'[w].pc = "idle" /\ ajob' = ajob
      BY <1>3, <2>1, RunOnlyReturns, RunReturns
    <3> QED
      BY <1>3, <3>1, ProcessHoldsJob DEF ArchiveComesLast, At
  <2>2. CASE ajob.state = "none" /\ ~EnqueueArchive(w)
    BY <1>3, <2>2, ArchiveIsQueuedAtTheEnd DEF ArchiveComesLast
  <2>3. CASE EnqueueArchive(w)
    <3>1. tjob' = tjob /\ At(w, "archive") /\ proc'[w].pc = "return"
      BY <2>3 DEF EnqueueArchive, Goes, At, TypeOK
    <3> QED
      BY <1>3, <3>1, ProcessHoldsJob DEF ArchiveComesLast, At, HeldBy
  <2> QED
    BY <2>1, <2>2, <2>3
<1>4. ASSUME NEW w \in Workers, RunArchive(w)
      PROVE  ArchiveComesLast'
  BY <1>4, ArchiveHoldsJob DEF ArchiveComesLast, At
<1>5. CASE RunFail
  BY <1>5, ListenerIsAlone DEF ArchiveComesLast, At
<1>6. ASSUME NEW d \in Purges, StartDelete(d) \/ ServeDelete(d)
      PROVE  ArchiveComesLast'
  BY <1>6, DeletionIsAlone DEF ArchiveComesLast, At, NoJob
<1>7. CASE ExpireProgress
  BY <1>7 DEF ExpireProgress, ArchiveComesLast, At
<1> QED
  BY <1>1, <1>2, <1>3, <1>4, <1>5, <1>6, <1>7, StepsWithoutDisturbance DEF Undisturbed

-------------------------------------------------------------------------------
(* A published encode is staged for as long as the first job may run again: *)
(* the checkpoint finds it, and no run encodes over it                      *)
(* (process_transcode.ts:72, :102-106).                                      *)

StagedPcs == PushPcs \union {"saveCompleted", "progress100", "hook", "archive"}

EncodesOnce ==
  /\ \A w \in Workers : /\ proc[w].pc \in EncodePcs => ~row.published
                        /\ proc[w].pc \in StagedPcs => MasterStaged
  /\ row.published /\ ajob.state = "none" /\ MayRun(tjob) => MasterStaged

LEMMA EncodesOnceInit == Init => EncodesOnce
BY DEF Init, EncodesOnce, IdleProc, NoRow, EncodePcs, StagedPcs, PushPcs

(* A run before its last await, the archive still to come. *)
LEMMA RunEncodesOnce ==
  ASSUME TypeOK, Undisturbed, EncodesOnce, "lostReply" \notin Faults, ajob.state = "none",
         NEW w \in Workers, RunTranscode(w) \/ EncodeTick(w)
  PROVE  /\ proc'[w].pc \in EncodePcs => ~row'.published
         /\ proc'[w].pc \in StagedPcs => MasterStaged'
         /\ row'.published /\ ajob'.state = "none" => MasterStaged'
<1> DEFINE pc == proc[w].pc
           Kept == /\ pc' \in EncodePcs => ~row'.published
                   /\ pc' \in StagedPcs => MasterStaged'
                   /\ row'.published /\ ajob'.state = "none" => MasterStaged'
<1>1. /\ pc \in EncodePcs => ~row.published
      /\ pc \in StagedPcs => MasterStaged
      /\ row.published => MasterStaged
  BY ProcessHoldsJob DEF EncodesOnce
<1>2. ASSUME UNCHANGED <<disk, row>>,
             pc' \in EncodePcs => pc \in EncodePcs \/ ~MasterStaged,
             pc' \in StagedPcs => pc \in StagedPcs \/ MasterStaged
      PROVE  Kept
  BY <1>1, <1>2 DEF MasterStaged
<1> USE DEF TypeOK, At, Goes
<1>3. CASE TakeTranscode(w) \/ FindOrFail(w) \/ Probe(w) \/ ProcThrow(w)
  BY <1>2, <1>3 DEF TakeTranscode, FindOrFail, Probe, AfterProbe, ProcThrow, OnlyProc,
     EncodePcs, StagedPcs, PushPcs
<1>4. CASE Checkpoint(w) \/ MeasureDownloads(w) \/ CompleteTranscode(w) \/ RejectTranscode(w)
  BY <1>2, <1>4 DEF Checkpoint, MeasureDownloads, CompleteTranscode, RejectTranscode, Ends,
     IdleProc, OnlyProc, EncodePcs, StagedPcs, PushPcs
<1>5. CASE StartProgress(w) \/ EncodeTick(w) \/ FinishProgress(w) \/ EnqueueCompletedHook(w)
  BY <1>2, <1>5 DEF StartProgress, EncodeTick, FinishProgress, AfterCompleted,
     EnqueueCompletedHook, EncodePcs, StagedPcs, PushPcs
<1>6. CASE PushHls(w) \/ PushHlsRest(w) \/ PushDl(w) \/ PushDlRest(w)
  BY <1>2, <1>6 DEF PushHls, PushHlsRest, PushHlsThen, PushDl, PushDlRest, EncodePcs,
     StagedPcs, PushPcs
<1>7. CASE EnqueueArchive(w)
  BY <1>2, <1>7 DEF EnqueueArchive, EncodePcs, StagedPcs, PushPcs
<1>8. CASE SaveProcessing(w)
  <2>1. ~row.published /\ pc' = "progress0" /\ UNCHANGED <<disk, ajob>>
    BY <1>1, <1>8 DEF SaveProcessing, EncodePcs
  <2>2. ~row'.published
    BY <1>8, <2>1 DEF SaveProcessing, SaveStatus, Updated, Rows
  <2> QED
    BY <2>1, <2>2 DEF StagedPcs, PushPcs
<1>9. CASE SaveCompleted(w)
  <2>1. MasterStaged /\ pc' = "progress100" /\ UNCHANGED <<disk, ajob>>
    BY <1>1, <1>9 DEF SaveCompleted, StagedPcs
  <2> QED
    BY <2>1 DEF EncodePcs, MasterStaged
<1>10. CASE StartEncode(w) \/ FailEncode(w)
  <2>1. ~row.published /\ UNCHANGED row
    BY <1>1, <1>10 DEF StartEncode, FailEncode, EncodePcs
  <2>2. pc' \in {"encoding", "thrown"}
    <3>1. \E next \in {"encoding", "thrown"} : proc' = [proc EXCEPT ![w].pc = next]
      BY <1>10 DEF StartEncode, FailEncode
    <3> QED
      BY <3>1
  <2> QED
    BY <2>1, <2>2 DEF StagedPcs, PushPcs
<1>11. CASE FinishEncode(w)
  <2>1. pc' = "measure"
    BY <1>11 DEF FinishEncode
  <2>2. disk'.hls \in {"whole", "cut"}
    BY <1>11 DEF FinishEncode, Disks
  <2> QED
    BY <2>1, <2>2 DEF EncodePcs, MasterStaged
<1> QED
  BY <1>3, <1>4, <1>5, <1>6, <1>7, <1>8, <1>9, <1>10, <1>11 DEF RunTranscode

LEMMA EncodesOnceStep ==
  ASSUME "lockLoss" \notin Faults, "lostReply" \notin Faults, MaxCrashes = 0,
         TypeOK, Undisturbed, ArchiveComesLast, EncodesOnce, [Next]_vars
  PROVE  EncodesOnce'
<1>1. CASE UNCHANGED vars
  BY <1>1 DEF vars, EncodesOnce, MasterStaged, MayRun
<1>2. ASSUME proc' = proc, \A w \in Workers : At(w, "idle"),
             ~row'.published \/ ~MayRun(tjob') \/ ajob'.state # "none"
      PROVE  EncodesOnce'
  BY <1>2 DEF EncodesOnce, At, EncodePcs, StagedPcs, PushPcs
<1>3. CASE Ingest
  <2>1. ~row'.published
    BY <1>3, RequestIsAlone DEF Undisturbed, NothingIsMade, NoRow
  <2> QED
    BY <1>2, <1>3, <2>1, RequestIsAlone
<1>4. ASSUME NEW w \in Workers, RunTranscode(w) \/ EncodeTick(w)
      PROVE  EncodesOnce'
  <2>1. \A v \in Workers \ {w} : At(v, "idle") /\ proc'[v] = proc[v]
    BY <1>4, ProcessHoldsJob
  <2> SUFFICES /\ proc'[w].pc \in EncodePcs => ~row'.published
               /\ proc'[w].pc \in StagedPcs => MasterStaged'
               /\ row'.published /\ ajob'.state = "none" => MasterStaged'
    BY <2>1 DEF EncodesOnce, At, EncodePcs, StagedPcs, PushPcs
  <2>2. CASE ajob.state # "none"
    BY <1>4, <2>2, RunOnlyReturns, RunReturns DEF EncodePcs, StagedPcs, PushPcs
  <2>3. CASE ajob.state = "none"
    BY <1>4, <2>3, RunEncodesOnce
  <2> QED
    BY <2>2, <2>3
<1>5. ASSUME NEW w \in Workers, RunArchive(w)
      PROVE  EncodesOnce'
  BY <1>5, ArchiveHoldsJob DEF EncodesOnce, ArchiveComesLast, At, EncodePcs, StagedPcs, PushPcs
<1>6. CASE RunFail
  BY <1>2, <1>6, ListenerIsAlone DEF MayRun
<1>7. ASSUME NEW d \in Purges, StartDelete(d) \/ ServeDelete(d)
      PROVE  EncodesOnce'
  <2>1. CASE del[d] \in DestroyPcs
    BY <1>2, <1>7, <2>1, DeletionIsAlone DEF MayRun, NoJob
  <2>2. CASE del[d] \notin DestroyPcs
    BY <1>7, <2>2, DeletionIsAlone DEF EncodesOnce, MasterStaged, MayRun, NoJob
  <2> QED
    BY <2>1, <2>2
<1>8. CASE ExpireProgress
  BY <1>8 DEF ExpireProgress, EncodesOnce, MasterStaged, MayRun
<1> QED
  BY <1>1, <1>3, <1>4, <1>5, <1>6, <1>7, <1>8, StepsWithoutDisturbance DEF Undisturbed

LEMMA CompletionInvariant ==
  ASSUME "lockLoss" \notin Faults, "lostReply" \notin Faults, MaxCrashes = 0
  PROVE  Spec => [](Undisturbed /\ ArchiveComesLast /\ EncodesOnce)
<1>1. Init => ArchiveComesLast
  BY DEF Init, ArchiveComesLast, NoJob
<1>2. TypeOK /\ Undisturbed /\ ArchiveComesLast /\ [Next]_vars => ArchiveComesLast'
  BY ArchiveComesLastStep
<1>3. TypeOK /\ Undisturbed /\ ArchiveComesLast /\ EncodesOnce /\ [Next]_vars => EncodesOnce'
  BY EncodesOnceStep
<1> QED
  BY <1>1, <1>2, <1>3, EncodesOnceInit, UndisturbedInvariant, TypeCorrect, PTL DEF Spec

(* What was published is never encoded again, through every throw, retry   *)
(* and deletion: a run that comes to encode has found no staged encode, and *)
(* then nothing is published (process_transcode.ts:52-54, :72).             *)
THEOREM EncodesArePaidOnce ==
  ASSUME "lockLoss" \notin Faults, "lostReply" \notin Faults, MaxCrashes = 0
  PROVE  Spec => PublishedIsNotReencoded
<1>1. EncodesOnce => (row.published => \A w \in Workers : ~Publishes(w))
  BY DEF EncodesOnce, Publishes, At, EncodePcs
<1>2. EncodesOnce /\ [Next]_vars => [row.published => \A w \in Workers : ~Publishes(w)]_vars
  BY <1>1
<1> QED
  BY <1>2, CompletionInvariant, PTL DEF Spec, PublishedIsNotReencoded

-------------------------------------------------------------------------------
(* The archive's run clears the disk file by file, and nothing is written   *)
(* behind its back: the run that writes is over.                             *)

ClearedFor(pc) ==
  /\ pc \in {"rmDl", "rmFlac", "rmSource", "return"} => disk.hls = "none"
  /\ pc \in {"rmFlac", "rmSource", "return"} => disk.dl = "none"
  /\ pc \in {"rmSource", "return"} => disk.flac = "none"
  /\ pc = "return" => ~disk.source

Cleared ==
  /\ \A w \in Workers : ClearedFor(arch[w])
  /\ ajob.state = "completed" => ClearedFor("return")

LEMMA ClearedInit == Init => Cleared
BY DEF Init, Cleared, ClearedFor, NoJob

(* A step that adds nothing to the disk, nor takes the archive's run on.    *)
LEMMA ClearedFrame ==
  ASSUME Cleared, StaysEmpty, arch' = arch,
         ajob'.state = "completed" => ajob.state = "completed"
  PROVE  Cleared'
BY DEF Cleared, ClearedFor, StaysEmpty

LEMMA ArchiveClears ==
  ASSUME TypeOK, Undisturbed, RemoteHasNoMaster, Cleared, NEW w \in Workers, RunArchive(w)
  PROVE  Cleared'
<1> USE DEF ArchAt, ArchGoes, TypeOK
<1>1. \A v \in Workers \ {w} : arch'[v] = "idle"
  BY ArchiveHoldsJob
<1>2. ClearedFor(arch[w]) /\ (ajob.state = "completed" => ClearedFor("return"))
  BY DEF Cleared
<1>3. ajob.state # "completed"
  BY ArchiveHoldsJob DEF HeldBy
<1> SUFFICES ClearedFor(arch[w])' /\ (ajob'.state = "completed" => ClearedFor("return")')
  BY <1>1 DEF Cleared, ClearedFor
<1>4. CASE TakeArchive(w)
  BY <1>4 DEF TakeArchive, Taken, ClearedFor, Jobs
<1>5. CASE ArchFind(w)
  <2>1. RowExists
    BY ArchiveHoldsJob
  <2> QED
    BY <1>3, <1>5, <2>1 DEF ArchFind, AfterFind, ClearedFor
<1>6. CASE PushArchive(w) \/ RecordArchive(w) \/ ArchThrow(w)
  BY <1>3, <1>6 DEF PushArchive, RecordArchive, ArchThrow, ClearedFor
<1>7. CASE ArchRmHls(w) \/ ArchRmFlac(w) \/ ArchRmSource(w)
  BY <1>2, <1>3, <1>7 DEF ArchRmHls, ArchRmFlac, ArchRmSource, ArchRemove, ClearedFor, Disks
<1>8. CASE ArchRmDl(w)
  BY <1>2, <1>3, <1>8 DEF ArchRmDl, ArchRemove, AfterRmDl, ClearedFor, RemoteHasNoMaster, Disks
<1>9. CASE CompleteArchive(w)
  BY <1>2, <1>9 DEF CompleteArchive, ClearedFor
<1>10. CASE RejectArchive(w)
  <2>1. arch'[w] = "idle"
    BY <1>10 DEF RejectArchive
  <2>2. ajob'.state # "completed"
    BY <1>3, <1>10 DEF RejectArchive, Failed, Jobs
  <2> QED
    BY <2>1, <2>2 DEF ClearedFor
<1> QED
  BY <1>4, <1>5, <1>6, <1>7, <1>8, <1>9, <1>10 DEF RunArchive

LEMMA ClearedStep ==
  ASSUME "lockLoss" \notin Faults, MaxCrashes = 0, TypeOK, Undisturbed, RemoteHasNoMaster,
         ArchiveComesLast, Cleared, [Next]_vars
  PROVE  Cleared'
<1>1. CASE UNCHANGED vars
  BY <1>1 DEF vars, Cleared, ClearedFor
<1>2. ASSUME ajob.state = "none", UNCHANGED arch, ajob'.state # "completed"
      PROVE  Cleared'
  <2>1. \A w \in Workers : ArchAt(w, "idle")
    BY <1>2 DEF Undisturbed, Withdrawal, RunsHoldTheirJobs, HeldBy
  <2> QED
    BY <1>2, <2>1 DEF Cleared, ClearedFor, ArchAt
<1>3. CASE Ingest
  BY <1>2, <1>3, RequestIsAlone
<1>4. ASSUME NEW w \in Workers, RunTranscode(w) \/ EncodeTick(w)
      PROVE  Cleared'
  <2>1. CASE ajob.state # "none"
    BY <1>4, <2>1, RunOnlyReturns, RunReturns, ClearedFrame DEF StaysEmpty
  <2>2. CASE ajob.state = "none"
    <3>1. ajob' = ajob \/ ajob' = Added(ajob)
      BY <1>4, ProcessShape
    <3> QED
      BY <1>2, <1>4, <2>2, <3>1, ProcessHoldsJob DEF Added, NoJob
  <2> QED
    BY <2>1, <2>2
<1>5. ASSUME NEW w \in Workers, RunArchive(w)
      PROVE  Cleared'
  BY <1>5, ArchiveClears
<1>6. CASE RunFail
  BY <1>6, ListenerIsAlone, FailShrinks, ClearedFrame
<1>7. ASSUME NEW d \in Purges, StartDelete(d) \/ ServeDelete(d)
      PROVE  Cleared'
  BY <1>7, DeletionIsAlone, DeleteShrinks, ClearedFrame DEF NoJob
<1>8. CASE ExpireProgress
  BY <1>8, ClearedFrame DEF ExpireProgress, StaysEmpty
<1> QED
  BY <1>1, <1>3, <1>4, <1>5, <1>6, <1>7, <1>8, StepsWithoutDisturbance DEF Undisturbed

(* When the second job has succeeded nothing is left on the local disk,     *)
(* and nothing comes back, however often it was retried and whatever the    *)
(* deletions beside it do (archive_transcode.ts:20-21).                      *)
THEOREM ArchivingClearsTheDisk ==
  ASSUME "lockLoss" \notin Faults, "lostReply" \notin Faults, MaxCrashes = 0
  PROVE  Spec => []ArchivedDiskIsClear
<1>1. TypeOK /\ Undisturbed /\ RemoteHasNoMaster /\ ArchiveComesLast /\ Cleared /\ [Next]_vars
        => Cleared'
  BY ClearedStep
<1>2. TypeOK /\ Cleared => ArchivedDiskIsClear
  <2> SUFFICES ASSUME disk \in Disks, ClearedFor("return") PROVE disk = NoFiles
    BY DEF TypeOK, Cleared, ArchivedDiskIsClear
  <2>1. disk.hls = "none" /\ disk.dl = "none" /\ disk.flac = "none" /\ disk.source = FALSE
    BY DEF ClearedFor, Disks
  <2>2. disk = [source |-> disk.source, hls |-> disk.hls, dl |-> disk.dl, flac |-> disk.flac]
    BY DEF Disks
  <2> QED
    BY <2>1, <2>2 DEF NoFiles
<1> QED
  BY <1>1, <1>2, ClearedInit, CompletionInvariant, RemoteIsNeverArchived, TypeCorrect, PTL
     DEF Spec

-------------------------------------------------------------------------------
(* A master is kept.  As long as the first job may run, a staged encode has *)
(* a whole FLAC beside it; the archive's job is queued over a whole FLAC    *)
(* that nobody touches until it is pushed; and only then does the Source go.*)

ClearPcs == {"rmHls", "rmDl", "rmFlac", "rmSource"}
ToPush == MayRun(ajob) /\ \A w \in Workers : arch[w] \notin ClearPcs \union {"return"}

StagedIsWhole ==
  /\ MayRun(tjob) /\ ajob.state = "none" /\ MasterStaged => disk.flac = "whole"
  /\ ajob.state = "none" => \A w \in Workers : proc[w].pc \in StagedPcs => MasterStaged

(* An archive run whose removal threw pushes again what it has left. *)
ToPushAgain ==
  "disk" \in Faults /\ bucket.archive = "whole" /\ disk.flac \in {"whole", "none"}

PushedIsWhole ==
  /\ ToPush => \/ /\ disk.flac = "whole"
                  /\ MasterStaged \/ tjob.state \in {"failed", "none"}
               \/ ToPushAgain
  /\ \A w \in Workers : arch[w] \in {"record"} \union ClearPcs =>
       /\ bucket.archive = "whole"
       /\ "disk" \in Faults => disk.flac \in {"whole", "none"}
SourceOrArchive == row.status \notin {"none", "FAILED"} => disk.source \/ bucket.archive = "whole"

MasterIsWhole == ~input.remote /\ ~reclaim => StagedIsWhole /\ PushedIsWhole /\ SourceOrArchive

LEMMA MasterIsWholeInit == Init => MasterIsWhole
BY DEF Init, MasterIsWhole, StagedIsWhole, PushedIsWhole, SourceOrArchive, ToPush, MayRun, NoJob,
       NoRow, IdleProc, StagedPcs, PushPcs, ClearPcs

(* A step of the run before its last await. *)
LEMMA ProcessStagesWhole ==
  ASSUME "cutMaster" \notin Faults, TypeOK, Undisturbed, Publication, ~input.remote,
         StagedIsWhole, PushedIsWhole, "disk" \notin Faults \/ ajob.state = "none",
         NEW w \in Workers, RunTranscode(w) \/ EncodeTick(w), ~EnqueueArchive(w)
  PROVE  /\ ajob' = ajob
         /\ MasterStaged' => ajob.state # "none" \/ disk'.flac = "whole"
         /\ proc'[w].pc \in StagedPcs => ajob.state # "none" \/ MasterStaged'
         /\ ToPush => disk'.flac = "whole" /\ MasterStaged'
<1> DEFINE pc == proc[w].pc
           Kept == /\ MasterStaged' => ajob.state # "none" \/ disk'.flac = "whole"
                   /\ pc' \in StagedPcs => ajob.state # "none" \/ MasterStaged'
                   /\ ToPush => disk'.flac = "whole" /\ MasterStaged'
<1>1. ajob' = ajob
  BY ArchiveIsQueuedAtTheEnd
<1> SUFFICES Kept
  BY <1>1
<1>2. /\ MasterStaged => ajob.state # "none" \/ disk.flac = "whole"
      /\ pc \in StagedPcs => ajob.state # "none" \/ MasterStaged
      /\ ToPush => disk.flac = "whole" /\ MasterStaged
  BY ProcessHoldsJob DEF StagedIsWhole, PushedIsWhole, ToPushAgain, ToPush, MayRun
<1>3. ASSUME UNCHANGED disk, pc' \in StagedPcs => pc \in StagedPcs \/ MasterStaged
      PROVE  Kept
  BY <1>2, <1>3 DEF MasterStaged
<1>4. StagedFor(pc)
  BY DEF Publication
<1> USE DEF TypeOK, At, Goes
<1>5. CASE TakeTranscode(w) \/ FindOrFail(w) \/ Probe(w) \/ ProcThrow(w)
  BY <1>3, <1>5 DEF TakeTranscode, FindOrFail, Probe, AfterProbe, ProcThrow, OnlyProc,
     StagedPcs, PushPcs
<1>6. CASE Checkpoint(w) \/ MeasureDownloads(w) \/ CompleteTranscode(w) \/ RejectTranscode(w)
  BY <1>3, <1>6 DEF Checkpoint, MeasureDownloads, CompleteTranscode, RejectTranscode, Ends,
     IdleProc, OnlyProc, StagedPcs, PushPcs
<1>7. CASE StartProgress(w) \/ EncodeTick(w) \/ FinishProgress(w) \/ EnqueueCompletedHook(w)
  <2>1. UNCHANGED disk
    BY <1>7 DEF StartProgress, EncodeTick, FinishProgress, EnqueueCompletedHook
  <2>2. pc' \in StagedPcs => pc \in StagedPcs
    <3>1. CASE EnqueueCompletedHook(w)
      BY <3>1 DEF EnqueueCompletedHook, StagedPcs
    <3>2. CASE StartProgress(w) \/ EncodeTick(w) \/ FinishProgress(w)
      BY <3>2 DEF StartProgress, EncodeTick, FinishProgress, AfterCompleted, StagedPcs, PushPcs
    <3> QED
      BY <1>7, <3>1, <3>2
  <2> QED
    BY <1>3, <2>1, <2>2
<1>8. CASE PushHls(w) \/ PushHlsRest(w) \/ PushDl(w) \/ PushDlRest(w)
  BY <1>3, <1>8 DEF PushHls, PushHlsRest, PushHlsThen, PushDl, PushDlRest, StagedPcs, PushPcs
<1>9. CASE SaveProcessing(w) \/ SaveCompleted(w)
  <2>1. CASE SaveProcessing(w)
    BY <1>3, <2>1 DEF SaveProcessing, StagedPcs, PushPcs
  <2>2. CASE SaveCompleted(w)
    BY <1>3, <2>2 DEF SaveCompleted, StagedPcs, PushPcs
  <2> QED
    BY <1>9, <2>1, <2>2
<1>10. CASE StartEncode(w) \/ FailEncode(w)
  <2>1. ~MasterStaged /\ ~ToPush
    BY <1>2, <1>4, <1>10 DEF StartEncode, FailEncode, StagedFor, EncodePcs, MasterStaged
  <2>2. pc' \in {"encoding", "thrown"}
    <3>1. \E next \in {"encoding", "thrown"} : proc' = [proc EXCEPT ![w].pc = next]
      BY <1>10 DEF StartEncode, FailEncode
    <3> QED
      BY <3>1
  <2>3. ~MasterStaged'
    BY <1>10, <2>1 DEF StartEncode, FailEncode, MasterStaged, Disks
  <2> QED
    BY <2>1, <2>2, <2>3 DEF StagedPcs, PushPcs
<1>11. CASE FinishEncode(w)
  <2>1. ~EncodingElsewhere(w)
    BY ProcessHoldsJob DEF EncodingElsewhere
  <2>2. disk' = [disk EXCEPT !.hls = "whole", !.dl = "whole", !.flac = "whole"]
    BY <1>11, <2>1 DEF FinishEncode, WithArchive
  <2>3. disk'.hls = "whole" /\ disk'.flac = "whole"
    BY <2>2 DEF Disks
  <2> QED
    BY <2>3 DEF MasterStaged
<1> QED
  BY <1>5, <1>6, <1>7, <1>8, <1>9, <1>10, <1>11 DEF RunTranscode

LEMMA ProcessKeepsMaster ==
  ASSUME "cutMaster" \notin Faults, "disk" \in Faults => ArchiveComesLast,
         TypeOK, Undisturbed, Publication, MasterIsWhole,
         NEW w \in Workers, RunTranscode(w) \/ EncodeTick(w)
  PROVE  MasterIsWhole'
<1>1. UNCHANGED <<input, arch>> /\ bucket'.archive = bucket.archive
      /\ disk'.source = disk.source
  BY ProcessWritesNoMaster, ProcessFrame
<1>2. UNCHANGED reclaim
  BY DEF RunTranscode, EncodeTick, TakeTranscode, FindOrFail, Checkpoint, Probe,
     SaveProcessing, StartProgress, StartEncode, FinishEncode, FailEncode,
     MeasureDownloads, PushHls, PushHlsRest, PushHlsThen, PushDl, PushDlRest,
     SaveCompleted, FinishProgress, EnqueueCompletedHook, EnqueueArchive,
     ProcThrow, CompleteTranscode, RejectTranscode, OnlyProc, ProcFrame
<1> SUFFICES ASSUME ~input.remote, ~reclaim
             PROVE  StagedIsWhole' /\ PushedIsWhole' /\ SourceOrArchive'
  BY <1>1, <1>2 DEF MasterIsWhole
<1>3. StagedIsWhole /\ PushedIsWhole /\ SourceOrArchive
  BY DEF MasterIsWhole
<1>4. SourceOrArchive'
  BY <1>1, <1>3, ProcessHoldsJob DEF SourceOrArchive, RowExists
<1>5. CASE "disk" \in Faults /\ ajob.state # "none"
  <2>1. /\ tjob'.state = "completed" /\ proc'[w].pc = "idle"
        /\ UNCHANGED <<row, disk, bucket, ajob, arch>>
    BY <1>5, RunOnlyReturns, RunReturns
  <2>2. StagedIsWhole'
    BY <1>5, <2>1 DEF StagedIsWhole
  <2>3. PushedIsWhole'
    BY <1>3, <2>1, ProcessHoldsJob DEF PushedIsWhole, ToPush, ToPushAgain, MasterStaged, MayRun
  <2> QED
    BY <1>4, <2>2, <2>3
<1> SUFFICES ASSUME "disk" \notin Faults \/ ajob.state = "none"
             PROVE  StagedIsWhole' /\ PushedIsWhole'
  BY <1>4, <1>5
<1>8. \A v \in Workers : arch'[v] \in {"record"} \union ClearPcs =>
        "disk" \notin Faults /\ bucket'.archive = "whole"
  <2>1. \A v \in Workers : arch[v] \in {"record"} \union ClearPcs => ajob.state # "none"
    BY DEF Undisturbed, Withdrawal, RunsHoldTheirJobs, HeldBy, ArchAt, ClearPcs
  <2> QED
    BY <1>1, <1>3, <2>1 DEF PushedIsWhole
<1>6. CASE EnqueueArchive(w)
  <2>1. UNCHANGED <<disk, tjob>> /\ ajob' = Added(ajob) /\ At(w, "archive")
        /\ ajob'.state # "none"
    BY <1>6 DEF EnqueueArchive, Added, NoJob
  <2>2. StagedIsWhole'
    BY <2>1 DEF StagedIsWhole
  <2>3. ToPush' => disk'.flac = "whole" /\ MasterStaged'
    <3>1. CASE ajob.state = "none"
      BY <1>3, <2>1, <3>1, ProcessHoldsJob DEF StagedIsWhole, StagedPcs, At, MasterStaged
    <3>2. CASE ajob.state # "none"
      BY <1>1, <1>3, <2>1, <3>2, ProcessHoldsJob
         DEF PushedIsWhole, ToPush, ToPushAgain, Added, MasterStaged
    <3> QED
      BY <3>1, <3>2
  <2> QED
    BY <1>8, <2>2, <2>3 DEF PushedIsWhole
<1>7. CASE ~EnqueueArchive(w)
  <2>1. /\ ajob' = ajob
        /\ MasterStaged' => ajob.state # "none" \/ disk'.flac = "whole"
        /\ proc'[w].pc \in StagedPcs => ajob.state # "none" \/ MasterStaged'
        /\ ToPush => disk'.flac = "whole" /\ MasterStaged'
    BY <1>3, <1>7, ProcessStagesWhole
  <2>2. \A v \in Workers \ {w} : proc'[v].pc \notin StagedPcs
    BY ProcessHoldsJob DEF At, StagedPcs, PushPcs
  <2>3. StagedIsWhole'
    BY <2>1, <2>2 DEF StagedIsWhole
  <2>4. ToPush' => ToPush
    BY <1>1, <2>1 DEF ToPush
  <2> QED
    BY <1>8, <2>1, <2>3, <2>4 DEF PushedIsWhole
<1> QED
  BY <1>6, <1>7

LEMMA ArchiveKeepsMaster ==
  ASSUME TypeOK, Undisturbed, MasterIsWhole, NEW w \in Workers, RunArchive(w)
  PROVE  MasterIsWhole'
<1> USE DEF ArchAt, ArchGoes, TypeOK
<1> DEFINE Idle == \A v \in Workers \ {w} : arch[v] = "idle" /\ arch'[v] = "idle"
<1>1. Idle /\ UNCHANGED <<input, reclaim, tjob>> /\ row'.status = row.status
      /\ ajob'.state # "none"
  BY ArchiveHoldsJob
<1> SUFFICES ASSUME ~input.remote, ~reclaim
             PROVE  PushedIsWhole' /\ SourceOrArchive'
  BY <1>1 DEF MasterIsWhole, StagedIsWhole
<1> DEFINE Pushing(pc) == pc \notin ClearPcs \union {"return"}
<1>2. /\ MayRun(ajob) /\ Pushing(arch[w])
           => \/ disk.flac = "whole" /\ (MasterStaged \/ tjob.state \in {"failed", "none"})
              \/ ToPushAgain
      /\ arch[w] \in {"record"} \union ClearPcs =>
           /\ bucket.archive = "whole"
           /\ "disk" \in Faults => disk.flac \in {"whole", "none"}
      /\ SourceOrArchive
  BY <1>1 DEF MasterIsWhole, PushedIsWhole, ToPush, ClearPcs
<1>3. MayRun(ajob)
  BY ArchiveHoldsJob DEF MayRun, HeldBy
<1> SUFFICES /\ MayRun(ajob') /\ Pushing(arch'[w])
                  => \/ disk'.flac = "whole"
                        /\ (MasterStaged' \/ tjob.state \in {"failed", "none"})
                     \/ ToPushAgain'
             /\ arch'[w] \in {"record"} \union ClearPcs =>
                  /\ bucket'.archive = "whole"
                  /\ "disk" \in Faults => disk'.flac \in {"whole", "none"}
             /\ disk.source \/ bucket.archive = "whole" => disk'.source \/ bucket'.archive = "whole"
  BY <1>1, <1>2 DEF PushedIsWhole, ToPush, ClearPcs, SourceOrArchive
<1> USE DEF ToPushAgain
<1>4. CASE TakeArchive(w) \/ ArchFind(w)
  BY <1>2, <1>3, <1>4 DEF TakeArchive, ArchFind, AfterFind, ClearPcs, MasterStaged
<1>10. CASE ArchThrow(w)
  <2>1. arch[w] \notin ClearPcs => Pushing(arch[w])
    BY <1>10 DEF ArchThrow, ClearPcs
  <2>2. arch[w] \in ClearPcs => "disk" \in Faults
    BY <1>10 DEF ArchThrow, ClearPcs
  <2> QED
    BY <1>2, <1>3, <1>10, <2>1, <2>2 DEF ArchThrow, ClearPcs, MasterStaged
<1>5. CASE PushArchive(w)
  <2>1. \/ disk.flac = "whole" /\ (MasterStaged \/ tjob.state \in {"failed", "none"})
        \/ ToPushAgain
    BY <1>2, <1>3, <1>5 DEF PushArchive, ClearPcs
  <2>2. CASE disk.flac = "none"
    BY <1>5, <2>1, <2>2 DEF PushArchive, MasterStaged, ClearPcs
  <2>3. CASE disk.flac # "none"
    <3>1. disk.flac = "whole" /\ bucket'.archive = "whole"
      BY <1>5, <2>1, <2>3 DEF PushArchive, Buckets
    <3> QED
      BY <1>5, <2>1, <2>3, <3>1 DEF PushArchive, MasterStaged, ClearPcs
  <2> QED
    BY <2>2, <2>3
<1>6. CASE RecordArchive(w)
  BY <1>2, <1>6 DEF RecordArchive, ClearPcs
<1>7. CASE ArchRmHls(w) \/ ArchRmDl(w) \/ ArchRmFlac(w) \/ ArchRmSource(w)
  <2>1. /\ arch[w] \in ClearPcs /\ arch'[w] \in ClearPcs \union {"return"}
        /\ UNCHANGED bucket
    BY <1>7 DEF ArchRmHls, ArchRmDl, AfterRmDl, ArchRmFlac, ArchRmSource, ArchRemove, ClearPcs
  <2>2. disk'.flac \in {disk.flac, "none"}
    BY <1>7 DEF ArchRmHls, ArchRmDl, ArchRmFlac, ArchRmSource, ArchRemove, Disks
  <2> QED
    BY <1>2, <2>1, <2>2 DEF ClearPcs
<1>8. CASE CompleteArchive(w)
  <2>1. HeldBy(ajob, w)
    BY <1>8, ArchiveHoldsJob DEF CompleteArchive
  <2>2. ~MayRun(ajob')
    BY <1>8, <2>1 DEF CompleteArchive, Completed, MayRun, Jobs
  <2> QED
    BY <1>8, <2>2 DEF CompleteArchive, ClearPcs
<1>9. CASE RejectArchive(w)
  BY <1>2, <1>3, <1>9 DEF RejectArchive, ClearPcs, MasterStaged
<1> QED
  BY <1>4, <1>5, <1>6, <1>7, <1>8, <1>9, <1>10 DEF RunArchive

(* A deletion is on record as soon as it destroys. *)
LEMMA DestroyingReclaims ==
  ASSUME Publication, NEW d \in Purges, del[d] \in DestroyPcs,
         del[d] = "purgeHls" => reclaim', reclaim => reclaim'
  PROVE  reclaim'
BY DEF Publication, AfterPurgeHls

LEMMA MasterIsWholeStep ==
  ASSUME "lockLoss" \notin Faults, "cutMaster" \notin Faults, MaxCrashes = 0,
         "disk" \in Faults => ArchiveComesLast,
         TypeOK, Undisturbed, Outcome, Publication, MasterIsWhole, [Next]_vars
  PROVE  MasterIsWhole'
<1>1. CASE UNCHANGED vars
  BY <1>1 DEF vars, MasterIsWhole, StagedIsWhole, PushedIsWhole, SourceOrArchive, ToPush,
     ToPushAgain, MayRun, MasterStaged
<1>2. CASE Ingest
  <2> SUFFICES ASSUME ~input.remote, ~reclaim
               PROVE  StagedIsWhole' /\ PushedIsWhole' /\ SourceOrArchive'
    BY <1>2, RequestIsAlone DEF MasterIsWhole
  <2>1. ~MasterStaged'
    BY <1>2, RequestIsAlone DEF Undisturbed, NothingIsMade, MasterStaged
  <2>2. StagedIsWhole' /\ PushedIsWhole'
    BY <1>2, <2>1, RequestIsAlone DEF StagedIsWhole, PushedIsWhole, ToPush, MayRun, At, ArchAt,
       StagedPcs, PushPcs, ClearPcs
  <2>3. SourceOrArchive'
    <3>1. SourceOrArchive
      BY DEF MasterIsWhole
    <3>2. ingest = "row" => disk.source
      BY DEF Outcome, NothingIsEarly
    <3> QED
      BY <1>2, <3>1, <3>2, RequestIsAlone DEF SourceOrArchive
  <2> QED
    BY <2>2, <2>3
<1>3. ASSUME NEW w \in Workers, RunTranscode(w) \/ EncodeTick(w)
      PROVE  MasterIsWhole'
  BY <1>3, ProcessKeepsMaster
<1>4. ASSUME NEW w \in Workers, RunArchive(w)
      PROVE  MasterIsWhole'
  BY <1>4, ArchiveKeepsMaster
<1>5. CASE RunFail
  <2> SUFFICES ASSUME ~input.remote, ~reclaim
               PROVE  StagedIsWhole' /\ PushedIsWhole' /\ SourceOrArchive'
    BY <1>5, ListenerIsAlone DEF MasterIsWhole
  <2>1. PushedIsWhole /\ SourceOrArchive
    BY DEF MasterIsWhole
  <2>2. StagedIsWhole' /\ PushedIsWhole'
    BY <1>5, <2>1, ListenerIsAlone DEF StagedIsWhole, PushedIsWhole, ToPush, ToPushAgain,
       MayRun, At, StagedPcs, PushPcs
  <2>3. fail.pc = "rmSource" => row.status \in {"FAILED", "none"}
    BY DEF Outcome, FailedIsSaved
  <2>4. SourceOrArchive'
    BY <1>5, <2>1, <2>3, ListenerIsAlone DEF SourceOrArchive
  <2> QED
    BY <2>2, <2>4
<1>6. ASSUME NEW d \in Purges, StartDelete(d) \/ ServeDelete(d)
      PROVE  MasterIsWhole'
  <2>1. CASE ~UNCHANGED <<row, disk, bucket, progress>>
    <3>1. reclaim'
      BY <1>6, <2>1, DeletionIsAlone, DestroyingReclaims
    <3> QED
      BY <3>1 DEF MasterIsWhole
  <2>2. CASE UNCHANGED <<row, disk, bucket, progress>>
    <3> SUFFICES ASSUME ~input.remote, ~reclaim
                 PROVE  StagedIsWhole' /\ PushedIsWhole' /\ SourceOrArchive'
      BY <1>6, DeletionIsAlone DEF MasterIsWhole
    <3>1. StagedIsWhole /\ PushedIsWhole /\ SourceOrArchive
      BY DEF MasterIsWhole
    <3>2. UNCHANGED <<row, disk, bucket, proc, arch>>
      BY <1>6, <2>2, DeletionIsAlone
    <3>3. CASE ajob' = ajob
      BY <1>6, <3>1, <3>2, <3>3, DeletionIsAlone DEF StagedIsWhole, PushedIsWhole,
         SourceOrArchive, ToPush, ToPushAgain, MayRun, MasterStaged, NoJob
    <3>4. CASE ajob' = NoJob /\ tjob.state = "none" /\ tjob' = tjob
      <4>1. \A w \in Workers : At(w, "idle")
        BY <3>4 DEF Undisturbed, Withdrawal, RunsHoldTheirJobs, HeldBy
      <4> QED
        BY <3>1, <3>2, <3>4, <4>1 DEF StagedIsWhole, PushedIsWhole, SourceOrArchive, ToPush,
           MayRun, MasterStaged, NoJob, At, StagedPcs, PushPcs
    <3> QED
      BY <1>6, <3>3, <3>4, DeletionIsAlone
  <2> QED
    BY <2>1, <2>2
<1>7. CASE ExpireProgress
  BY <1>7 DEF ExpireProgress, MasterIsWhole, StagedIsWhole, PushedIsWhole, SourceOrArchive,
     ToPush, ToPushAgain, MayRun, MasterStaged
<1> QED
  BY <1>1, <1>2, <1>3, <1>4, <1>5, <1>6, <1>7, StepsWithoutDisturbance DEF Undisturbed

LEMMA PublicationInvariant ==
  ASSUME "lockLoss" \notin Faults, "cutMaster" \notin Faults
  PROVE  Spec => []Publication
<1>1. TypeOK /\ Withdrawal /\ [Next]_vars => Withdrawal'
  BY WithdrawalStep
<1>2. TypeOK /\ Withdrawal /\ Publication /\ [Next]_vars => Publication'
  BY PublicationStep
<1> QED
  BY <1>1, <1>2, WithdrawalInit, PublicationInit, TypeCorrect, PTL DEF Spec

(* A completed upload always has a master, its Source or a whole archive,   *)
(* until somebody deletes it: through every throw and retry of either job,  *)
(* also where a job was queued by a call that then threw                     *)
(* (archive_transcode.ts:20-21: the archive is there before the Source goes).*)
THEOREM UploadsKeepAMaster ==
  ASSUME "lockLoss" \notin Faults, "cutMaster" \notin Faults, MaxCrashes = 0,
         "lostReply" \notin Faults \/ "disk" \notin Faults
  PROVE  Spec => []MasterIsKept
<1> DEFINE QueuedLast == "disk" \in Faults => ArchiveComesLast
<1>1. TypeOK /\ Undisturbed /\ Outcome /\ Publication /\ QueuedLast /\ MasterIsWhole
        /\ [Next]_vars => MasterIsWhole'
  BY MasterIsWholeStep
<1>2. MasterIsWhole => MasterIsKept
  BY DEF MasterIsWhole, SourceOrArchive, MasterIsKept
<1>3. Spec => []QueuedLast
  <2>1. CASE "lostReply" \notin Faults
    <3>1. ArchiveComesLast => QueuedLast
      OBVIOUS
    <3> QED
      BY <2>1, <3>1, CompletionInvariant, PTL
  <2>2. CASE "disk" \notin Faults
    <3>1. QueuedLast
      BY <2>2
    <3> QED
      BY <3>1, PTL
  <2> QED
    BY <2>1, <2>2
<1> QED
  BY <1>1, <1>2, <1>3, MasterIsWholeInit, UndisturbedInvariant, OutcomeInvariant,
     PublicationInvariant, TypeCorrect, PTL DEF Spec

-------------------------------------------------------------------------------
(* COMPLETED is the end of the run that saves it, as long as nothing after  *)
(* it throws: neither a retry nor the listener finds a completed row, and    *)
(* the run that saves it does not hold it for saved already.                 *)

CompletedIsLast ==
  /\ row.status = "COMPLETED" =>
       /\ tjob.state \notin {"waiting", "failed"}
       /\ \A w \in Workers : At(w, "idle") \/ proc[w].pc \in PublishedPcs
       /\ fail.pc = "idle"
  /\ \A w \in Workers : IF proc[w].pc \in PublishedPcs
                         THEN row.status \in {"COMPLETED", "none"}
                         ELSE proc[w].seen # "COMPLETED"

LEMMA CompletedIsLastInit == Init => CompletedIsLast
BY DEF Init, CompletedIsLast, NoRow, IdleProc, PublishedPcs

LEMMA RunKnowsWhetherCompleted ==
  ASSUME TypeOK, Undisturbed, CompletedIsLast,
         NEW w \in Workers, RunTranscode(w) \/ EncodeTick(w)
  PROVE  /\ row.status = "COMPLETED" => proc[w].pc \in PublishedPcs /\ HeldBy(tjob, w)
         /\ row.status # "COMPLETED" => /\ proc[w].pc \notin PublishedPcs
                                        /\ proc[w].seen # "COMPLETED"
BY ProcessHoldsJob DEF CompletedIsLast, At, RowExists

LEMMA RunAfterCompleted ==
  ASSUME "redis" \notin Faults, "lostReply" \notin Faults, TypeOK,
         NEW w \in Workers, RunTranscode(w) \/ EncodeTick(w),
         proc[w].pc \in PublishedPcs, HeldBy(tjob, w)
  PROVE  /\ UNCHANGED <<row, fail>> /\ tjob'.state \notin {"waiting", "failed"}
         /\ proc'[w].pc \in PublishedPcs \/ proc'[w] = IdleProc
<1>1. \/ FinishProgress(w) \/ EnqueueCompletedHook(w) \/ EnqueueArchive(w)
      \/ CompleteTranscode(w)
  BY DEF PublishedPcs, At, RunTranscode, EncodeTick, TakeTranscode, FindOrFail, Checkpoint,
     Probe, SaveProcessing, StartProgress, StartEncode, FinishEncode, FailEncode,
     MeasureDownloads, PushHls, PushHlsRest, PushHlsThen, PushDl, PushDlRest,
     SaveCompleted, ProcThrow, ProcFaulty, RejectTranscode
<1>2. CASE FinishProgress(w) \/ EnqueueCompletedHook(w) \/ EnqueueArchive(w)
  <2>1. UNCHANGED <<row, fail, tjob>>
        /\ \E pc \in PublishedPcs : proc' = [proc EXCEPT ![w].pc = pc]
    BY <1>2 DEF FinishProgress, AfterCompleted, EnqueueCompletedHook, EnqueueArchive, Goes,
       PublishedPcs
  <2> QED
    BY <2>1 DEF HeldBy, TypeOK
<1>3. CASE CompleteTranscode(w)
  <2>1. proc'[w] = IdleProc
    BY <1>3 DEF CompleteTranscode, Ends, TypeOK
  <2> QED
    BY <1>3, <2>1, RunReturns
<1> QED
  BY <1>1, <1>2, <1>3

LEMMA RunBeforeCompleted ==
  ASSUME TypeOK, NEW w \in Workers, RunTranscode(w) \/ EncodeTick(w), ~SaveCompleted(w),
         row.status # "COMPLETED", proc[w].pc \notin PublishedPcs, proc[w].seen # "COMPLETED"
  PROVE  /\ row'.status # "COMPLETED"
         /\ proc'[w].pc \notin PublishedPcs /\ proc'[w].seen # "COMPLETED"
<1> USE DEF TypeOK, At, PublishedPcs
<1>1. CASE FindOrFail(w)
  BY <1>1 DEF FindOrFail, OnlyProc
<1>2. CASE SaveProcessing(w)
  <2>1. row'.status # "COMPLETED"
    BY <1>2 DEF SaveProcessing, SaveStatus, Updated, Rows
  <2> QED
    BY <1>2, <2>1 DEF SaveProcessing
<1>3. CASE CompleteTranscode(w) \/ RejectTranscode(w)
  <2>1. row' = row /\ proc'[w] = IdleProc
    BY <1>3 DEF CompleteTranscode, RejectTranscode, Ends
  <2> QED
    BY <2>1 DEF IdleProc
<1>4. CASE \/ TakeTranscode(w) \/ Checkpoint(w) \/ Probe(w) \/ StartProgress(w)
           \/ MeasureDownloads(w) \/ ProcThrow(w) \/ EncodeTick(w)
  BY <1>4 DEF TakeTranscode, Checkpoint, Probe, AfterProbe, StartProgress, MeasureDownloads,
     ProcThrow, EncodeTick, OnlyProc, Goes
<1>5. CASE StartEncode(w) \/ FinishEncode(w) \/ FailEncode(w)
  <2>1. row' = row /\ \E pc \in {"encoding", "measure", "thrown"} :
                        proc' = [proc EXCEPT ![w].pc = pc]
    BY <1>5 DEF StartEncode, FinishEncode, FailEncode, Goes
  <2> QED
    BY <2>1
<1>6. CASE PushHls(w) \/ PushHlsRest(w) \/ PushDl(w) \/ PushDlRest(w)
  <2>1. row' = row /\ \E pc \in {"pushHlsRest", "pushDl", "pushDlRest", "saveCompleted",
                                  "thrown"} : proc' = [proc EXCEPT ![w].pc = pc]
    BY <1>6 DEF PushHls, PushHlsRest, PushHlsThen, PushDl, PushDlRest, Goes
  <2> QED
    BY <2>1
<1>7. ~FinishProgress(w) /\ ~EnqueueCompletedHook(w) /\ ~EnqueueArchive(w)
  BY DEF FinishProgress, EnqueueCompletedHook, EnqueueArchive
<1> QED
  BY <1>1, <1>2, <1>3, <1>4, <1>5, <1>6, <1>7 DEF RunTranscode

LEMMA SaveOfCompleted ==
  ASSUME TypeOK, RowExists, NEW w \in Workers, SaveCompleted(w), proc[w].seen # "COMPLETED"
  PROVE  row'.status = "COMPLETED" /\ proc'[w].pc = "progress100" /\ UNCHANGED <<tjob, fail>>
<1>1. row'.status = "COMPLETED"
  BY DEF SaveCompleted, SaveStatus, Updated, TypeOK, Rows
<1>2. proc'[w].pc = "progress100"
  BY DEF SaveCompleted, TypeOK
<1> QED
  BY <1>1, <1>2 DEF SaveCompleted

LEMMA ProcessCompletes ==
  ASSUME "redis" \notin Faults, "lostReply" \notin Faults, TypeOK, Undisturbed,
         CompletedIsLast, NEW w \in Workers, RunTranscode(w) \/ EncodeTick(w)
  PROVE  CompletedIsLast' /\ (row.status = "COMPLETED" => row' = row)
<1>1. /\ \A v \in Workers \ {w} : At(v, "idle") /\ proc'[v] = proc[v]
      /\ RowExists /\ fail.pc = "idle"
  BY ProcessHoldsJob
<1>2. \A v \in Workers \ {w} : proc'[v].pc = "idle" /\ proc'[v].seen # "COMPLETED"
  BY <1>1 DEF CompletedIsLast, At, PublishedPcs
<1> SUFFICES /\ row'.status = "COMPLETED" =>
                  /\ tjob'.state \notin {"waiting", "failed"}
                  /\ proc'[w].pc = "idle" \/ proc'[w].pc \in PublishedPcs
                  /\ fail'.pc = "idle"
             /\ IF proc'[w].pc \in PublishedPcs
                THEN row'.status \in {"COMPLETED", "none"} ELSE proc'[w].seen # "COMPLETED"
             /\ row.status = "COMPLETED" => row' = row
  BY <1>2 DEF CompletedIsLast, At, PublishedPcs
<1>3. CASE row.status = "COMPLETED"
  BY <1>1, <1>3, RunKnowsWhetherCompleted, RunAfterCompleted DEF IdleProc, PublishedPcs
<1>4. CASE row.status # "COMPLETED"
  <2>1. proc[w].pc \notin PublishedPcs /\ proc[w].seen # "COMPLETED"
    BY <1>4, RunKnowsWhetherCompleted
  <2>2. CASE SaveCompleted(w)
    <3>1. HeldBy(tjob, w)
      BY <2>2, ProcessHoldsJob DEF SaveCompleted, At
    <3> QED
      BY <1>1, <1>4, <2>1, <2>2, <3>1, SaveOfCompleted DEF HeldBy, PublishedPcs
  <2>3. CASE ~SaveCompleted(w)
    BY <1>4, <2>1, <2>3, RunBeforeCompleted
  <2> QED
    BY <2>2, <2>3
<1> QED
  BY <1>3, <1>4

LEMMA CompletedIsLastStep ==
  ASSUME "lockLoss" \notin Faults, "redis" \notin Faults, "lostReply" \notin Faults,
         MaxCrashes = 0, TypeOK, Undisturbed, CompletedIsLast, [Next]_vars
  PROVE  CompletedIsLast'
<1>1. CASE UNCHANGED vars
  BY <1>1 DEF vars, CompletedIsLast, At
<1>2. ASSUME proc' = proc, \A w \in Workers : At(w, "idle"),
             row'.status = "COMPLETED" => tjob'.state \notin {"waiting", "failed"}
                                          /\ fail'.pc = "idle"
      PROVE  CompletedIsLast'
  BY <1>2 DEF CompletedIsLast, At, PublishedPcs
<1>3. CASE Ingest
  BY <1>2, <1>3, RequestIsAlone DEF Undisturbed, NothingIsMade, NoRow
<1>4. ASSUME NEW w \in Workers, RunTranscode(w) \/ EncodeTick(w)
      PROVE  CompletedIsLast'
  BY <1>4, ProcessCompletes
<1>5. ASSUME NEW w \in Workers, RunArchive(w)
      PROVE  CompletedIsLast'
  BY <1>5, ArchiveHoldsJob DEF CompletedIsLast, At
<1>6. CASE RunFail
  BY <1>2, <1>6, ListenerIsAlone DEF CompletedIsLast
<1>7. ASSUME NEW d \in Purges, StartDelete(d) \/ ServeDelete(d)
      PROVE  CompletedIsLast'
  BY <1>7, DeletionIsAlone DEF CompletedIsLast, At, NoRow, NoJob
<1>8. CASE ExpireProgress
  BY <1>8 DEF ExpireProgress, CompletedIsLast, At
<1> QED
  BY <1>1, <1>3, <1>4, <1>5, <1>6, <1>7, <1>8, StepsWithoutDisturbance DEF Undisturbed

LEMMA CompletedStep ==
  ASSUME "lockLoss" \notin Faults, "redis" \notin Faults, "lostReply" \notin Faults,
         MaxCrashes = 0, TypeOK, Undisturbed, CompletedIsLast, Next, row.status = "COMPLETED"
  PROVE  row'.status \in {"COMPLETED", "none"}
<1>1. CASE Ingest
  BY <1>1, RequestIsAlone DEF Undisturbed, NothingIsMade
<1>2. ASSUME NEW w \in Workers, RunTranscode(w) \/ EncodeTick(w)
      PROVE  row' = row
  BY <1>2, ProcessCompletes
<1>3. ASSUME NEW w \in Workers, RunArchive(w)
      PROVE  row'.status = row.status
  BY <1>3, ArchiveHoldsJob
<1>4. ~RunFail
  BY ListenerIsAlone DEF CompletedIsLast
<1>5. ASSUME NEW d \in Purges, StartDelete(d) \/ ServeDelete(d)
      PROVE  row' = row \/ row' = NoRow
  BY <1>5, DeletionIsAlone
<1>6. CASE ExpireProgress
  BY <1>6 DEF ExpireProgress
<1> QED
  BY <1>1, <1>2, <1>3, <1>4, <1>5, <1>6, StepsWithoutDisturbance DEF Undisturbed, NoRow

LEMMA EndInvariant ==
  ASSUME "lockLoss" \notin Faults, "redis" \notin Faults, "lostReply" \notin Faults,
         MaxCrashes = 0
  PROVE  Spec => [](Undisturbed /\ CompletedIsLast)
<1>1. TypeOK /\ Undisturbed /\ CompletedIsLast /\ [Next]_vars => CompletedIsLast'
  BY CompletedIsLastStep
<1> QED
  BY <1>1, CompletedIsLastInit, UndisturbedInvariant, TypeCorrect, PTL DEF Spec

(* The lifecycle ends once: COMPLETED and FAILED give way to the deletion   *)
(* only (process_transcode.ts:45-46 and :122, fail_transcode.ts).           *)
THEOREM EndsAreFinal ==
  ASSUME "lockLoss" \notin Faults, "redis" \notin Faults, "lostReply" \notin Faults,
         MaxCrashes = 0
  PROVE  Spec => TerminalIsFinal
<1>1. TypeOK /\ Undisturbed /\ CompletedIsLast /\ [Next]_vars
        => [row.status \in {"COMPLETED", "FAILED"} => row'.status \in {row.status, "none"}]_vars
  BY CompletedStep, FailedStep DEF Undisturbed
<1> QED
  BY <1>1, EndInvariant, TypeCorrect, PTL DEF Spec, TerminalIsFinal

-------------------------------------------------------------------------------
(* What a client hears.  A run that pushes ticks has made its Transcode     *)
(* leave PENDING, also where Lucid skipped the save of PROCESSING because    *)
(* the run had read that very status.                                        *)

TickPcs == {"progress0", "encode", "encoding"}
SeenIsPast ==
  \A w \in Workers :
    /\ proc[w].pc \in {"check"} \union EncodePcs /\ proc[w].seen = "PROCESSING"
         => row.status # "PENDING"
    /\ proc[w].pc \in TickPcs => proc[w].seen = "PROCESSING"

(* Once its job is queued a Transcode is never PENDING again, nor created. *)
LEMMA NeverPendingAgain ==
  ASSUME "lockLoss" \notin Faults, MaxCrashes = 0, TypeOK, Undisturbed, [Next]_vars,
         ingest = "accepted"
  PROVE  /\ ingest' = "accepted"
         /\ row.status # "PENDING" => row'.status # "PENDING"
         /\ ~RowExists => ~RowExists'
<1>1. CASE UNCHANGED vars
  BY <1>1 DEF vars, RowExists
<1>2. ~Ingest
  BY RequestIsAlone
<1>3. ASSUME NEW w \in Workers, RunTranscode(w) \/ EncodeTick(w)
      PROVE  /\ ingest' = ingest /\ RowExists
             /\ row.status # "PENDING" => row'.status # "PENDING"
  <2>1. ingest' = ingest /\ RowExists
    BY <1>3, ProcessHoldsJob
  <2>2. CASE SaveProcessing(w)
    BY <2>1, <2>2 DEF SaveProcessing, SaveStatus, Updated, RowExists, TypeOK, Rows
  <2>3. CASE SaveCompleted(w)
    BY <2>1, <2>3 DEF SaveCompleted, SaveStatus, Updated, RowExists, TypeOK, Rows
  <2>4. CASE \/ TakeTranscode(w) \/ FindOrFail(w) \/ Checkpoint(w) \/ Probe(w)
             \/ MeasureDownloads(w) \/ ProcThrow(w)
    BY <2>1, <2>4 DEF TakeTranscode, FindOrFail, Checkpoint, Probe, MeasureDownloads,
       ProcThrow, OnlyProc
  <2>5. CASE \/ StartProgress(w) \/ StartEncode(w) \/ EncodeTick(w) \/ FinishEncode(w)
             \/ FailEncode(w) \/ PushHls(w) \/ PushHlsRest(w) \/ PushDl(w) \/ PushDlRest(w)
    BY <2>1, <2>5 DEF StartProgress, StartEncode, EncodeTick, FinishEncode, FailEncode,
       PushHls, PushHlsRest, PushHlsThen, PushDl, PushDlRest
  <2>6. CASE \/ FinishProgress(w) \/ EnqueueCompletedHook(w) \/ EnqueueArchive(w)
             \/ CompleteTranscode(w) \/ RejectTranscode(w)
    BY <2>1, <2>6 DEF FinishProgress, EnqueueCompletedHook, EnqueueArchive,
       CompleteTranscode, RejectTranscode
  <2> QED
    BY <1>3, <2>1, <2>2, <2>3, <2>4, <2>5, <2>6 DEF RunTranscode
<1>4. ASSUME NEW w \in Workers, RunArchive(w)
      PROVE  ingest' = ingest /\ RowExists /\ row'.status = row.status
  BY <1>4, ArchiveHoldsJob
<1>5. CASE RunFail
  BY <1>5, ListenerIsAlone DEF RowExists
<1>6. ASSUME NEW d \in Purges, StartDelete(d) \/ ServeDelete(d)
      PROVE  ingest' = ingest /\ (row' = row \/ row' = NoRow)
  BY <1>6, DeletionIsAlone
<1>7. CASE ExpireProgress
  BY <1>7 DEF ExpireProgress, RowExists
<1> QED
  BY <1>1, <1>2, <1>3, <1>4, <1>5, <1>6, <1>7, StepsWithoutDisturbance
     DEF Undisturbed, RowExists, NoRow

LEMMA ProcessSees ==
  ASSUME TypeOK, SeenIsPast, NEW w \in Workers, RunTranscode(w) \/ EncodeTick(w),
         row.status # "PENDING" => row'.status # "PENDING"
  PROVE  /\ proc'[w].pc \in {"check"} \union EncodePcs /\ proc'[w].seen = "PROCESSING"
              => row'.status # "PENDING"
         /\ proc'[w].pc \in TickPcs => proc'[w].seen = "PROCESSING"
<1> USE DEF TypeOK, At, EncodePcs, TickPcs
<1>1. /\ proc[w].pc \in {"check"} \union EncodePcs /\ proc[w].seen = "PROCESSING"
           => row.status # "PENDING"
      /\ proc[w].pc \in TickPcs => proc[w].seen = "PROCESSING"
  BY DEF SeenIsPast
<1>2. CASE FindOrFail(w)
  BY <1>2 DEF FindOrFail, OnlyProc
<1>3. CASE SaveProcessing(w)
  <2>1. row'.status # "PENDING"
    BY <1>1, <1>3 DEF SaveProcessing, SaveStatus, Updated, RowExists, Rows
  <2> QED
    BY <1>3, <2>1 DEF SaveProcessing
<1>4. CASE SaveCompleted(w)
  BY <1>4 DEF SaveCompleted
<1>5. CASE CompleteTranscode(w) \/ RejectTranscode(w)
  <2>1. proc'[w] = IdleProc
    BY <1>5 DEF CompleteTranscode, RejectTranscode, Ends
  <2> QED
    BY <2>1 DEF IdleProc
<1>6. CASE \/ TakeTranscode(w) \/ Checkpoint(w) \/ Probe(w) \/ StartProgress(w)
           \/ MeasureDownloads(w) \/ ProcThrow(w) \/ EncodeTick(w)
  BY <1>1, <1>6 DEF TakeTranscode, Checkpoint, Probe, AfterProbe, StartProgress,
     MeasureDownloads, ProcThrow, EncodeTick, OnlyProc, Goes
<1>7. CASE StartEncode(w) \/ FinishEncode(w) \/ FailEncode(w)
  <2>1. /\ proc[w].pc \in TickPcs /\ row' = row
        /\ \E pc \in {"encoding", "measure", "thrown"} : proc' = [proc EXCEPT ![w].pc = pc]
    BY <1>7 DEF StartEncode, FinishEncode, FailEncode, Goes
  <2> QED
    BY <1>1, <2>1
<1>8. CASE PushHls(w) \/ PushHlsRest(w) \/ PushDl(w) \/ PushDlRest(w)
  <2>1. \E pc \in {"pushHlsRest", "pushDl", "pushDlRest", "saveCompleted", "thrown"} :
          proc' = [proc EXCEPT ![w].pc = pc]
    BY <1>8 DEF PushHls, PushHlsRest, PushHlsThen, PushDl, PushDlRest, Goes
  <2> QED
    BY <2>1
<1>9. CASE FinishProgress(w) \/ EnqueueCompletedHook(w) \/ EnqueueArchive(w)
  <2>1. \E pc \in {"hook", "archive", "return", "thrown"} : proc' = [proc EXCEPT ![w].pc = pc]
    BY <1>9 DEF FinishProgress, AfterCompleted, EnqueueCompletedHook, EnqueueArchive, Goes
  <2> QED
    BY <2>1
<1> QED
  BY <1>2, <1>3, <1>4, <1>5, <1>6, <1>7, <1>8, <1>9 DEF RunTranscode

LEMMA SeenIsPastStep ==
  ASSUME "lockLoss" \notin Faults, MaxCrashes = 0, TypeOK, Undisturbed, SeenIsPast, [Next]_vars
  PROVE  SeenIsPast'
<1>1. ASSUME proc' = proc PROVE SeenIsPast'
  <2> SUFFICES ASSUME NEW w \in Workers
               PROVE  /\ proc[w].pc \in {"check"} \union EncodePcs
                           /\ proc[w].seen = "PROCESSING" => row'.status # "PENDING"
                      /\ proc[w].pc \in TickPcs => proc[w].seen = "PROCESSING"
    BY <1>1 DEF SeenIsPast
  <2>1. CASE At(w, "idle")
    BY <2>1 DEF At, EncodePcs, TickPcs
  <2>2. CASE ~At(w, "idle")
    <3>1. tjob.state # "none"
      BY <2>2 DEF Undisturbed, Withdrawal, RunsHoldTheirJobs, HeldBy
    <3> QED
      BY <3>1, RunnerFindsRow, NeverPendingAgain DEF SeenIsPast
  <2> QED
    BY <2>1, <2>2
<1>2. ASSUME NEW w \in Workers, RunTranscode(w) \/ EncodeTick(w)
      PROVE  SeenIsPast'
  <2>1. row.status # "PENDING" => row'.status # "PENDING"
    BY <1>2, ProcessHoldsJob, NeverPendingAgain
  <2> QED
    BY <1>2, <2>1, ProcessSees, ProcessHoldsJob DEF SeenIsPast, At, EncodePcs, TickPcs
<1>3. CASE UNCHANGED vars \/ Ingest \/ RunFail \/ ExpireProgress
  BY <1>1, <1>3, RequestIsAlone, ListenerIsAlone DEF vars, ExpireProgress
<1>4. ASSUME NEW w \in Workers, RunArchive(w) PROVE SeenIsPast'
  BY <1>1, <1>4, ArchiveHoldsJob
<1>5. ASSUME NEW d \in Purges, StartDelete(d) \/ ServeDelete(d) PROVE SeenIsPast'
  BY <1>1, <1>5, DeletionIsAlone
<1> QED
  BY <1>2, <1>3, <1>4, <1>5, StepsWithoutDisturbance DEF Undisturbed

LEMMA SeenIsPastInit == Init => SeenIsPast
<1> SUFFICES ASSUME Init, NEW w \in Workers
             PROVE  proc[w].pc \notin {"check"} \union EncodePcs /\ proc[w].pc \notin TickPcs
  BY DEF SeenIsPast
<1>1. proc[w] = IdleProc
  BY DEF Init
<1> QED
  BY <1>1 DEF IdleProc, EncodePcs, TickPcs

LEMMA SeenIsPastInvariant ==
  ASSUME "lockLoss" \notin Faults, MaxCrashes = 0
  PROVE  Spec => []SeenIsPast
<1>1. TypeOK /\ Undisturbed /\ SeenIsPast /\ [Next]_vars => SeenIsPast'
  BY SeenIsPastStep
<1> QED
  BY <1>1, SeenIsPastInit, UndisturbedInvariant, TypeCorrect, PTL DEF Spec

(* Only a run that encodes makes the percentage live. *)
LEMMA ProgressOfRun ==
  ASSUME NEW w \in Workers, RunTranscode(w) \/ EncodeTick(w)
  PROVE  progress' \in {progress, "done"} \/ proc[w].pc \in TickPcs
<1>1. CASE StartProgress(w) \/ EncodeTick(w)
  BY <1>1 DEF StartProgress, EncodeTick, At, TickPcs
<1>2. CASE FinishProgress(w)
  BY <1>2 DEF FinishProgress
<1>3. CASE \/ TakeTranscode(w) \/ FindOrFail(w) \/ Checkpoint(w) \/ Probe(w)
           \/ MeasureDownloads(w) \/ ProcThrow(w) \/ SaveProcessing(w) \/ SaveCompleted(w)
  BY <1>3 DEF TakeTranscode, FindOrFail, Checkpoint, Probe, MeasureDownloads, ProcThrow,
     SaveProcessing, SaveCompleted, OnlyProc
<1>4. CASE \/ StartEncode(w) \/ FinishEncode(w) \/ FailEncode(w)
           \/ PushHls(w) \/ PushHlsRest(w) \/ PushDl(w) \/ PushDlRest(w)
  BY <1>4 DEF StartEncode, FinishEncode, FailEncode, PushHls, PushHlsRest, PushHlsThen,
     PushDl, PushDlRest
<1>5. CASE \/ EnqueueCompletedHook(w) \/ EnqueueArchive(w) \/ CompleteTranscode(w)
           \/ RejectTranscode(w)
  BY <1>5 DEF EnqueueCompletedHook, EnqueueArchive, CompleteTranscode, RejectTranscode
<1> QED
  BY <1>1, <1>2, <1>3, <1>4, <1>5 DEF RunTranscode

(* An end that was reached stands, in the row and in the percentage, which *)
(* the TTL and the deletion may only take away.                              *)
EndStands(status, percents) ==
  ingest = "accepted" /\ row.status \in {status, "none"} /\ progress \in percents

LEMMA EndsStand ==
  ASSUME "lockLoss" \notin Faults, "redis" \notin Faults, "lostReply" \notin Faults,
         MaxCrashes = 0, TypeOK, Undisturbed, CompletedIsLast, [Next]_vars
  PROVE  /\ EndStands("COMPLETED", {"none", "done"}) => EndStands("COMPLETED", {"none", "done"})'
         /\ EndStands("FAILED", {"none"}) => EndStands("FAILED", {"none"})'
<1> USE DEF EndStands
<1>1. CASE UNCHANGED vars
  BY <1>1 DEF vars
<1>2. CASE Ingest
  BY <1>2, RequestIsAlone
<1>3. ASSUME NEW w \in Workers, RunTranscode(w) \/ EncodeTick(w),
             row.status \in {"COMPLETED", "FAILED", "none"}
      PROVE  /\ ingest' = ingest /\ row.status = "COMPLETED" /\ row' = row
             /\ progress' \in {progress, "done"}
  <2>1. ingest' = ingest /\ row.status = "COMPLETED"
    BY <1>3, ProcessHoldsJob DEF RowExists
  <2>2. proc[w].pc \in PublishedPcs /\ HeldBy(tjob, w)
    BY <1>3, <2>1, RunKnowsWhetherCompleted
  <2>3. row' = row
    BY <1>3, <2>2, RunAfterCompleted
  <2>4. progress' \in {progress, "done"}
    BY <1>3, <2>2, ProgressOfRun DEF PublishedPcs, TickPcs
  <2> QED
    BY <2>1, <2>3, <2>4
<1>4. ASSUME NEW w \in Workers, RunArchive(w)
      PROVE  UNCHANGED <<ingest, progress>> /\ row'.status = row.status
  BY <1>4, ArchiveHoldsJob
<1>5. ASSUME RunFail
      PROVE  /\ ingest' = ingest /\ row.status # "COMPLETED"
             /\ row'.status = row.status \/ (row'.status = "FAILED" /\ RowExists)
             /\ progress' \in {progress, "none"}
  <2>1. progress' \in {progress, "none"}
    BY <1>5 DEF RunFail, FailFind, FailSave, FailClear, EnqueueFailedHook, FailRmSource,
       FailRmHls, FailThrow
  <2> QED
    BY <1>5, <2>1, ListenerIsAlone DEF CompletedIsLast
<1>6. ASSUME NEW d \in Purges, StartDelete(d) \/ ServeDelete(d)
      PROVE  /\ ingest' = ingest /\ (row' = row \/ row' = NoRow)
             /\ progress' \in {progress, "none"}
  BY <1>6, DeletionIsAlone
<1>7. CASE ExpireProgress
  BY <1>7 DEF ExpireProgress
<1> QED
  BY <1>1, <1>2, <1>3, <1>4, <1>5, <1>6, <1>7, StepsWithoutDisturbance
     DEF Undisturbed, RowExists, NoRow

(* What a payload that was pushed still says of the row and the percentage. *)
Views == [status : Statuses, progress : Percents]
Told(view) ==
  /\ view.status # "none" => ingest = "accepted"
  /\ view.status = "PROCESSING" => row.status # "PENDING"
  /\ view.status = "COMPLETED" =>
       view.progress = "done" /\ EndStands("COMPLETED", {"none", "done"})
  /\ view.status = "FAILED" => view.progress = "none" /\ EndStands("FAILED", {"none"})

ReadTypeOK ==
  /\ pushed \in Views
  /\ poll \in [pc : {"idle", "find", "progress"}, since : Views, status : Statuses]

Heard ==
  /\ Told(pushed)
  /\ poll.pc # "idle" => Told(poll.since)
  /\ poll.pc = "progress" =>
       /\ poll.since.status \in Terminals => poll.status = poll.since.status
       /\ poll.since.status = "PROCESSING" => poll.status # "PENDING"

LEMMA ToldStands ==
  ASSUME "lockLoss" \notin Faults, "redis" \notin Faults, "lostReply" \notin Faults,
         MaxCrashes = 0, TypeOK, Undisturbed, CompletedIsLast, [Next]_vars
  PROVE  /\ pushed' = pushed /\ Told(pushed) => Told(pushed)'
         /\ poll'.since = poll.since /\ Told(poll.since) => Told(poll.since)'
<1>1. ingest = "accepted" =>
        ingest' = "accepted" /\ (row.status # "PENDING" => row'.status # "PENDING")
  BY NeverPendingAgain
<1>2. /\ EndStands("COMPLETED", {"none", "done"}) => EndStands("COMPLETED", {"none", "done"})'
      /\ EndStands("FAILED", {"none"}) => EndStands("FAILED", {"none"})'
  BY EndsStand
<1> QED
  BY <1>1, <1>2 DEF Told

(* Every push says what is so when it is made. *)
LEMMA PushesAreTold ==
  ASSUME "lockLoss" \notin Faults, "redis" \notin Faults, "lostReply" \notin Faults,
         MaxCrashes = 0, TypeOK, Undisturbed, CompletedIsLast, SeenIsPast, Outcome,
         ReadTypeOK, Told(pushed), PipelineStep
  PROVE  Told(pushed)' /\ pushed' \in Views
<1>1. Next /\ pushed' = Broadcast
  BY DEF PipelineStep
<1>2. CASE \E w \in Workers : StartProgress(w) \/ EncodeTick(w)
  <2>1. PICK w \in Workers : StartProgress(w) \/ EncodeTick(w)
    BY <1>2
  <2>2. ingest' = "accepted"
    BY <2>1, ProcessHoldsJob DEF RunTranscode
  <2>3. row'.status # "PENDING"
    BY <2>1 DEF SeenIsPast, TickPcs, EncodePcs, StartProgress, EncodeTick, At
  <2>4. pushed' = [status |-> "PROCESSING", progress |-> "live"]
    BY <1>1, <1>2 DEF Broadcast, PushedAt, View
  <2> QED
    BY <2>2, <2>3, <2>4 DEF Told, Views, Statuses, Percents
<1>3. CASE /\ ~\E w \in Workers : StartProgress(w) \/ EncodeTick(w)
           /\ \E w \in Workers : FinishProgress(w)
  <2>1. PICK w \in Workers : FinishProgress(w)
    BY <1>3
  <2>2. ingest' = "accepted"
    BY <2>1, ProcessHoldsJob DEF RunTranscode
  <2>3. row'.status \in {"COMPLETED", "none"} /\ progress' = "done"
    BY <2>1 DEF CompletedIsLast, PublishedPcs, FinishProgress, At
  <2>4. pushed' = [status |-> "COMPLETED", progress |-> "done"]
    BY <1>1, <1>3 DEF Broadcast, PushedAt, View
  <2> QED
    BY <2>2, <2>3, <2>4 DEF Told, EndStands, Views, Statuses, Percents
<1>4. CASE /\ ~\E w \in Workers : StartProgress(w) \/ EncodeTick(w)
           /\ ~\E w \in Workers : FinishProgress(w)
           /\ FailClear
  <2>1. ingest' = "accepted"
    BY <1>4, ListenerIsAlone DEF RunFail
  <2>2. row'.status \in {"FAILED", "none"} /\ progress' = "none"
    BY <1>4 DEF Outcome, FailedIsSaved, FailClear, FailAt
  <2>3. pushed' = [status |-> "FAILED", progress |-> "none"]
    BY <1>1, <1>4 DEF Broadcast, PushedAt, View, ProgressFromStatus
  <2> QED
    BY <2>1, <2>2, <2>3 DEF Told, EndStands, Views, Statuses, Percents
<1>5. CASE /\ ~\E w \in Workers : StartProgress(w) \/ EncodeTick(w)
           /\ ~\E w \in Workers : FinishProgress(w)
           /\ ~FailClear
  <2>1. pushed' = pushed
    BY <1>1, <1>5 DEF Broadcast, PushedAt
  <2> QED
    BY <1>1, <2>1, ToldStands DEF ReadTypeOK
<1> QED
  BY <1>2, <1>3, <1>4, <1>5

LEMMA ReadInit == StatusInit => ReadTypeOK /\ Heard
BY DEF StatusInit, ReadTypeOK, Heard, Told, NoView, IdlePoll, Views, Statuses, Percents

LEMMA HeardStep ==
  ASSUME "lockLoss" \notin Faults, "redis" \notin Faults, "lostReply" \notin Faults,
         MaxCrashes = 0, TypeOK, Undisturbed, CompletedIsLast, SeenIsPast, Outcome,
         ReadTypeOK, Heard, [StatusNext]_readVars
  PROVE  ReadTypeOK' /\ Heard'
<1>1. CASE UNCHANGED readVars
  BY <1>1 DEF readVars, vars, ReadTypeOK, Heard, Told, EndStands
<1>2. CASE PipelineStep
  <2>1. Told(pushed)' /\ pushed' \in Views /\ poll' = poll
    BY <1>2, PushesAreTold DEF Heard, PipelineStep
  <2>2. Told(poll.since) => Told(poll.since)'
    BY <1>2, <2>1, ToldStands DEF PipelineStep
  <2> QED
    BY <2>1, <2>2 DEF ReadTypeOK, Heard
<1>3. ASSUME UNCHANGED <<vars, pushed>> PROVE Told(pushed)'
  BY <1>3 DEF vars, Heard, Told, EndStands
<1>4. CASE StartPoll
  <2>1. poll' = [pc |-> "find", since |-> pushed, status |-> "none"] /\ pushed' = pushed
    BY <1>4 DEF StartPoll, IdlePoll
  <2>2. Told(pushed)'
    BY <1>3, <1>4 DEF StartPoll
  <2>3. Told(poll.since)'
    BY <2>1, <2>2 DEF Told
  <2> QED
    BY <2>1, <2>2, <2>3 DEF ReadTypeOK, Heard, Statuses
<1>5. CASE FindTranscode
  <2>1. pushed' = pushed /\ Told(pushed)' /\ UNCHANGED vars /\ Told(poll.since)
    BY <1>3, <1>5 DEF FindTranscode, Heard
  <2>2. CASE ~RowExists
    BY <1>5, <2>1, <2>2 DEF FindTranscode, IdlePoll, NoView, ReadTypeOK, Heard, Views,
       Statuses, Percents
  <2>3. CASE RowExists
    <3>1. poll' = [poll EXCEPT !.pc = "progress", !.status = row.status]
      BY <1>5, <2>3 DEF FindTranscode
    <3>2. /\ poll'.since = poll.since /\ poll'.status = row.status /\ poll'.pc = "progress"
          /\ poll' \in [pc : {"idle", "find", "progress"}, since : Views, status : Statuses]
      BY <3>1 DEF ReadTypeOK, TypeOK, Rows
    <3>3. Told(poll.since)'
      BY <2>1, <3>2 DEF Told, EndStands, vars
    <3>4. /\ poll.since.status \in Terminals => row.status = poll.since.status
          /\ poll.since.status = "PROCESSING" => row.status # "PENDING"
      BY <2>1, <2>3 DEF Told, EndStands, Terminals, RowExists
    <3> QED
      BY <2>1, <3>2, <3>3, <3>4 DEF ReadTypeOK, Heard
  <2> QED
    BY <2>2, <2>3
<1>6. CASE GetProgress
  <2>1. pushed' = pushed /\ Told(pushed)' /\ poll' = IdlePoll
    BY <1>3, <1>6 DEF GetProgress
  <2> QED
    BY <2>1 DEF IdlePoll, NoView, ReadTypeOK, Heard, Views, Statuses, Percents
<1> QED
  BY <1>1, <1>2, <1>4, <1>5, <1>6 DEF StatusNext

LEMMA HeardAnswers ==
  ASSUME TypeOK, Heard, ReadTypeOK
  PROVE  PollKeepsUp
<1> SUFFICES ASSUME poll.pc = "progress", poll.since.status \in Terminals
             PROVE  Answer = poll.since
  BY DEF Heard, PollKeepsUp
<1>1. Told(poll.since) /\ poll.status = poll.since.status
  BY DEF Heard
<1>2. poll.since = [status |-> poll.status, progress |-> poll.since.progress]
  BY <1>1 DEF ReadTypeOK, Views
<1>3. CASE poll.status = "COMPLETED"
  <2>1. poll.since.progress = "done" /\ progress \in {"none", "done"}
    BY <1>1, <1>3 DEF Told, EndStands
  <2> QED
    BY <1>2, <1>3, <2>1 DEF Answer, View, ProgressFromStatus
<1>4. CASE poll.status = "FAILED"
  <2>1. poll.since.progress = "none" /\ progress = "none"
    BY <1>1, <1>4 DEF Told, EndStands
  <2> QED
    BY <1>2, <1>4, <2>1 DEF Answer, View, ProgressFromStatus
<1> QED
  BY <1>1, <1>3, <1>4 DEF Terminals

(* Reading disturbs nothing: what holds of the pipeline holds beside it.    *)
LEMMA ReadingIsPassive == StatusSpec => Spec
<1>1. StatusInit => Init
  BY DEF StatusInit
<1>2. [StatusNext]_readVars => [Next]_vars
  BY DEF StatusNext, PipelineStep, StartPoll, FindTranscode, GetProgress, readVars
<1> QED
  BY <1>1, <1>2, PTL DEF StatusSpec, Spec

(* A poll begun after a payload was pushed is never behind it, although it  *)
(* reads the row and the percentage at two moments and the percentage may  *)
(* expire between them (get_transcode_status_by_id_controller.ts,            *)
(* transcode_publisher.ts).                                                  *)
THEOREM PollsAreNeverBehind ==
  ASSUME "lockLoss" \notin Faults, "redis" \notin Faults, "lostReply" \notin Faults,
         MaxCrashes = 0
  PROVE  StatusSpec => []PollKeepsUp
<1>1. TypeOK /\ Undisturbed /\ CompletedIsLast /\ SeenIsPast /\ Outcome
        /\ ReadTypeOK /\ Heard /\ [StatusNext]_readVars => ReadTypeOK' /\ Heard'
  BY HeardStep
<1>2. TypeOK /\ ReadTypeOK /\ Heard => PollKeepsUp
  BY HeardAnswers
<1>3. Spec => [](TypeOK /\ Undisturbed /\ CompletedIsLast /\ SeenIsPast /\ Outcome)
  BY TypeCorrect, EndInvariant, SeenIsPastInvariant, OutcomeInvariant, PTL
<1> QED
  BY <1>1, <1>2, <1>3, ReadInit, ReadingIsPassive, PTL DEF StatusSpec

-------------------------------------------------------------------------------
(* The caller is told once.  A run that has told it only has the archive    *)
(* job left to queue, and nobody takes the first job again; a failure is    *)
(* told by the listener of a job that ended without a word.                  *)

ToldIsEnded ==
  hooks # {} =>
    /\ tjob.state # "waiting"
    /\ \A w \in Workers : proc[w].pc \in {"idle", "archive", "return"}
    /\ fail.pc \in {"idle", "rmSource", "rmHls"}

LEMMA ToldIsEndedInit == Init => ToldIsEnded
BY DEF Init, ToldIsEnded

LEMMA RunAfterTelling ==
  ASSUME "redis" \notin Faults, "lostReply" \notin Faults, TypeOK,
         NEW w \in Workers, RunTranscode(w) \/ EncodeTick(w),
         proc[w].pc \in {"archive", "return"}
  PROVE  proc'[w].pc \in {"idle", "return"} /\ hooks' = hooks
<1>1. EnqueueArchive(w) \/ CompleteTranscode(w)
  BY DEF At, RunTranscode, EncodeTick, TakeTranscode, FindOrFail, Checkpoint,
     Probe, SaveProcessing, StartProgress, StartEncode, FinishEncode, FailEncode,
     MeasureDownloads, PushHls, PushHlsRest, PushHlsThen, PushDl, PushDlRest,
     SaveCompleted, FinishProgress, EnqueueCompletedHook, ProcThrow, ProcFaulty,
     RejectTranscode
<1>2. CASE EnqueueArchive(w)
  <2>1. proc' = [proc EXCEPT ![w].pc = "return"] /\ hooks' = hooks
    BY <1>2 DEF EnqueueArchive, Goes
  <2> QED
    BY <2>1 DEF TypeOK
<1>3. CASE CompleteTranscode(w)
  <2>1. proc'[w] = IdleProc /\ hooks' = hooks
    BY <1>3 DEF CompleteTranscode, Ends, TypeOK
  <2> QED
    BY <2>1 DEF IdleProc
<1> QED
  BY <1>1, <1>2, <1>3

LEMMA ProcessTellsOnce ==
  ASSUME "redis" \notin Faults, "lostReply" \notin Faults, TypeOK, Undisturbed,
         ToldIsEnded, NEW w \in Workers, RunTranscode(w) \/ EncodeTick(w)
  PROVE  ToldIsEnded'
<1>1. /\ \A v \in Workers \ {w} : At(v, "idle") /\ proc'[v] = proc[v]
      /\ fail.pc = "idle"
      /\ tjob.state = "waiting" \/ (HeldBy(tjob, w) /\ ~At(w, "idle"))
  BY ProcessHoldsJob
<1> SUFFICES ASSUME hooks' # {}
             PROVE  /\ tjob'.state # "waiting" /\ fail' = fail
                    /\ proc'[w].pc \in {"idle", "archive", "return"}
  BY <1>1 DEF ToldIsEnded, At
<1>2. CASE hooks # {}
  <2>1. HeldBy(tjob, w) /\ proc[w].pc \in {"archive", "return"}
    BY <1>1, <1>2 DEF ToldIsEnded, At
  <2> QED
    BY <2>1, RunAfterTelling, RunAfterCompleted DEF PublishedPcs
<1>3. CASE hooks = {}
  <2>1. At(w, "hook") /\ EnqueueCompletedHook(w)
    BY <1>3 DEF At, RunTranscode, EncodeTick, TakeTranscode, FindOrFail, Checkpoint,
       Probe, SaveProcessing, StartProgress, StartEncode, FinishEncode, FailEncode,
       MeasureDownloads, PushHls, PushHlsRest, PushHlsThen, PushDl, PushDlRest,
       SaveCompleted, FinishProgress, EnqueueCompletedHook, EnqueueArchive,
       ProcThrow, CompleteTranscode, RejectTranscode, OnlyProc
  <2>2. tjob' = tjob /\ fail' = fail /\ proc' = [proc EXCEPT ![w].pc = "archive"]
    BY <2>1 DEF EnqueueCompletedHook, Goes
  <2>3. HeldBy(tjob, w)
    BY <1>1, <2>1, ProcessHoldsJob DEF At
  <2> QED
    BY <2>2, <2>3 DEF HeldBy, TypeOK
<1> QED
  BY <1>2, <1>3

LEMMA ToldIsEndedStep ==
  ASSUME "lockLoss" \notin Faults, "redis" \notin Faults, "lostReply" \notin Faults,
         MaxCrashes = 0, TypeOK, Undisturbed, Outcome, ToldIsEnded, [Next]_vars
  PROVE  ToldIsEnded'
<1>1. CASE UNCHANGED vars
  BY <1>1 DEF vars, ToldIsEnded
<1>2. CASE Ingest
  BY <1>2, RequestIsAlone DEF Outcome, NothingIsEarly, ToldIsEnded
<1>3. ASSUME NEW w \in Workers, RunTranscode(w) \/ EncodeTick(w)
      PROVE  ToldIsEnded'
  BY <1>3, ProcessTellsOnce
<1>4. ASSUME NEW w \in Workers, RunArchive(w)
      PROVE  ToldIsEnded'
  BY <1>4, ArchiveHoldsJob DEF ToldIsEnded
<1>5. CASE RunFail
  <2>1. /\ tjob' = tjob /\ tjob.state # "waiting" /\ proc' = proc
        /\ \A w \in Workers : proc[w].pc = "idle"
    BY <1>5, ListenerIsAlone DEF At
  <2>2. hooks' # {} => fail'.pc \in {"idle", "rmSource", "rmHls"}
    BY <1>5 DEF RunFail, FailFind, FailSave, FailClear, EnqueueFailedHook, FailRmSource,
       FailRmHls, FailThrow, FailAt, FailGoes, NoFailure, ToldIsEnded, TypeOK
  <2> QED
    BY <2>1, <2>2 DEF ToldIsEnded
<1>6. ASSUME NEW d \in Purges, StartDelete(d) \/ ServeDelete(d)
      PROVE  ToldIsEnded'
  BY <1>6, DeletionIsAlone DEF ToldIsEnded, NoJob
<1>7. CASE ExpireProgress
  BY <1>7 DEF ExpireProgress, ToldIsEnded
<1> QED
  BY <1>1, <1>2, <1>3, <1>4, <1>5, <1>6, <1>7, StepsWithoutDisturbance DEF Undisturbed

LEMMA ToldIsEndedInvariant ==
  ASSUME "lockLoss" \notin Faults, "redis" \notin Faults, "lostReply" \notin Faults,
         MaxCrashes = 0
  PROVE  Spec => []ToldIsEnded
<1>1. TypeOK /\ Undisturbed /\ Outcome /\ ToldIsEnded /\ [Next]_vars => ToldIsEnded'
  BY ToldIsEndedStep
<1> QED
  BY <1>1, ToldIsEndedInit, UndisturbedInvariant, OutcomeInvariant, TypeCorrect, PTL DEF Spec

(* A caller is told of one end, once, whatever is repeated before it        *)
(* (process_transcode.ts:133-151, fail_transcode.ts:43-59): what it receives *)
(* twice is a delivery repeated.                                              *)
THEOREM CallerIsToldOnce ==
  ASSUME "lockLoss" \notin Faults, "redis" \notin Faults, "lostReply" \notin Faults,
         MaxCrashes = 0
  PROVE  Spec => OneWebhook
<1>1. ToldIsEnded /\ [Next]_vars => [TellsCaller => hooks = {}]_vars
  BY DEF ToldIsEnded, TellsCaller, EnqueueCompletedHook, EnqueueFailedHook, At, FailAt
<1> QED
  BY <1>1, ToldIsEndedInvariant, PTL DEF Spec, OneWebhook

-------------------------------------------------------------------------------
(* The whole life of a Transcode.  On top of what ends it: a run that skips *)
(* the encode, or is past it, has made the row leave PENDING; only a        *)
(* completed row is published; a DELETE begins to destroy when no job is     *)
(* left and none comes back, and what it has purged can no longer be played. *)

StartedPcs == PushPcs \union UpPcs
StartedFirst ==
  /\ MasterStaged => row.status # "PENDING"
  /\ \A w \in Workers : proc[w].pc \in StartedPcs => row.status # "PENDING"

PublishedIsCompleted ==
  (row.published => row.status = "COMPLETED") /\ ~fail.published

ReclaimEndsJobs ==
  reclaim => ingest = "accepted" /\ tjob.state = "none" /\ ajob.state = "none"

PurgedIsNotPlayable ==
  \A d \in Purges : del[d] \in AfterPurgeHls => bucket.hls # "whole"

Life == StartedFirst /\ PublishedIsCompleted /\ ReclaimEndsJobs /\ PurgedIsNotPlayable

Ended == /\ Undisturbed /\ CompletedIsLast /\ SeenIsPast /\ Outcome /\ Publication
         /\ ToldIsEnded

LEMMA LifeInit == Init => Life
<1> SUFFICES ASSUME Init PROVE Life
  OBVIOUS
<1>1. PublishedIsCompleted /\ ReclaimEndsJobs /\ PurgedIsNotPlayable
  BY DEF Init, PublishedIsCompleted, ReclaimEndsJobs, PurgedIsNotPlayable, NoRow, NoFailure,
     NoObjects
<1>2. StartedFirst
  BY DEF Init, StartedFirst, NoRow
<1> QED
  BY <1>1, <1>2 DEF Life

(* What a step of a run does to the row, and to what can be played.         *)
LEMMA RunAdvancesRow ==
  ASSUME TypeOK, Undisturbed, CompletedIsLast, PublishedIsCompleted,
         NEW w \in Workers, RunTranscode(w) \/ EncodeTick(w)
  PROVE  /\ \/ row'.status = row.status
            \/ row.status = "PENDING" /\ row'.status = "PROCESSING"
            \/ SaveCompleted(w) /\ row'.status = "COMPLETED"
         /\ row'.published => row'.status = "COMPLETED"
         /\ ~fail'.published
<1> USE DEF TypeOK, Rows
<1>1. /\ RowExists /\ row.status # "FAILED"
      /\ row.status = "COMPLETED" => proc[w].pc \in PublishedPcs
      /\ row.status # "COMPLETED" => proc[w].seen # "COMPLETED"
  BY ProcessHoldsJob, RunKnowsWhetherCompleted
<1>2. CASE SaveProcessing(w)
  <2>1. row.status \in {"PENDING", "PROCESSING"}
    BY <1>1, <1>2 DEF SaveProcessing, At, PublishedPcs, RowExists, Statuses
  <2>2. /\ row'.status = row.status \/ row'.status = "PROCESSING"
        /\ row'.published = row.published /\ fail' = fail
    BY <1>2 DEF SaveProcessing, SaveStatus, Updated
  <2> QED
    BY <2>1, <2>2 DEF PublishedIsCompleted
<1>3. CASE SaveCompleted(w)
  <2>1. proc[w].seen # "COMPLETED"
    BY <1>1, <1>3 DEF SaveCompleted, At, PublishedPcs
  <2>2. row'.status = "COMPLETED" /\ fail' = fail
    BY <1>1, <1>3, <2>1, SaveOfCompleted
  <2> QED
    BY <1>3, <2>2 DEF PublishedIsCompleted
<1>4. CASE ~SaveProcessing(w) /\ ~SaveCompleted(w)
  <2>1. row' = row
    BY <1>4 DEF RunTranscode, EncodeTick, TakeTranscode, FindOrFail, Checkpoint,
       Probe, StartProgress, StartEncode, FinishEncode, FailEncode,
       MeasureDownloads, PushHls, PushHlsRest, PushHlsThen, PushDl, PushDlRest,
       FinishProgress, EnqueueCompletedHook, EnqueueArchive, ProcThrow,
       CompleteTranscode, RejectTranscode, OnlyProc
  <2>2. ~fail'.published
    BY ProcessEffects DEF PublishedIsCompleted
  <2> QED
    BY <2>1, <2>2 DEF PublishedIsCompleted
<1> QED
  BY <1>2, <1>3, <1>4

LEMMA RunKeepsPlayable ==
  ASSUME TypeOK, Publication, NEW w \in Workers, RunTranscode(w) \/ EncodeTick(w)
  PROVE  /\ UNCHANGED <<input, reclaim>>
         /\ Servable => Servable'
         /\ Servable' => Servable \/ proc[w].pc \in PushPcs
<1>1. CASE PushHls(w) \/ PushHlsRest(w) \/ PushDl(w) \/ PushDlRest(w)
  <2>1. UNCHANGED <<input, reclaim>> /\ proc[w].pc \in PushPcs
    BY <1>1 DEF PushHls, PushHlsRest, PushHlsThen, PushDl, PushDlRest, At, PushPcs, ProcFrame
  <2>2. /\ bucket.hls = "whole" => bucket'.hls = "whole"
        /\ bucket.dl = "whole" => bucket'.dl = "whole"
    BY <1>1, <2>1 DEF PushHls, PushHlsRest, PushHlsThen, PushDl, PushDlRest, SomePut, AllPut,
       Publication, StagedFor, TypeOK, Buckets
  <2> QED
    BY <2>1, <2>2 DEF Servable
<1>2. CASE ~PushHls(w) /\ ~PushHlsRest(w) /\ ~PushDl(w) /\ ~PushDlRest(w)
  BY <1>2 DEF RunTranscode, EncodeTick, TakeTranscode, FindOrFail, Checkpoint,
     Probe, SaveProcessing, StartProgress, StartEncode, FinishEncode, FailEncode,
     MeasureDownloads, SaveCompleted, FinishProgress, EnqueueCompletedHook,
     EnqueueArchive, ProcThrow, CompleteTranscode, RejectTranscode, OnlyProc, ProcFrame,
     Servable
<1> QED
  BY <1>1, <1>2

LEMMA RunStartsFirst ==
  ASSUME TypeOK, SeenIsPast, StartedFirst, NEW w \in Workers,
         RunTranscode(w) \/ EncodeTick(w), row.status # "PENDING" => row'.status # "PENDING"
  PROVE  /\ MasterStaged' => row'.status # "PENDING"
         /\ proc'[w].pc \in StartedPcs => row'.status # "PENDING"
<1> USE DEF TypeOK, At, Goes, StartedPcs, PushPcs, UpPcs, PublishedPcs
<1>1. CASE proc[w].pc \in StartedPcs \union TickPcs
  BY <1>1 DEF SeenIsPast, StartedFirst, TickPcs, EncodePcs
<1>2. CASE proc[w].pc \notin StartedPcs \union TickPcs
  <2>1. MasterStaged' = MasterStaged
    BY <1>2 DEF RunTranscode, EncodeTick, TakeTranscode, FindOrFail, Checkpoint,
       Probe, SaveProcessing, StartProgress, StartEncode, FinishEncode, FailEncode,
       MeasureDownloads, PushHls, PushHlsRest, PushHlsThen, PushDl, PushDlRest,
       SaveCompleted, FinishProgress, EnqueueCompletedHook, EnqueueArchive,
       ProcThrow, CompleteTranscode, RejectTranscode, OnlyProc, MasterStaged, TickPcs
  <2>2. proc'[w].pc \in StartedPcs => MasterStaged
    <3>1. CASE Checkpoint(w)
      BY <3>1 DEF Checkpoint
    <3>2. CASE CompleteTranscode(w) \/ RejectTranscode(w)
      <4>1. proc'[w] = IdleProc
        BY <3>2 DEF CompleteTranscode, RejectTranscode, Ends
      <4> QED
        BY <4>1 DEF IdleProc
    <3>3. CASE TakeTranscode(w) \/ FindOrFail(w) \/ Probe(w) \/ ProcThrow(w)
      BY <3>3 DEF TakeTranscode, FindOrFail, Probe, AfterProbe, ProcThrow
    <3>4. CASE SaveProcessing(w)
      BY <3>4 DEF SaveProcessing
    <3> QED
      BY <1>2, <3>1, <3>2, <3>3, <3>4 DEF RunTranscode, EncodeTick, StartProgress, StartEncode,
         FinishEncode, FailEncode, MeasureDownloads, PushHls, PushHlsRest, PushHlsThen,
         PushDl, PushDlRest, SaveCompleted, FinishProgress, EnqueueCompletedHook,
         EnqueueArchive, TickPcs
  <2> QED
    BY <2>1, <2>2 DEF StartedFirst
<1> QED
  BY <1>1, <1>2

(* What a step of a DELETE takes away, and that it has then begun to destroy. *)
LEMMA DeletionTakes ==
  ASSUME TypeOK, NEW d \in Purges, StartDelete(d) \/ ServeDelete(d)
  PROVE  /\ bucket'.hls = bucket.hls \/ bucket'.hls # "whole"
         /\ bucket'.dl = bucket.dl \/ bucket'.dl # "whole"
         /\ del'[d] \in AfterPurgeHls => del[d] \in AfterPurgeHls \/ bucket'.hls # "whole"
         /\ reclaim' => reclaim \/ del[d] \in DestroyPcs
         /\ \/ UNCHANGED <<bucket, reclaim>>
            \/ del[d] \in AfterPurgeHls \/ reclaim'
         /\ disk'.hls = disk.hls \/ disk'.hls = "none"
         /\ row' = row \/ DelAt(d, "row")
<1> USE DEF TypeOK, Buckets, Disks, AfterPurgeHls, DestroyPcs, DelAt
<1>1. CASE PurgeHls(d)
  BY <1>1 DEF PurgeHls, LeftBy, Some, DelGoes
<1>2. CASE PurgeDl(d)
  <2>1. bucket'.hls = bucket.hls /\ (bucket'.dl = bucket.dl \/ bucket'.dl # "whole")
    BY <1>2 DEF PurgeDl, LeftBy, Some
  <2> QED
    BY <1>2, <2>1 DEF PurgeDl
<1>3. CASE ~PurgeHls(d) /\ ~PurgeDl(d)
  <2>1. /\ UNCHANGED <<reclaim>> /\ bucket'.hls = bucket.hls /\ bucket'.dl = bucket.dl
        /\ bucket' = bucket \/ del[d] \in AfterPurgeHls
        /\ disk'.hls = disk.hls \/ disk'.hls = "none"
        /\ row' = row \/ DelAt(d, "row")
    BY <1>3 DEF StartDelete, ServeDelete, DelFind, GetTranscodeJob, CheckTranscodeJob,
       RemoveTranscodeJob, GetArchiveJob, CheckArchiveJob, RemoveArchiveJob,
       PurgeArchive, DelRmHls, DelRmDl, DelRmFlac, DelRmSource, DelRemove, DelClear,
       DelRow, DelThrow, OnlyDel
  <2>2. del'[d] \in AfterPurgeHls => del[d] \in AfterPurgeHls
    BY <1>3 DEF StartDelete, ServeDelete, DelFind, GetTranscodeJob, CheckTranscodeJob,
       RemoveTranscodeJob, GetArchiveJob, CheckArchiveJob, RemoveArchiveJob,
       PurgeArchive, DelRmHls, DelRmDl, DelRmFlac, DelRmSource, DelRemove, DelClear,
       DelRow, DelThrow, OnlyDel, DelGoes, AfterGetJob, AfterIsActive
  <2> QED
    BY <2>1, <2>2
<1> QED
  BY <1>1, <1>2, <1>3

LEMMA StartedFrame ==
  ASSUME StartedFirst, proc' = proc, MasterStaged' => MasterStaged,
         row.status # "PENDING" => row'.status # "PENDING"
  PROVE  StartedFirst'
BY DEF StartedFirst

LEMMA ArchiveKeepsLife ==
  ASSUME TypeOK, NEW w \in Workers, RunArchive(w)
  PROVE  /\ bucket'.hls = bucket.hls /\ bucket'.dl = bucket.dl
         /\ MasterStaged' => MasterStaged
<1> USE DEF RunArchive, TakeArchive, ArchFind, PushArchive, RecordArchive, ArchRmHls,
            ArchRmDl, ArchRmFlac, ArchRmSource, ArchRemove, ArchThrow,
            CompleteArchive, RejectArchive
<1>1. bucket'.hls = bucket.hls /\ bucket'.dl = bucket.dl
  BY DEF TypeOK, Buckets
<1>2. disk'.hls = disk.hls \/ disk'.hls = "none"
  BY DEF TypeOK, Disks
<1> QED
  BY <1>1, <1>2 DEF MasterStaged

LEMMA StartedFirstStep ==
  ASSUME "lockLoss" \notin Faults, MaxCrashes = 0, TypeOK, Undisturbed, SeenIsPast,
         StartedFirst, [Next]_vars
  PROVE  StartedFirst'
<1>1. CASE UNCHANGED vars \/ ExpireProgress
  BY <1>1, StartedFrame DEF vars, ExpireProgress, MasterStaged
<1>2. CASE Ingest
  <2>1. /\ ~MasterStaged /\ disk'.hls = disk.hls
        /\ \A w \in Workers : proc'[w].pc = "idle"
    BY <1>2, RequestIsAlone DEF Undisturbed, NothingIsMade, At
  <2> QED
    BY <2>1 DEF StartedFirst, MasterStaged, StartedPcs, PushPcs, UpPcs, PublishedPcs
<1>3. ASSUME NEW w \in Workers, RunTranscode(w) \/ EncodeTick(w)
      PROVE  StartedFirst'
  <2>1. row.status # "PENDING" => row'.status # "PENDING"
    BY <1>3, ProcessHoldsJob, NeverPendingAgain
  <2> QED
    BY <1>3, <2>1, RunStartsFirst, ProcessHoldsJob DEF StartedFirst, At, StartedPcs, PushPcs,
       UpPcs, PublishedPcs
<1>4. ASSUME NEW w \in Workers, RunArchive(w)
      PROVE  StartedFirst'
  BY <1>4, ArchiveHoldsJob, ArchiveKeepsLife, StartedFrame
<1>5. CASE RunFail
  BY <1>5, ListenerIsAlone, StartedFrame DEF MasterStaged
<1>6. ASSUME NEW d \in Purges, StartDelete(d) \/ ServeDelete(d)
      PROVE  StartedFirst'
  <2>1. proc' = proc /\ (MasterStaged' => MasterStaged)
    BY <1>6, DeletionIsAlone, DeletionTakes DEF MasterStaged
  <2>2. row.status # "PENDING" => row'.status # "PENDING"
    BY <1>6, DeletionIsAlone DEF NoRow
  <2> QED
    BY <2>1, <2>2, StartedFrame
<1> QED
  BY <1>1, <1>2, <1>3, <1>4, <1>5, <1>6, StepsWithoutDisturbance DEF Undisturbed

LEMMA PublishedIsCompletedStep ==
  ASSUME "lockLoss" \notin Faults, MaxCrashes = 0, TypeOK, Undisturbed, CompletedIsLast,
         PublishedIsCompleted, [Next]_vars
  PROVE  PublishedIsCompleted'
<1>1. CASE UNCHANGED vars \/ ExpireProgress
  BY <1>1 DEF vars, ExpireProgress, PublishedIsCompleted
<1>2. CASE Ingest
  BY <1>2, RequestIsAlone DEF PublishedIsCompleted, NoRow
<1>3. ASSUME NEW w \in Workers, RunTranscode(w) \/ EncodeTick(w)
      PROVE  PublishedIsCompleted'
  BY <1>3, RunAdvancesRow DEF PublishedIsCompleted
<1>4. ASSUME NEW w \in Workers, RunArchive(w)
      PROVE  PublishedIsCompleted'
  BY <1>4, ArchiveHoldsJob DEF PublishedIsCompleted
<1>5. CASE RunFail
  <2>1. ~row.published /\ row'.published = row.published
    BY <1>5, ListenerIsAlone DEF CompletedIsLast, PublishedIsCompleted
  <2>2. ~fail'.published
    <3>1. CASE FailFind
      BY <2>1, <3>1 DEF FailFind, NoFailure, TypeOK
    <3>2. CASE ~FailFind
      <4>1. fail' = NoFailure \/ \E pc \in FailPcs : fail' = [fail EXCEPT !.pc = pc]
        BY <1>5, <3>2 DEF RunFail, FailSave, FailClear, EnqueueFailedHook, FailRmSource,
           FailRmHls, FailThrow, FailGoes, FailPcs
      <4> QED
        BY <4>1 DEF PublishedIsCompleted, NoFailure, TypeOK
    <3> QED
      BY <3>1, <3>2
  <2> QED
    BY <2>1, <2>2 DEF PublishedIsCompleted
<1>6. ASSUME NEW d \in Purges, StartDelete(d) \/ ServeDelete(d)
      PROVE  PublishedIsCompleted'
  BY <1>6, DeletionIsAlone DEF PublishedIsCompleted, NoRow
<1> QED
  BY <1>1, <1>2, <1>3, <1>4, <1>5, <1>6, StepsWithoutDisturbance DEF Undisturbed

LEMMA ReclaimStep ==
  ASSUME "lockLoss" \notin Faults, MaxCrashes = 0, TypeOK, Undisturbed, Publication,
         ReclaimEndsJobs, PurgedIsNotPlayable, [Next]_vars
  PROVE  ReclaimEndsJobs' /\ PurgedIsNotPlayable'
<1>1. CASE UNCHANGED vars \/ ExpireProgress
  BY <1>1 DEF vars, ExpireProgress, ReclaimEndsJobs, PurgedIsNotPlayable
<1>2. CASE Ingest
  BY <1>2, RequestIsAlone DEF ReclaimEndsJobs, PurgedIsNotPlayable
<1>3. ASSUME NEW w \in Workers, RunTranscode(w) \/ EncodeTick(w)
      PROVE  ReclaimEndsJobs' /\ PurgedIsNotPlayable'
  <2>1. ~reclaim /\ UNCHANGED <<reclaim, del>>
    BY <1>3, ProcessHoldsJob, RunKeepsPlayable DEF ReclaimEndsJobs
  <2>2. \A d \in Purges : del[d] \notin AfterPurgeHls
    BY <2>1 DEF Publication
  <2> QED
    BY <2>1, <2>2 DEF ReclaimEndsJobs, PurgedIsNotPlayable
<1>4. ASSUME NEW w \in Workers, RunArchive(w)
      PROVE  ReclaimEndsJobs' /\ PurgedIsNotPlayable'
  BY <1>4, ArchiveHoldsJob, ArchiveKeepsLife DEF ReclaimEndsJobs, PurgedIsNotPlayable
<1>5. CASE RunFail
  BY <1>5, ListenerIsAlone DEF ReclaimEndsJobs, PurgedIsNotPlayable
<1>6. ASSUME NEW d \in Purges, StartDelete(d) \/ ServeDelete(d)
      PROVE  ReclaimEndsJobs' /\ PurgedIsNotPlayable'
  <2>1. ReclaimEndsJobs'
    <3>1. ingest = "accepted" /\ ingest' = ingest
          /\ (tjob.state = "none" => tjob'.state = "none")
          /\ (ajob.state = "none" => ajob'.state = "none")
      BY <1>6, DeletionIsAlone DEF NoJob
    <3>2. reclaim' => tjob.state = "none" /\ ajob.state = "none"
      <4>1. del[d] \in DestroyPcs => tjob.state = "none" /\ ajob.state = "none"
        BY <1>6, DeletionIsAlone
      <4>2. reclaim' => reclaim \/ del[d] \in DestroyPcs
        BY <1>6, DeletionTakes
      <4> QED
        BY <4>1, <4>2 DEF ReclaimEndsJobs
    <3> QED
      BY <3>1, <3>2 DEF ReclaimEndsJobs
  <2>2. PurgedIsNotPlayable'
    BY <1>6, DeletionTakes, DeleteShape DEF PurgedIsNotPlayable
  <2> QED
    BY <2>1, <2>2
<1> QED
  BY <1>1, <1>2, <1>3, <1>4, <1>5, <1>6, StepsWithoutDisturbance DEF Undisturbed

(* The refinement, actor by actor. *)

LEMMA StageOfAccepted ==
  ASSUME ingest = "accepted", ingest' = "accepted", row'.status = row.status
  PROVE  Stage' = Stage
BY DEF Stage, RowExists

LEMMA IngestLives ==
  ASSUME TypeOK, Undisturbed, Life, Ingest
  PROVE  [Lifecycle!LifecycleNext]_(Lifecycle!lvars)
<1>1. UNCHANGED <<hooks, reclaim>> /\ Servable' = Servable
  BY RequestIsAlone DEF Servable
<1>2. CASE CreateTranscode
  <2>1. Stage = "new" /\ Stage' = "PENDING"
    BY <1>2 DEF CreateTranscode, Undisturbed, RequestComesFirst, Stage, RowExists, NoRow
  <2> QED
    BY <1>1, <2>1 DEF Lifecycle!LifecycleNext, Lifecycle!Deposit, Lifecycle!Advance
<1>3. CASE ~CreateTranscode
  <2>1. Stage' = Stage
    BY <1>3 DEF Ingest, SaveSource, EnqueueTranscode, RefuseIngest, Stage, RowExists,
       Undisturbed, Withdrawal, OnlyKnownIsDeleted
  <2> QED
    BY <1>1, <2>1 DEF Lifecycle!lvars
<1> QED
  BY <1>2, <1>3

(* Whoever pushes or saves COMPLETED finds the row PROCESSING. *)
LEMMA PusherFindsProcessing ==
  ASSUME TypeOK, Undisturbed, CompletedIsLast, StartedFirst, NEW w \in Workers,
         RunTranscode(w) \/ EncodeTick(w), proc[w].pc \in PushPcs \union {"saveCompleted"}
  PROVE  row.status = "PROCESSING"
<1>1. row.status \notin {"none", "FAILED"}
  BY ProcessHoldsJob DEF RowExists
<1>2. row.status # "PENDING"
  BY DEF StartedFirst, StartedPcs, UpPcs
<1>3. row.status # "COMPLETED"
  BY RunKnowsWhetherCompleted DEF PushPcs, PublishedPcs
<1> QED
  BY <1>1, <1>2, <1>3 DEF TypeOK, Rows, Statuses

LEMMA RunLives ==
  ASSUME TypeOK, Ended, Life, NEW w \in Workers, RunTranscode(w) \/ EncodeTick(w)
  PROVE  [Lifecycle!LifecycleNext]_(Lifecycle!lvars)
<1> USE DEF Ended, Life
<1>1. /\ ingest = "accepted" /\ ingest' = "accepted" /\ RowExists /\ RowExists'
      /\ Stage = row.status /\ Stage' = row'.status
      /\ ~reclaim /\ reclaim' = reclaim
  BY ProcessHoldsJob, RunKeepsPlayable DEF Stage, ReclaimEndsJobs
<1>2. CASE EnqueueCompletedHook(w)
  <2>1. hooks = {} /\ hooks' = {[status |-> "COMPLETED", downloads |-> TRUE]}
    BY <1>2 DEF EnqueueCompletedHook, ToldIsEnded, At
  <2>2. row' = row /\ Servable' = Servable /\ row.status = "COMPLETED"
    BY <1>1, <1>2 DEF EnqueueCompletedHook, Servable, At, CompletedIsLast, PublishedPcs, RowExists
  <2> QED
    BY <1>1, <2>1, <2>2 DEF Lifecycle!LifecycleNext, Lifecycle!Tell
<1>3. CASE ~EnqueueCompletedHook(w)
  <2>1. hooks' = hooks
    BY <1>3 DEF RunTranscode, EncodeTick, TakeTranscode, FindOrFail, Checkpoint,
       Probe, SaveProcessing, StartProgress, StartEncode, FinishEncode, FailEncode,
       MeasureDownloads, PushHls, PushHlsRest, PushHlsThen, PushDl, PushDlRest,
       SaveCompleted, FinishProgress, EnqueueArchive, ProcThrow, CompleteTranscode,
       RejectTranscode, OnlyProc
  <2>2. CASE Servable' # Servable
    <3>1. ~Servable /\ Servable' /\ proc[w].pc \in PushPcs
      BY <2>2, RunKeepsPlayable DEF Servable
    <3>2. row.status = "PROCESSING"
      BY <3>1, PusherFindsProcessing
    <3>3. row'.status = row.status
      BY <3>1, <3>2, RunAdvancesRow DEF SaveCompleted, At, PushPcs
    <3>4. Servable' = TRUE
      BY <3>1 DEF Servable
    <3> QED
      BY <1>1, <2>1, <3>2, <3>3, <3>4 DEF Lifecycle!LifecycleNext, Lifecycle!Publish
  <2>3. CASE Servable' = Servable
    <3>1. CASE row'.status = row.status
      BY <1>1, <2>1, <2>3, <3>1 DEF Lifecycle!lvars
    <3>2. CASE row.status = "PENDING" /\ row'.status = "PROCESSING"
      BY <1>1, <2>1, <2>3, <3>2 DEF Lifecycle!LifecycleNext, Lifecycle!Begin, Lifecycle!Advance
    <3>3. CASE SaveCompleted(w) /\ row'.status = "COMPLETED"
      <4>1. row.status = "PROCESSING"
        BY <3>3, PusherFindsProcessing DEF SaveCompleted, At
      <4>2. Servable
        BY <1>1, <3>3 DEF SaveCompleted, At, Publication, UpFor, HlsUpPcs, UpPcs, Servable
      <4> QED
        BY <1>1, <2>1, <2>3, <3>3, <4>1, <4>2
           DEF Lifecycle!LifecycleNext, Lifecycle!Complete, Lifecycle!Advance
    <3> QED
      BY <3>1, <3>2, <3>3, RunAdvancesRow
  <2> QED
    BY <2>2, <2>3
<1> QED
  BY <1>2, <1>3

LEMMA ArchiveLives ==
  ASSUME TypeOK, Undisturbed, NEW w \in Workers, RunArchive(w)
  PROVE  UNCHANGED Lifecycle!lvars
<1>1. Stage' = Stage
  BY ArchiveHoldsJob, StageOfAccepted
<1> QED
  BY <1>1, ArchiveHoldsJob, ArchiveKeepsLife DEF Lifecycle!lvars, Servable

LEMMA ListenerLives ==
  ASSUME TypeOK, Ended, Life, RunFail
  PROVE  [Lifecycle!LifecycleNext]_(Lifecycle!lvars)
<1> USE DEF Ended, Life
<1>1. /\ ingest = "accepted" /\ ingest' = "accepted" /\ fail.pc # "idle"
      /\ UNCHANGED <<reclaim, bucket>> /\ Servable' = Servable
      /\ row.status # "COMPLETED"
  BY ListenerIsAlone DEF Servable, CompletedIsLast
<1>2. CASE EnqueueFailedHook
  <2>1. /\ hooks = {} /\ hooks' = {[status |-> "FAILED", downloads |-> FALSE]}
    BY <1>2 DEF EnqueueFailedHook, FailAt, ToldIsEnded, PublishedIsCompleted, TypeOK
  <2>2. row.status \in {"FAILED", "none"} /\ row' = row
    BY <1>2 DEF EnqueueFailedHook, FailAt, Outcome, FailedIsSaved
  <2>3. Stage \in {"FAILED", "deleted"} /\ Stage' = Stage
    BY <1>1, <2>2 DEF Stage, RowExists
  <2> QED
    BY <1>1, <2>1, <2>3 DEF Lifecycle!LifecycleNext, Lifecycle!Tell
<1>3. CASE ~EnqueueFailedHook
  <2>1. hooks' = hooks
    BY <1>3 DEF RunFail, FailFind, FailSave, FailClear, FailRmSource, FailRmHls, FailThrow
  <2>2. CASE row'.status = row.status
    BY <1>1, <2>1, <2>2, StageOfAccepted DEF Lifecycle!lvars
  <2>3. CASE row'.status # row.status
    <3>1. row'.status = "FAILED" /\ row.status \in {"PENDING", "PROCESSING"}
      BY <1>1, <2>3, ListenerIsAlone DEF RowExists, TypeOK, Rows, Statuses
    <3>2. Stage \in {"PENDING", "PROCESSING"} /\ Stage' = "FAILED"
      BY <3>1 DEF Stage, RowExists
    <3> QED
      BY <1>1, <2>1, <3>2 DEF Lifecycle!LifecycleNext, Lifecycle!Fail, Lifecycle!Advance
  <2> QED
    BY <2>2, <2>3
<1> QED
  BY <1>2, <1>3

LEMMA DeletionLives ==
  ASSUME TypeOK, Ended, Life, NEW d \in Purges, StartDelete(d) \/ ServeDelete(d)
  PROVE  [Lifecycle!LifecycleNext]_(Lifecycle!lvars)
<1> USE DEF Ended, Life
<1>1. /\ ingest = "accepted" /\ ingest' = "accepted" /\ hooks' = hooks
      /\ row' = row \/ row' = NoRow
      /\ Servable' => Servable
  BY DeletionIsAlone, DeletionTakes DEF Servable
<1>2. Stage # "new"
  BY <1>1 DEF Stage, RowExists, TypeOK, Rows, Statuses
<1>3. CASE row' = row
  <2>1. Stage' = Stage
    BY <1>1, <1>3, StageOfAccepted
  <2>2. CASE UNCHANGED <<bucket, reclaim>>
    BY <1>1, <2>1, <2>2 DEF Lifecycle!lvars, Servable
  <2>3. CASE reclaim'
    <3>1. Servable' \in {Servable, FALSE} /\ reclaim' = TRUE
      BY <1>1, <2>3 DEF Servable
    <3> QED
      BY <1>1, <1>2, <2>1, <3>1 DEF Lifecycle!LifecycleNext, Lifecycle!Withdraw
  <2>4. reclaim => reclaim'
    BY DeletionIsAlone
  <2>5. del[d] \in AfterPurgeHls => reclaim
    BY DEF Publication
  <2> QED
    BY <2>2, <2>3, <2>4, <2>5, DeletionTakes
<1>4. CASE row' # row
  <2>1. DelRow(d) /\ row' = NoRow
    BY <1>1, <1>4, DeletionTakes DEF DelAt, StartDelete, ServeDelete, DelFind, GetTranscodeJob,
       CheckTranscodeJob, RemoveTranscodeJob, GetArchiveJob, CheckArchiveJob,
       RemoveArchiveJob, PurgeHls, PurgeDl, PurgeArchive, DelRmHls, DelRmDl, DelRmFlac,
       DelRmSource, DelRemove, DelClear, DelThrow, OnlyDel
  <2>2. reclaim /\ reclaim' = reclaim /\ Servable' = Servable /\ ~Servable
    <3>1. del[d] \in AfterPurgeHls /\ UNCHANGED <<reclaim, bucket>>
      BY <2>1 DEF DelRow, DelAt, AfterPurgeHls, DestroyPcs
    <3> QED
      BY <3>1 DEF Publication, PurgedIsNotPlayable, Servable
  <2>3. Stage' = "deleted"
    BY <1>1, <2>1 DEF Stage, RowExists, NoRow
  <2> QED
    BY <1>1, <2>2, <2>3 DEF Lifecycle!LifecycleNext, Lifecycle!Delete
<1> QED
  BY <1>3, <1>4

LEMMA StepLives ==
  ASSUME "lockLoss" \notin Faults, MaxCrashes = 0, TypeOK, Ended, Life, [Next]_vars
  PROVE  [Lifecycle!LifecycleNext]_(Lifecycle!lvars)
<1>1. CASE UNCHANGED vars \/ ExpireProgress
  BY <1>1 DEF vars, ExpireProgress, Lifecycle!lvars, Stage, RowExists, Servable
<1>2. CASE Next
  BY <1>1, <1>2, IngestLives, RunLives, ArchiveLives, ListenerLives, DeletionLives,
     StepsWithoutDisturbance DEF Ended, Undisturbed
<1> QED
  BY <1>1, <1>2

LEMMA InitLives == Init => Lifecycle!LifecycleInit
BY DEF Init, InitIngest, Lifecycle!LifecycleInit, Stage, RowExists, NoRow, Servable, NoObjects

(* The pipeline keeps what its owner was promised: a Transcode goes forward *)
(* to one end, completes only once it can be played, is told of that end    *)
(* alone, and is deleted from wherever it stands (CONTEXT.md:34-43).        *)
THEOREM LifeIsAsPromised ==
  ASSUME "lockLoss" \notin Faults, "redis" \notin Faults, "lostReply" \notin Faults,
         "cutMaster" \notin Faults, MaxCrashes = 0
  PROVE  Spec => LivesAsPromised
<1>1. Spec => [](TypeOK /\ Ended)
  BY TypeCorrect, EndInvariant, SeenIsPastInvariant, OutcomeInvariant, PublicationInvariant,
     ToldIsEndedInvariant, PTL DEF Ended
<1>2. TypeOK /\ Ended /\ Life /\ [Next]_vars => Life'
  BY StartedFirstStep, PublishedIsCompletedStep, ReclaimStep DEF Life, Ended
<1>3. TypeOK /\ Ended /\ Life /\ [Next]_vars => [Lifecycle!LifecycleNext]_(Lifecycle!lvars)
  BY StepLives
<1> QED
  BY <1>1, <1>2, <1>3, LifeInit, InitLives, PTL
     DEF Spec, LivesAsPromised, Lifecycle!LifecycleSpec
===============================================================================
