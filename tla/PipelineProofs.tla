----------------------------- MODULE PipelineProofs -----------------------------
(***************************************************************************)
(* The pipeline with every fault there is, worker deaths included, for     *)
(* every number of workers, of concurrent deletions, of attempts and of    *)
(* crashes.  First the deletion: a DELETE destroys a Transcode only while   *)
(* nobody works on it, and leaves nothing behind.  Then how a Transcode     *)
(* ends: one that failed for good stays FAILED, because the job it failed   *)
(* with is never taken again; what announces success can be played, what a  *)
(* caller is told is how it ended, and the Source is there for as long as a *)
(* run may read it, because one run at a time goes through its steps in     *)
(* order.  And a shutdown costs no job anything.  Most of it as long as no  *)
(* worker loses a lock it still relies on; each theorem says.               *)
(***************************************************************************)
EXTENDS TranscodeProperties, WorkerDrain, BullMQProofs

-------------------------------------------------------------------------------
(* Type correctness, one lemma per component: its steps keep every variable *)
(* in its type.                                                             *)

LEMMA InitType == Init => TypeOK
<1> SUFFICES ASSUME Init PROVE TypeOK
  OBVIOUS
<1>1. tjob \in Jobs(TranscodeAttempts) /\ ajob \in Jobs(ArchiveAttempts)
  BY NoJobType, AttemptsArePositive DEF Init
<1>2. input \in Inputs /\ ingest \in IngestPcs
  BY DEF Init, InitIngest, IngestPcs
<1>3. row \in Rows /\ disk \in Disks /\ bucket \in Buckets
  BY DEF Init, NoRow, Rows, Statuses, NoFiles, Disks, NoObjects, Buckets, Extents
<1>4. proc \in [Workers -> [pc : ProcPcs, seen : Statuses]]
  BY DEF Init, IdleProc, ProcPcs, Statuses
<1>5. arch \in [Workers -> ArchPcs] /\ del \in [Purges -> DelPcs]
  BY DEF Init, ArchPcs, DelPcs
<1>6. fail \in [pc : FailPcs, by : Workers \union {NoWorker}, published : BOOLEAN]
  BY DEF Init, NoFailure, FailPcs
<1>7. hooks \in SUBSET Payloads /\ progress \in Percents
  BY DEF Init, Percents
<1>8. reclaim \in BOOLEAN
  BY DEF Init
<1>9. crashes \in 0..MaxCrashes
  BY MaxCrashesIsNat DEF Init
<1> QED
  BY <1>1, <1>2, <1>3, <1>4, <1>5, <1>6, <1>7, <1>8, <1>9 DEF TypeOK

LEMMA IngestType == TypeOK /\ Ingest => TypeOK'
<1> SUFFICES ASSUME TypeOK, Ingest PROVE TypeOK'
  OBVIOUS
<1> USE DEF TypeOK, IngestFrame, IngestPcs
<1>1. CASE SaveSource
  BY <1>1 DEF SaveSource, Disks
<1>2. CASE CreateTranscode
  BY <1>2 DEF CreateTranscode, NoRow, Rows, Statuses
<1>3. CASE EnqueueTranscode
  BY <1>3, AddedType, AttemptsArePositive DEF EnqueueTranscode
<1>4. CASE RefuseIngest
  BY <1>4 DEF RefuseIngest
<1> QED
  BY <1>1, <1>2, <1>3, <1>4 DEF Ingest

LEMMA FailTranscodeType == TypeOK /\ RunFail => TypeOK'
<1> SUFFICES ASSUME TypeOK, RunFail PROVE TypeOK'
  OBVIOUS
<1> USE DEF TypeOK, FailFrame, FailAt, FailGoes, FailPcs, NoFailure
<1>1. CASE FailFind
  <2>1. row.published \in BOOLEAN
    BY DEF Rows
  <2>2. fail' \in [pc : FailPcs, by : Workers \union {NoWorker}, published : BOOLEAN]
    BY <1>1, <2>1 DEF FailFind
  <2>3. UNCHANGED <<FailFrame, row, disk, progress, hooks>>
    BY <1>1 DEF FailFind
  <2> HIDE DEF FailAt, FailGoes, NoFailure, FailPcs
  <2> QED
    BY <2>2, <2>3
<1>2. CASE FailSave
  BY <1>2 DEF FailSave, Updated, Rows, Statuses
<1>3. CASE FailClear
  BY <1>3 DEF FailClear, Percents
<1>4. CASE EnqueueFailedHook
  <2>1. [status |-> "FAILED", downloads |-> fail.published] \in Payloads
    BY DEF Payloads
  <2>2. hooks' \in SUBSET Payloads
    BY <1>4, <2>1 DEF EnqueueFailedHook
  <2>3. fail' \in [pc : FailPcs, by : Workers \union {NoWorker}, published : BOOLEAN]
    <3>1. CASE FailGoes("rmSource")
      BY <3>1
    <3>2. CASE FailGoes("idle")
      BY <3>2
    <3> QED
      BY <1>4, <3>1, <3>2 DEF EnqueueFailedHook
  <2>4. UNCHANGED <<FailFrame, row, disk, progress>>
    BY <1>4 DEF EnqueueFailedHook
  <2> HIDE DEF FailAt, FailGoes, NoFailure, FailPcs
  <2> QED
    BY <2>2, <2>3, <2>4
<1>5. CASE FailRmSource
  BY <1>5 DEF FailRmSource, Disks, Inputs
<1>6. CASE FailRmHls
  BY <1>6 DEF FailRmHls, Disks, Extents
<1>7. CASE FailThrow
  BY <1>7 DEF FailThrow
<1> QED
  BY <1>1, <1>2, <1>3, <1>4, <1>5, <1>6, <1>7 DEF RunFail

LEMMA ArchiveType ==
  ASSUME TypeOK, NEW w \in Workers, RunArchive(w)
  PROVE  TypeOK'
<1> USE DEF TypeOK, ArchFrame, ArchAt, ArchGoes, ArchPcs
<1>1. CASE TakeArchive(w)
  BY <1>1, TakenType, AttemptsArePositive DEF TakeArchive
<1>2. CASE ArchFind(w)
  BY <1>2 DEF ArchFind, AfterFind
<1>3. CASE PushArchive(w)
  BY <1>3 DEF PushArchive, Buckets, Disks
<1>4. CASE RecordArchive(w)
  BY <1>4 DEF RecordArchive, Updated, Rows
<1>5. CASE ArchRmHls(w) \/ ArchRmDl(w) \/ ArchRmFlac(w) \/ ArchRmSource(w)
  BY <1>5 DEF ArchRmHls, ArchRmDl, ArchRmFlac, ArchRmSource, ArchRemove,
              AfterRmDl, Disks, Extents
<1>6. CASE ArchThrow(w)
  BY <1>6 DEF ArchThrow
<1>7. CASE CompleteArchive(w)
  BY <1>7, CompletedType, AttemptsArePositive DEF CompleteArchive, HeldBy
<1>8. CASE RejectArchive(w)
  BY <1>8, FailedType, AttemptsArePositive DEF RejectArchive, HeldBy
<1> QED
  BY <1>1, <1>2, <1>3, <1>4, <1>5, <1>6, <1>7, <1>8 DEF RunArchive
LEMMA DeleteType ==
  ASSUME TypeOK, NEW d \in Purges, StartDelete(d) \/ ServeDelete(d)
  PROVE  TypeOK'
<1> USE DEF TypeOK, DelFrame, DelAt, DelGoes, OnlyDel, DelPcs,
            WithdrawTranscodePcs, WithdrawArchivePcs, DestroyPcs
<1>1. CASE StartDelete(d) \/ DelFind(d)
  BY <1>1 DEF StartDelete, DelFind
<1>2. CASE GetTranscodeJob(d) \/ GetArchiveJob(d)
  BY <1>2 DEF GetTranscodeJob, GetArchiveJob, AfterGetJob
<1>3. CASE CheckTranscodeJob(d) \/ CheckArchiveJob(d)
  BY <1>3 DEF CheckTranscodeJob, CheckArchiveJob, AfterIsActive
<1>4. CASE RemoveTranscodeJob(d) \/ RemoveArchiveJob(d)
  BY <1>4, NoJobType, AttemptsArePositive DEF RemoveTranscodeJob, RemoveArchiveJob
<1>5. CASE PurgeHls(d)
  BY <1>5 DEF PurgeHls, LeftBy, Some, Buckets, Extents
<1>6. CASE PurgeDl(d)
  BY <1>6 DEF PurgeDl, LeftBy, Some, Buckets, Extents
<1>7. CASE PurgeArchive(d)
  BY <1>7 DEF PurgeArchive, Buckets, Extents
<1>8. CASE DelRmHls(d) \/ DelRmDl(d) \/ DelRmFlac(d) \/ DelRmSource(d)
  BY <1>8 DEF DelRmHls, DelRmDl, DelRmFlac, DelRmSource, DelRemove, Disks, Extents
<1>9. CASE DelClear(d) \/ DelThrow(d)
  BY <1>9 DEF DelClear, DelThrow, Percents
<1>10. CASE DelRow(d)
  BY <1>10 DEF DelRow, NoRow, Rows, Statuses
<1> QED
  BY <1>1, <1>2, <1>3, <1>4, <1>5, <1>6, <1>7, <1>8, <1>9, <1>10 DEF ServeDelete

LEMMA EnvironmentType ==
  ASSUME TypeOK, \/ \E w \in Workers : Crash(w)
                 \/ StallTranscode \/ StallArchive \/ ExpireProgress
  PROVE  TypeOK'
<1> USE DEF TypeOK
<1>1. ASSUME NEW w \in Workers, Crash(w) PROVE TypeOK'
  BY <1>1, MaxCrashesIsNat
     DEF Crash, IdleProc, NoFailure, ProcPcs, ArchPcs, FailPcs, Statuses
<1>2. CASE StallTranscode
  BY <1>2, StalledType, AttemptsArePositive
     DEF StallTranscode, TranscodeLockExpired, HeldBy
<1>3. CASE StallArchive
  BY <1>3, StalledType, AttemptsArePositive
     DEF StallArchive, ArchiveLockExpired, HeldBy
<1>4. CASE ExpireProgress
  BY <1>4 DEF ExpireProgress, Percents
<1> QED
  BY <1>1, <1>2, <1>3, <1>4

LEMMA ProcessType ==
  ASSUME TypeOK, NEW w \in Workers, RunTranscode(w) \/ EncodeTick(w)
  PROVE  TypeOK'
<1> USE DEF TypeOK, ProcFrame, At, Goes, Ends, OnlyProc, ProcPcs
<1>1. CASE TakeTranscode(w)
  BY <1>1, TakenType, AttemptsArePositive DEF TakeTranscode
<1>2. CASE FindOrFail(w)
  BY <1>2 DEF FindOrFail, Rows
<1>3. CASE Checkpoint(w) \/ Probe(w) \/ MeasureDownloads(w) \/ ProcThrow(w)
  BY <1>3 DEF Checkpoint, Probe, AfterProbe, MeasureDownloads, ProcThrow
<1>4. CASE SaveProcessing(w)
  BY <1>4 DEF SaveProcessing, SaveStatus, Updated, Rows, Statuses
<1>5. CASE SaveCompleted(w)
  BY <1>5 DEF SaveCompleted, SaveStatus, Updated, Rows, Statuses
<1>6. CASE StartProgress(w) \/ EncodeTick(w) \/ FinishProgress(w)
  BY <1>6 DEF StartProgress, EncodeTick, FinishProgress, AfterCompleted, Percents
<1>7. CASE StartEncode(w)
  <2>1. disk' \in Disks
    BY <1>7 DEF StartEncode, Disks, Extents
  <2>2. proc' \in [Workers -> [pc : ProcPcs, seen : Statuses]]
    BY <1>7 DEF StartEncode
  <2>3. UNCHANGED <<ProcFrame, row, bucket, progress, tjob, ajob, hooks, fail>>
    BY <1>7 DEF StartEncode
  <2> HIDE DEF At, Goes, Ends, OnlyProc, ProcPcs
  <2> QED
    BY <2>1, <2>2, <2>3
<1>8. CASE FinishEncode(w)
  <2>1. disk' \in Disks
    BY <1>8 DEF FinishEncode, Disks, Extents
  <2>2. proc' \in [Workers -> [pc : ProcPcs, seen : Statuses]]
    BY <1>8 DEF FinishEncode
  <2>3. UNCHANGED <<ProcFrame, row, bucket, progress, tjob, ajob, hooks, fail>>
    BY <1>8 DEF FinishEncode
  <2> HIDE DEF At, Goes, Ends, OnlyProc, ProcPcs
  <2> QED
    BY <2>1, <2>2, <2>3
<1>9. CASE FailEncode(w)
  BY <1>9 DEF FailEncode, Disks, Extents
<1>10. CASE PushHls(w) \/ PushDl(w)
  BY <1>10 DEF PushHls, PushDl, SomePut, Buckets, Extents
<1>11. CASE PushHlsRest(w) \/ PushDlRest(w)
  BY <1>11 DEF PushHlsRest, PushHlsThen, PushDlRest, AllPut, Buckets, Extents
<1>12. CASE EnqueueCompletedHook(w)
  <2>1. hooks' \in SUBSET Payloads
    <3>1. [status |-> "COMPLETED", downloads |-> TRUE] \in Payloads
      BY DEF Payloads
    <3> QED
      BY <1>12, <3>1 DEF EnqueueCompletedHook
  <2>2. proc' \in [Workers -> [pc : ProcPcs, seen : Statuses]]
    BY <1>12 DEF EnqueueCompletedHook
  <2>3. UNCHANGED <<ProcFrame, row, disk, bucket, progress, tjob, ajob, fail>>
    BY <1>12 DEF EnqueueCompletedHook
  <2> HIDE DEF At, Goes, Ends, OnlyProc, ProcPcs
  <2> QED
    BY <2>1, <2>2, <2>3
<1>13. CASE EnqueueArchive(w)
  BY <1>13, AddedType, AttemptsArePositive DEF EnqueueArchive
<1>14. CASE CompleteTranscode(w)
  BY <1>14, CompletedType, AttemptsArePositive
     DEF CompleteTranscode, HeldBy, IdleProc, Statuses
<1>15. CASE RejectTranscode(w)
  <2>1. tjob' \in Jobs(TranscodeAttempts)
    <3>1. ASSUME HeldBy(tjob, w)
          PROVE  Failed(tjob, TranscodeAttempts, At(w, "fatal")) \in Jobs(TranscodeAttempts)
      BY <3>1, FailedType, AttemptsArePositive DEF HeldBy
    <3> QED
      BY <1>15, <3>1 DEF RejectTranscode
  <2>2. proc' \in [Workers -> [pc : ProcPcs, seen : Statuses]]
    BY <1>15 DEF RejectTranscode, IdleProc, Statuses
  <2>3. fail' \in [pc : FailPcs, by : Workers \union {NoWorker}, published : BOOLEAN]
    BY <1>15 DEF RejectTranscode, NoFailure, FailPcs
  <2>4. UNCHANGED <<ProcFrame, row, disk, bucket, progress, ajob, hooks>>
    BY <1>15 DEF RejectTranscode
  <2> HIDE DEF At, Goes, Ends, OnlyProc, ProcPcs
  <2> QED
    BY <2>1, <2>2, <2>3, <2>4
<1> QED
  BY <1>1, <1>2, <1>3, <1>4, <1>5, <1>6, <1>7, <1>8, <1>9, <1>10, <1>11, <1>12,
     <1>13, <1>14, <1>15 DEF RunTranscode

LEMMA TypeOKIsKept == TypeOK /\ [Next]_vars => TypeOK'
<1> SUFFICES ASSUME TypeOK, [Next]_vars PROVE TypeOK'
  OBVIOUS
<1>1. CASE UNCHANGED vars
  BY <1>1 DEF vars, TypeOK
<1>2. CASE Next
  BY <1>2, IngestType, ProcessType, FailTranscodeType, ArchiveType, DeleteType,
     EnvironmentType DEF Next
<1> QED
  BY <1>1, <1>2

(* Every variable keeps its type: the model has no ill-formed state.        *)
THEOREM TypeCorrect == Spec => []TypeOK
BY InitType, TypeOKIsKept, PTL DEF Spec

-------------------------------------------------------------------------------
(* What the queue's operations do to the state and the owner of a job.     *)

LEMMA TakenIsHeld ==
  ASSUME NEW n \in Nat \ {0}, NEW job \in Jobs(n), NEW w \in Workers
  PROVE  HeldBy(Taken(job, w), w)
BY DEF Jobs, Taken, HeldBy

-------------------------------------------------------------------------------
(* Withdrawal is inductive. *)

LEMMA WithdrawalInit == Init => Withdrawal
BY DEF Init, InitIngest, Withdrawal, RunsHoldTheirJobs, WithdrawnIsAbsent,
       OnlyKnownIsDeleted, At, ArchAt, DelAt, IdleProc, WithdrawArchivePcs,
       DestroyPcs, Purged, NoJob

LEMMA IngestWithdrawal == TypeOK /\ Withdrawal /\ Ingest => Withdrawal'
<1> SUFFICES ASSUME TypeOK, Withdrawal, Ingest PROVE Withdrawal'
  OBVIOUS
<1>1. ingest # "accepted" /\ UNCHANGED <<proc, arch, del, ajob>>
  BY DEF Ingest, SaveSource, CreateTranscode, EnqueueTranscode, RefuseIngest, IngestFrame
<1>2. \A d \in Purges : del[d] = "idle"
  BY <1>1 DEF Withdrawal, OnlyKnownIsDeleted, DelAt
<1>3. WithdrawnIsAbsent'
  BY <1>1, <1>2 DEF WithdrawnIsAbsent, WithdrawArchivePcs, DestroyPcs
<1>4. RunsHoldTheirJobs'
  <2>1. tjob' = tjob \/ tjob' = Added(tjob)
    BY DEF Ingest, SaveSource, CreateTranscode, EnqueueTranscode, RefuseIngest
  <2>2. tjob.state # "none" => tjob' = tjob
    BY <2>1 DEF Added
  <2> QED
    BY <1>1, <2>2 DEF Withdrawal, RunsHoldTheirJobs, HeldBy, At, ArchAt
<1>5. OnlyKnownIsDeleted'
  <2>1. ingest' = "job" => RowExists'
    BY DEF Ingest, SaveSource, CreateTranscode, EnqueueTranscode, RefuseIngest,
           RowExists, NoRow
  <2>2. ingest' = "accepted" => RowExists'
    BY DEF Ingest, SaveSource, CreateTranscode, EnqueueTranscode, RefuseIngest,
           RowExists, Withdrawal, OnlyKnownIsDeleted
  <2> QED
    BY <1>1, <1>2, <2>1, <2>2 DEF OnlyKnownIsDeleted, DelAt, Purged
<1> QED
  BY <1>3, <1>4, <1>5 DEF Withdrawal
(* Steps that touch neither a queue, a run nor a deletion.                  *)
LEMMA WithdrawalFrame ==
  ASSUME Withdrawal, RowExists' = RowExists,
         UNCHANGED <<ingest, tjob, ajob, proc, arch, del>>
  PROVE  Withdrawal'
BY DEF Withdrawal, RunsHoldTheirJobs, WithdrawnIsAbsent, OnlyKnownIsDeleted,
       At, ArchAt, DelAt, HeldBy, Purged

LEMMA FailWithdrawal == Withdrawal /\ RunFail => Withdrawal'
<1> SUFFICES ASSUME Withdrawal, RunFail PROVE Withdrawal'
  OBVIOUS
<1>1. UNCHANGED <<ingest, tjob, ajob, proc, arch, del>>
  BY DEF RunFail, FailFind, FailSave, FailClear, EnqueueFailedHook, FailRmSource,
         FailRmHls, FailThrow, FailFrame
<1>2. RowExists' = RowExists
  <2>1. CASE FailSave
    BY <2>1 DEF FailSave, Updated, RowExists
  <2>2. CASE ~FailSave
    BY <2>2 DEF RunFail, FailFind, FailClear, EnqueueFailedHook, FailRmSource,
                FailRmHls, FailThrow, RowExists
  <2> QED
    BY <2>1, <2>2
<1> QED
  BY <1>1, <1>2, WithdrawalFrame

(* A worker's step keeps to the rows, requests and runs that are its own.  *)
LEMMA ProcessFrame ==
  ASSUME TypeOK, NEW w \in Workers, RunTranscode(w) \/ EncodeTick(w)
  PROVE  /\ RowExists' = RowExists
         /\ UNCHANGED <<ingest, arch, del>>
         /\ \A v \in Workers \ {w} : proc'[v] = proc[v]
<1>1. UNCHANGED <<ingest, arch, del>>
  BY DEF RunTranscode, EncodeTick, TakeTranscode, FindOrFail, Checkpoint, Probe,
         SaveProcessing, StartProgress, StartEncode, FinishEncode, FailEncode,
         MeasureDownloads, PushHls, PushHlsRest, PushHlsThen, PushDl, PushDlRest,
         SaveCompleted, FinishProgress, EnqueueCompletedHook, EnqueueArchive,
         ProcThrow, CompleteTranscode, RejectTranscode, OnlyProc, ProcFrame
<1>2. RowExists' = RowExists
  <2>1. CASE SaveProcessing(w) \/ SaveCompleted(w)
    BY <2>1 DEF SaveProcessing, SaveCompleted, SaveStatus, Updated, RowExists,
                TypeOK, Rows
  <2>2. CASE ~SaveProcessing(w) /\ ~SaveCompleted(w)
    BY <2>2 DEF RunTranscode, EncodeTick, TakeTranscode, FindOrFail, Checkpoint,
         Probe, StartProgress, StartEncode, FinishEncode, FailEncode,
         MeasureDownloads, PushHls, PushHlsRest, PushHlsThen, PushDl, PushDlRest,
         FinishProgress, EnqueueCompletedHook, EnqueueArchive,
         ProcThrow, CompleteTranscode, RejectTranscode, OnlyProc, RowExists
  <2> QED
    BY <2>1, <2>2
<1>3. \A v \in Workers \ {w} : proc'[v] = proc[v]
  BY DEF RunTranscode, EncodeTick, TakeTranscode, FindOrFail, Checkpoint, Probe,
         SaveProcessing, StartProgress, StartEncode, FinishEncode, FailEncode,
         MeasureDownloads, PushHls, PushHlsRest, PushHlsThen, PushDl, PushDlRest,
         SaveCompleted, FinishProgress, EnqueueCompletedHook, EnqueueArchive,
         ProcThrow, CompleteTranscode, RejectTranscode, OnlyProc, Goes, Ends,
         TypeOK
<1> QED
  BY <1>1, <1>2, <1>3

(* A step of a run takes the job, ends the run, or stays inside it.        *)
LEMMA ProcessShape ==
  ASSUME TypeOK, NEW w \in Workers, RunTranscode(w) \/ EncodeTick(w)
  PROVE  \/ /\ tjob.state = "waiting" /\ tjob' = Taken(tjob, w)
            /\ ajob' = ajob
         \/ /\ ~At(w, "idle")
            /\ tjob' = tjob
            /\ ajob' = ajob \/ ajob' = Added(ajob)
         \/ /\ ~At(w, "idle") /\ At(w, "idle")'
            /\ ajob' = ajob
            /\ ~HeldBy(tjob, w) => tjob' = tjob
<1>1. CASE TakeTranscode(w)
  BY <1>1 DEF TakeTranscode
<1>2. CASE CompleteTranscode(w) \/ RejectTranscode(w)
  BY <1>2 DEF CompleteTranscode, RejectTranscode, Ends, At, IdleProc, TypeOK
<1>3. CASE EnqueueArchive(w)
  BY <1>3 DEF EnqueueArchive, At
<1>4. CASE ProcThrow(w)
  BY <1>4 DEF ProcThrow, ProcFaulty, At, OnlyProc
<1>5. CASE \/ ~TakeTranscode(w) /\ ~CompleteTranscode(w) /\ ~RejectTranscode(w)
              /\ ~EnqueueArchive(w) /\ ~ProcThrow(w)
  BY <1>5 DEF RunTranscode, EncodeTick, FindOrFail, Checkpoint, Probe,
         SaveProcessing, StartProgress, StartEncode, FinishEncode, FailEncode,
         MeasureDownloads, PushHls, PushHlsRest, PushHlsThen, PushDl, PushDlRest,
         SaveCompleted, FinishProgress, EnqueueCompletedHook, OnlyProc, At
<1> QED
  BY <1>1, <1>2, <1>3, <1>4, <1>5

LEMMA ProcessWithdrawal ==
  ASSUME TypeOK, Withdrawal, NEW w \in Workers, RunTranscode(w) \/ EncodeTick(w)
  PROVE  Withdrawal'
<1> USE DEF Withdrawal
<1>1. tjob.state # "none" /\ (tjob.state = "waiting" \/ HeldBy(tjob, w))
  BY ProcessShape DEF RunsHoldTheirJobs, HeldBy
<1>2. \A d \in Purges : del[d] \notin WithdrawArchivePcs \union DestroyPcs
  BY <1>1 DEF WithdrawnIsAbsent
<1>3. WithdrawnIsAbsent'
  BY <1>2, ProcessFrame DEF WithdrawnIsAbsent
<1>4. OnlyKnownIsDeleted'
  BY <1>1, ProcessFrame DEF OnlyKnownIsDeleted, DelAt, Purged
<1>5. RunsHoldTheirJobs'
  <2>1. ASSUME NEW v \in Workers, ~ArchAt(v, "idle")' PROVE HeldBy(ajob, v)'
    <3>1. HeldBy(ajob, v)
      BY <2>1, ProcessFrame DEF RunsHoldTheirJobs, ArchAt
    <3>2. ajob' = ajob
      BY <3>1, ProcessShape DEF HeldBy, Added
    <3> QED
      BY <3>1, <3>2 DEF HeldBy
  <2>2. ASSUME NEW v \in Workers, ~At(v, "idle")' PROVE HeldBy(tjob, v)'
    <3>1. CASE tjob.state = "waiting" /\ tjob' = Taken(tjob, w)
      <4>1. \A u \in Workers : At(u, "idle")
        BY <3>1 DEF RunsHoldTheirJobs, HeldBy
      <4>2. v = w
        BY <2>2, <4>1, ProcessFrame DEF At
      <4> QED
        BY <3>1, <4>2, TakenIsHeld, AttemptsArePositive DEF TypeOK, HeldBy
    <3>2. CASE ~At(w, "idle") /\ tjob' = tjob
      <4>1. ~At(v, "idle")
        BY <2>2, <3>2, ProcessFrame DEF At
      <4> QED
        BY <3>2, <4>1 DEF RunsHoldTheirJobs, HeldBy
    <3>3. CASE ~At(w, "idle") /\ At(w, "idle")'
      <4>1. HeldBy(tjob, w) /\ v # w
        BY <2>2, <3>3 DEF RunsHoldTheirJobs
      <4>2. ~At(v, "idle")
        BY <2>2, <4>1, ProcessFrame DEF At
      <4> QED
        BY <4>1, <4>2 DEF RunsHoldTheirJobs, HeldBy
    <3> QED
      BY <3>1, <3>2, <3>3, ProcessShape
  <2> QED
    BY <2>1, <2>2 DEF RunsHoldTheirJobs
<1> QED
  BY <1>3, <1>4, <1>5
LEMMA ArchiveFrame ==
  ASSUME TypeOK, NEW w \in Workers, RunArchive(w)
  PROVE  /\ RowExists' = RowExists
         /\ UNCHANGED <<ingest, tjob, proc, del>>
         /\ \A v \in Workers \ {w} : arch'[v] = arch[v]
<1> USE DEF RunArchive, TakeArchive, ArchFind, PushArchive, RecordArchive, ArchRmHls,
            ArchRmDl, ArchRmFlac, ArchRmSource, ArchRemove, ArchThrow,
            CompleteArchive, RejectArchive
<1>1. UNCHANGED <<ingest, tjob, proc, del>>
  BY DEF ArchFrame
<1>2. RowExists' = RowExists
  BY DEF Updated, RowExists, TypeOK, Rows
<1>3. \A v \in Workers \ {w} : arch'[v] = arch[v]
  BY DEF ArchGoes, TypeOK
<1> QED
  BY <1>1, <1>2, <1>3

LEMMA ArchiveShape ==
  ASSUME TypeOK, NEW w \in Workers, RunArchive(w)
  PROVE  \/ ajob.state = "waiting" /\ ajob' = Taken(ajob, w)
         \/ ~ArchAt(w, "idle") /\ ajob' = ajob
         \/ /\ ~ArchAt(w, "idle") /\ ArchAt(w, "idle")'
            /\ ~HeldBy(ajob, w) => ajob' = ajob
BY DEF RunArchive, TakeArchive, ArchFind, PushArchive, RecordArchive, ArchRmHls,
       ArchRmDl, ArchRmFlac, ArchRmSource, ArchRemove, ArchThrow,
       CompleteArchive, RejectArchive, ArchGoes, ArchAt, TypeOK

LEMMA ArchiveWithdrawal ==
  ASSUME TypeOK, Withdrawal, NEW w \in Workers, RunArchive(w)
  PROVE  Withdrawal'
<1> USE DEF Withdrawal
<1>1. ajob.state = "waiting" \/ HeldBy(ajob, w)
  BY ArchiveShape DEF RunsHoldTheirJobs
<1>2. \A d \in Purges : del[d] \notin DestroyPcs
  BY <1>1 DEF WithdrawnIsAbsent, HeldBy
<1>3. WithdrawnIsAbsent'
  BY <1>2, ArchiveFrame DEF WithdrawnIsAbsent
<1>4. OnlyKnownIsDeleted'
  BY <1>1, ArchiveFrame DEF OnlyKnownIsDeleted, DelAt, Purged, HeldBy
<1>5. RunsHoldTheirJobs'
  <2>1. ASSUME NEW v \in Workers, ~At(v, "idle")' PROVE HeldBy(tjob, v)'
    BY <2>1, ArchiveFrame DEF RunsHoldTheirJobs, At, HeldBy
  <2>2. ASSUME NEW v \in Workers, ~ArchAt(v, "idle")' PROVE HeldBy(ajob, v)'
    <3>1. CASE ajob.state = "waiting" /\ ajob' = Taken(ajob, w)
      <4>1. \A u \in Workers : ArchAt(u, "idle")
        BY <3>1 DEF RunsHoldTheirJobs, HeldBy
      <4>2. v = w
        BY <2>2, <4>1, ArchiveFrame DEF ArchAt
      <4> QED
        BY <3>1, <4>2, TakenIsHeld, AttemptsArePositive DEF TypeOK, HeldBy
    <3>2. CASE ~ArchAt(w, "idle") /\ ajob' = ajob
      <4>1. ~ArchAt(v, "idle")
        BY <2>2, <3>2, ArchiveFrame DEF ArchAt
      <4> QED
        BY <3>2, <4>1 DEF RunsHoldTheirJobs, HeldBy
    <3>3. CASE ~ArchAt(w, "idle") /\ ArchAt(w, "idle")'
      <4>1. HeldBy(ajob, w) /\ v # w
        BY <2>2, <3>3 DEF RunsHoldTheirJobs
      <4>2. ~ArchAt(v, "idle")
        BY <2>2, <4>1, ArchiveFrame DEF ArchAt
      <4> QED
        BY <4>1, <4>2 DEF RunsHoldTheirJobs, HeldBy
    <3> QED
      BY <3>1, <3>2, <3>3, ArchiveShape
  <2> QED
    BY <2>1, <2>2 DEF RunsHoldTheirJobs
<1> QED
  BY <1>3, <1>4, <1>5

(* A DELETE only ever removes: a job nobody holds, or the row.             *)
LEMMA DeleteShape ==
  ASSUME TypeOK, NEW d \in Purges, StartDelete(d) \/ ServeDelete(d)
  PROVE  /\ UNCHANGED <<ingest, proc, arch>>
         /\ tjob' = tjob \/ (tjob' = NoJob /\ tjob.state # "active")
         /\ ajob' = ajob \/ (ajob' = NoJob /\ ajob.state # "active")
         /\ \/ RowExists' = RowExists
            \/ ~RowExists' /\ DelAt(d, "row")
         /\ \A e \in Purges \ {d} : del'[e] = del[e]
<1> USE DEF StartDelete, ServeDelete, DelFind, GetTranscodeJob, CheckTranscodeJob,
            RemoveTranscodeJob, GetArchiveJob, CheckArchiveJob, RemoveArchiveJob,
            PurgeHls, PurgeDl, PurgeArchive, DelRmHls, DelRmDl, DelRmFlac,
            DelRmSource, DelRemove, DelClear, DelRow, DelThrow, OnlyDel
<1>1. UNCHANGED <<ingest, proc, arch>>
  BY DEF DelFrame
<1>2. /\ tjob' = tjob \/ (tjob' = NoJob /\ tjob.state # "active")
      /\ ajob' = ajob \/ (ajob' = NoJob /\ ajob.state # "active")
  BY DEF Locked
<1>3. RowExists' = RowExists \/ (~RowExists' /\ DelAt(d, "row"))
  BY DEF RowExists, NoRow
<1>4. \A e \in Purges \ {d} : del'[e] = del[e]
  BY DEF DelGoes, TypeOK
<1> QED
  BY <1>1, <1>2, <1>3, <1>4

(* A DELETE passes a queue that holds no job, or that held one it removed. *)
LEMMA DeletePasses ==
  ASSUME TypeOK, WithdrawnIsAbsent, NEW d \in Purges, StartDelete(d) \/ ServeDelete(d)
  PROVE  /\ del'[d] \in WithdrawArchivePcs \union DestroyPcs => tjob'.state = "none"
         /\ del'[d] \in DestroyPcs => ajob'.state = "none"
<1> USE DEF TypeOK, DelAt, DelGoes, OnlyDel, WithdrawnIsAbsent, WithdrawArchivePcs,
            DestroyPcs
<1>1. CASE StartDelete(d) \/ DelFind(d) \/ DelThrow(d)
  BY <1>1 DEF StartDelete, DelFind, DelThrow
<1>2. CASE GetTranscodeJob(d) \/ CheckTranscodeJob(d) \/ RemoveTranscodeJob(d)
  BY <1>2 DEF GetTranscodeJob, CheckTranscodeJob, RemoveTranscodeJob,
              AfterGetJob, AfterIsActive, NoJob
<1>3. CASE GetArchiveJob(d) \/ CheckArchiveJob(d) \/ RemoveArchiveJob(d)
  BY <1>3 DEF GetArchiveJob, CheckArchiveJob, RemoveArchiveJob,
              AfterGetJob, AfterIsActive, NoJob
<1>4. CASE PurgeHls(d) \/ PurgeDl(d) \/ PurgeArchive(d)
  BY <1>4 DEF PurgeHls, PurgeDl, PurgeArchive
<1>5. CASE DelRmHls(d) \/ DelRmDl(d) \/ DelRmFlac(d) \/ DelRmSource(d)
  BY <1>5 DEF DelRmHls, DelRmDl, DelRmFlac, DelRmSource, DelRemove
<1>6. CASE DelClear(d) \/ DelRow(d)
  BY <1>6 DEF DelClear, DelRow
<1> QED
  BY <1>1, <1>2, <1>3, <1>4, <1>5, <1>6 DEF ServeDelete

LEMMA DeleteWithdrawal ==
  ASSUME TypeOK, Withdrawal, NEW d \in Purges, StartDelete(d) \/ ServeDelete(d)
  PROVE  Withdrawal'
<1> USE DEF Withdrawal
<1>1. RunsHoldTheirJobs'
  BY DeleteShape DEF RunsHoldTheirJobs, At, ArchAt, HeldBy
<1>2. WithdrawnIsAbsent'
  BY DeleteShape, DeletePasses DEF WithdrawnIsAbsent, NoJob
<1>3. ingest = "accepted"
  BY DEF OnlyKnownIsDeleted, DelAt, StartDelete, IdIsKnown, ServeDelete, DelFind,
         GetTranscodeJob, CheckTranscodeJob, RemoveTranscodeJob, GetArchiveJob,
         CheckArchiveJob, RemoveArchiveJob, PurgeHls, PurgeDl, PurgeArchive,
         DelRmHls, DelRmDl, DelRmFlac, DelRmSource, DelRemove, DelClear, DelRow,
         DelThrow, WithdrawTranscodePcs, WithdrawArchivePcs
<1>4. Purged' => tjob'.state = "none" /\ ajob'.state = "none"
  BY DeleteShape DEF OnlyKnownIsDeleted, Purged, NoJob, WithdrawnIsAbsent, DelAt,
                     DestroyPcs
<1>5. OnlyKnownIsDeleted'
  BY <1>3, <1>4, DeleteShape DEF OnlyKnownIsDeleted, DelAt
<1> QED
  BY <1>1, <1>2, <1>5

LEMMA EnvironmentWithdrawal ==
  ASSUME "lockLoss" \notin Faults, TypeOK, Withdrawal,
         \/ \E w \in Workers : Crash(w)
         \/ StallTranscode \/ StallArchive \/ ExpireProgress
  PROVE  Withdrawal'
<1> USE DEF Withdrawal
<1>1. ASSUME NEW w \in Workers, Crash(w) PROVE Withdrawal'
  BY <1>1 DEF Crash, RunsHoldTheirJobs, WithdrawnIsAbsent, OnlyKnownIsDeleted,
              Purged, RowExists, At, ArchAt, DelAt, HeldBy, IdleProc, TypeOK
<1>2. CASE StallTranscode
  <2>1. PICK w \in Workers : HeldBy(tjob, w) /\ At(w, "idle")
    BY <1>2 DEF StallTranscode, TranscodeLockExpired
  <2>2. \A v \in Workers : At(v, "idle")
    BY <2>1 DEF RunsHoldTheirJobs, HeldBy
  <2> QED
    BY <1>2, <2>1, <2>2 DEF StallTranscode, RunsHoldTheirJobs, WithdrawnIsAbsent,
       OnlyKnownIsDeleted, Purged, RowExists, At, ArchAt, DelAt, HeldBy
<1>3. CASE StallArchive
  <2>1. PICK w \in Workers : HeldBy(ajob, w) /\ ArchAt(w, "idle")
    BY <1>3 DEF StallArchive, ArchiveLockExpired
  <2>2. \A v \in Workers : ArchAt(v, "idle")
    BY <2>1 DEF RunsHoldTheirJobs, HeldBy
  <2> QED
    BY <1>3, <2>1, <2>2 DEF StallArchive, RunsHoldTheirJobs, WithdrawnIsAbsent,
       OnlyKnownIsDeleted, Purged, RowExists, At, ArchAt, DelAt, HeldBy
<1>4. CASE ExpireProgress
  BY <1>4, WithdrawalFrame DEF ExpireProgress, RowExists
<1> QED
  BY <1>1, <1>2, <1>3, <1>4

LEMMA WithdrawalStep ==
  ASSUME "lockLoss" \notin Faults, TypeOK, Withdrawal, [Next]_vars
  PROVE  Withdrawal'
<1>1. CASE UNCHANGED vars
  BY <1>1, WithdrawalFrame DEF vars, RowExists
<1>2. CASE Next
  BY <1>2, IngestWithdrawal, ProcessWithdrawal, FailWithdrawal, ArchiveWithdrawal,
     DeleteWithdrawal, EnvironmentWithdrawal DEF Next
<1> QED
  BY <1>1, <1>2

(* While a DELETE destroys, nothing of the Transcode runs or can still be  *)
(* taken by a worker (delete_transcode.ts:63-70).                           *)
THEOREM DeletionIsExclusive ==
  ASSUME "lockLoss" \notin Faults
  PROVE  Spec => []DeletionExclusive
<1>1. Withdrawal => DeletionExclusive
  BY DEF Withdrawal, RunsHoldTheirJobs, WithdrawnIsAbsent, DeletionExclusive,
         Destroying, Running, MayRun, HeldBy, DestroyPcs
<1>2. TypeOK /\ Withdrawal /\ [Next]_vars => Withdrawal'
  BY WithdrawalStep
<1> QED
  BY <1>1, <1>2, WithdrawalInit, TypeCorrect, PTL DEF Spec
-------------------------------------------------------------------------------
(* Reclamation is inductive: whoever could write bytes has been shut out.  *)

NothingIn(objects, files) ==
  /\ objects.hls = "none" /\ objects.dl = "none" /\ objects.archive = "none"
  /\ files.hls = "none" /\ files.dl = "none" /\ files.flac = "none" /\ ~files.source

(* What is not there is not there afterwards.                              *)
StaysEmpty ==
  /\ bucket.hls = "none" => bucket'.hls = "none"
  /\ bucket.dl = "none" => bucket'.dl = "none"
  /\ bucket.archive = "none" => bucket'.archive = "none"
  /\ disk.hls = "none" => disk'.hls = "none"
  /\ disk.dl = "none" => disk'.dl = "none"
  /\ disk.flac = "none" => disk'.flac = "none"
  /\ ~disk.source => ~disk'.source

LEMMA EmptyByFields ==
  ASSUME NEW objects \in Buckets, NEW files \in Disks
  PROVE  objects = NoObjects /\ files = NoFiles <=> NothingIn(objects, files)
<1>1. objects = NoObjects <=> /\ objects.hls = "none" /\ objects.dl = "none"
                              /\ objects.archive = "none"
  BY DEF Buckets, NoObjects
<1>2. files = NoFiles => /\ files.hls = "none" /\ files.dl = "none"
                         /\ files.flac = "none" /\ ~files.source
  BY DEF NoFiles
<1>3. ASSUME files.hls = "none", files.dl = "none", files.flac = "none", ~files.source
      PROVE  files = NoFiles
  <2>1. files.source = FALSE
    BY <1>3 DEF Disks
  <2>2. files = [source |-> files.source, hls |-> files.hls,
                 dl |-> files.dl, flac |-> files.flac]
    BY DEF Disks
  <2> QED
    BY <1>3, <2>1, <2>2 DEF NoFiles
<1> QED
  BY <1>1, <1>2, <1>3 DEF NothingIn

LEMMA ReclamationInit == Init => Reclamation
BY DEF Init, InitIngest, Reclamation, RemoteHasNoMaster, DestroyedStaysDestroyed,
       NoOrphanBytes, NoFiles, NoObjects, Purged, AfterPurgeHls, AfterPurgeDl,
       AfterPurgeArchive, AfterRmHls, AfterDelRmDl, AfterRmFlac, AfterRmSource,
       DestroyPcs

(* A step that writes nothing and touches neither a request nor the row.   *)
LEMMA ReclamationFrame ==
  ASSUME TypeOK, TypeOK', Reclamation, StaysEmpty, RowExists' = RowExists,
         UNCHANGED <<input, ingest, del>>
  PROVE  Reclamation'
<1>1. RemoteHasNoMaster'
  BY DEF Reclamation, RemoteHasNoMaster, StaysEmpty
<1>2. DestroyedStaysDestroyed'
  BY DEF Reclamation, DestroyedStaysDestroyed, StaysEmpty
<1>3. NoOrphanBytes'
  <2>1. Purged' => Purged
    BY DEF Purged
  <2>2. Purged => NothingIn(bucket, disk)
    BY EmptyByFields DEF Reclamation, NoOrphanBytes, TypeOK
  <2>3. NothingIn(bucket, disk) => NothingIn(bucket', disk')
    BY DEF NothingIn, StaysEmpty
  <2>4. NothingIn(bucket', disk') => bucket' = NoObjects /\ disk' = NoFiles
    BY EmptyByFields DEF TypeOK
  <2> QED
    BY <2>1, <2>2, <2>3, <2>4 DEF NoOrphanBytes
<1> QED
  BY <1>1, <1>2, <1>3 DEF Reclamation
(* A step of a worker: its job is queued, so no DELETE destroys anything.  *)
LEMMA WorkerReclamation ==
  ASSUME Withdrawal, Reclamation, RowExists' = RowExists,
         UNCHANGED <<input, ingest, del>>,
         tjob.state # "none" \/ ajob.state # "none",
         RemoteHasNoMaster'
  PROVE  Reclamation'
<1>1. \A d \in Purges : del[d] \notin DestroyPcs
  BY DEF Withdrawal, WithdrawnIsAbsent
<1>2. DestroyedStaysDestroyed'
  BY <1>1 DEF DestroyedStaysDestroyed, AfterPurgeHls, AfterPurgeDl,
     AfterPurgeArchive, AfterRmHls, AfterDelRmDl, AfterRmFlac, AfterRmSource
<1>3. ~Purged'
  BY DEF Withdrawal, OnlyKnownIsDeleted, Purged
<1> QED
  BY <1>2, <1>3 DEF Reclamation, NoOrphanBytes

(* A run of ProcessTranscode writes no archive, and a FLAC for uploads only. *)
LEMMA ProcessWritesNoMaster ==
  ASSUME TypeOK, NEW w \in Workers, RunTranscode(w) \/ EncodeTick(w)
  PROVE  /\ UNCHANGED input /\ bucket'.archive = bucket.archive
         /\ disk'.source = disk.source /\ (input.remote => disk'.flac = disk.flac)
<1>1. UNCHANGED input
  BY DEF RunTranscode, EncodeTick, TakeTranscode, FindOrFail, Checkpoint, Probe,
         SaveProcessing, StartProgress, StartEncode, FinishEncode, FailEncode,
         MeasureDownloads, PushHls, PushHlsRest, PushHlsThen, PushDl, PushDlRest,
         SaveCompleted, FinishProgress, EnqueueCompletedHook, EnqueueArchive,
         ProcThrow, CompleteTranscode, RejectTranscode, OnlyProc, ProcFrame
<1>2. bucket'.archive = bucket.archive
  BY DEF RunTranscode, EncodeTick, TakeTranscode, FindOrFail, Checkpoint, Probe,
         SaveProcessing, StartProgress, StartEncode, FinishEncode, FailEncode,
         MeasureDownloads, PushHls, PushHlsRest, PushHlsThen, PushDl, PushDlRest,
         SaveCompleted, FinishProgress, EnqueueCompletedHook, EnqueueArchive,
         ProcThrow, CompleteTranscode, RejectTranscode, OnlyProc, TypeOK, Buckets
<1>3. disk'.source = disk.source /\ (input.remote => disk'.flac = disk.flac)
  <2>1. CASE StartEncode(w)
    BY <2>1 DEF StartEncode, WithArchive, TypeOK, Disks
  <2>2. CASE FinishEncode(w)
    BY <2>2 DEF FinishEncode, WithArchive, TypeOK, Disks
  <2>3. CASE FailEncode(w)
    BY <2>3 DEF FailEncode, TypeOK, Disks
  <2>4. CASE ~StartEncode(w) /\ ~FinishEncode(w) /\ ~FailEncode(w)
    BY <2>4 DEF RunTranscode, EncodeTick, TakeTranscode, FindOrFail, Checkpoint, Probe,
       SaveProcessing, StartProgress, MeasureDownloads, PushHls, PushHlsRest,
       PushHlsThen, PushDl, PushDlRest, SaveCompleted, FinishProgress,
       EnqueueCompletedHook, EnqueueArchive, ProcThrow, CompleteTranscode,
       RejectTranscode, OnlyProc
  <2> QED
    BY <2>1, <2>2, <2>3, <2>4
<1> QED
  BY <1>1, <1>2, <1>3

LEMMA ProcessReclamation ==
  ASSUME TypeOK, Withdrawal, Reclamation, NEW w \in Workers,
         RunTranscode(w) \/ EncodeTick(w)
  PROVE  Reclamation'
<1>1. tjob.state # "none"
  BY ProcessShape DEF Withdrawal, RunsHoldTheirJobs, HeldBy
<1>2. RemoteHasNoMaster'
  BY ProcessWritesNoMaster DEF Reclamation, RemoteHasNoMaster
<1> QED
  BY <1>1, <1>2, ProcessWritesNoMaster, ProcessFrame, WorkerReclamation

(* A run of ArchiveTranscode pushes a FLAC that is there, and removes.      *)
LEMMA ArchiveWritesNoMaster ==
  ASSUME TypeOK, NEW w \in Workers, RunArchive(w)
  PROVE  /\ UNCHANGED input
         /\ bucket' = bucket \/ (disk.flac # "none" /\ bucket'.archive = disk.flac)
         /\ ~disk.source => ~disk'.source
         /\ disk.flac = "none" => disk'.flac = "none"
<1> USE DEF RunArchive, TakeArchive, ArchFind, PushArchive, RecordArchive, ArchRmHls,
            ArchRmDl, ArchRmFlac, ArchRmSource, ArchRemove, ArchThrow,
            CompleteArchive, RejectArchive
<1>1. UNCHANGED input
  BY DEF ArchFrame
<1>2. bucket' = bucket \/ (disk.flac # "none" /\ bucket'.archive = disk.flac)
  BY DEF TypeOK, Buckets
<1>3. /\ ~disk.source => ~disk'.source
      /\ disk.flac = "none" => disk'.flac = "none"
  BY DEF TypeOK, Disks
<1> QED
  BY <1>1, <1>2, <1>3

LEMMA ArchiveReclamation ==
  ASSUME TypeOK, Withdrawal, Reclamation, NEW w \in Workers, RunArchive(w)
  PROVE  Reclamation'
<1>1. ajob.state # "none"
  BY ArchiveShape DEF Withdrawal, RunsHoldTheirJobs, HeldBy
<1>2. RemoteHasNoMaster'
  BY ArchiveWritesNoMaster DEF Reclamation, RemoteHasNoMaster
<1> QED
  BY <1>1, <1>2, ArchiveWritesNoMaster, ArchiveFrame, WorkerReclamation

(* FailTranscode only removes, and saves a row that is there.               *)
LEMMA FailShrinks ==
  ASSUME TypeOK, RunFail
  PROVE  StaysEmpty /\ UNCHANGED <<input, ingest, del>> /\ RowExists' = RowExists
<1> USE DEF RunFail, FailFind, FailSave, FailClear, EnqueueFailedHook, FailRmSource,
            FailRmHls, FailThrow
<1>1. UNCHANGED <<input, ingest, del>>
  BY DEF FailFrame
<1>2. RowExists' = RowExists
  BY DEF Updated, RowExists, TypeOK, Rows
<1>3. bucket' = bucket
  BY DEF FailFrame
<1>4. /\ disk.hls = "none" => disk'.hls = "none"
      /\ disk.dl = "none" => disk'.dl = "none"
      /\ disk.flac = "none" => disk'.flac = "none"
      /\ ~disk.source => ~disk'.source
  BY DEF TypeOK, Disks
<1>5. StaysEmpty
  BY <1>3, <1>4 DEF StaysEmpty
<1> QED
  BY <1>1, <1>2, <1>5

LEMMA FailReclamation ==
  ASSUME TypeOK, TypeOK', Reclamation, RunFail
  PROVE  Reclamation'
BY FailShrinks, ReclamationFrame

LEMMA IngestReclamation ==
  ASSUME TypeOK, TypeOK', Withdrawal, Reclamation, Ingest
  PROVE  Reclamation'
<1> USE DEF SaveSource, CreateTranscode, EnqueueTranscode, RefuseIngest
<1>1. ingest # "accepted" /\ UNCHANGED <<input, bucket, del>>
  BY DEF Ingest, IngestFrame
<1>2. \A d \in Purges : del'[d] = "idle"
  BY <1>1 DEF Withdrawal, OnlyKnownIsDeleted, DelAt
<1>3. DestroyedStaysDestroyed'
  BY <1>2 DEF DestroyedStaysDestroyed, DestroyPcs, AfterPurgeHls, AfterPurgeDl,
     AfterPurgeArchive, AfterRmHls, AfterDelRmDl, AfterRmFlac, AfterRmSource
<1>4. ~Purged'
  BY DEF Ingest, Purged, RowExists, Withdrawal, OnlyKnownIsDeleted
<1>5. (input.remote => ingest # "source")'
  BY <1>1 DEF Ingest, Reclamation
<1>6. RemoteHasNoMaster'
  BY <1>1 DEF Ingest, Reclamation, RemoteHasNoMaster, TypeOK, Disks
<1> QED
  BY <1>3, <1>4, <1>5, <1>6 DEF Reclamation, NoOrphanBytes

LEMMA EnvironmentReclamation ==
  ASSUME TypeOK, TypeOK', Reclamation,
         \/ \E w \in Workers : Crash(w)
         \/ StallTranscode \/ StallArchive \/ ExpireProgress
  PROVE  Reclamation'
<1>1. UNCHANGED <<input, ingest, row, disk, bucket, del>>
  BY DEF Crash, StallTranscode, StallArchive, ExpireProgress
<1> QED
  BY <1>1, ReclamationFrame DEF StaysEmpty, RowExists
(* A DELETE writes no bytes, also where a purge of a prefix stops half-way. *)
LEMMA DeleteShrinks ==
  ASSUME TypeOK, NEW d \in Purges, StartDelete(d) \/ ServeDelete(d)
  PROVE  StaysEmpty /\ UNCHANGED input
<1> USE DEF StaysEmpty
<1>1. CASE PurgeHls(d)
  BY <1>1 DEF PurgeHls, LeftBy, Some, TypeOK, Buckets, DelFrame
<1>2. CASE PurgeDl(d)
  BY <1>2 DEF PurgeDl, LeftBy, Some, TypeOK, Buckets, DelFrame
<1>3. CASE PurgeArchive(d)
  BY <1>3 DEF PurgeArchive, TypeOK, Buckets, DelFrame
<1>4. CASE DelRmHls(d) \/ DelRmDl(d) \/ DelRmFlac(d) \/ DelRmSource(d)
  BY <1>4 DEF DelRmHls, DelRmDl, DelRmFlac, DelRmSource, DelRemove, TypeOK, Disks,
              DelFrame
<1>5. CASE ~PurgeHls(d) /\ ~PurgeDl(d) /\ ~PurgeArchive(d) /\ ~DelRmHls(d)
           /\ ~DelRmDl(d) /\ ~DelRmFlac(d) /\ ~DelRmSource(d)
  BY <1>5 DEF StartDelete, ServeDelete, DelFind, GetTranscodeJob, CheckTranscodeJob,
     RemoveTranscodeJob, GetArchiveJob, CheckArchiveJob, RemoveArchiveJob, DelClear,
     DelRow, DelThrow, OnlyDel, DelFrame
<1> QED
  BY <1>1, <1>2, <1>3, <1>4, <1>5

(* Each step of the destruction adds what it destroys to what is gone.     *)
LEMMA DeleteDestroys ==
  ASSUME "quietErrors" \notin Faults, TypeOK, Reclamation,
         NEW d \in Purges, StartDelete(d) \/ ServeDelete(d)
  PROVE  /\ del'[d] \in AfterPurgeHls => bucket'.hls = "none"
         /\ del'[d] \in AfterPurgeDl => bucket'.dl = "none"
         /\ del'[d] \in AfterPurgeArchive => bucket'.archive = "none"
         /\ del'[d] \in AfterRmHls => disk'.hls = "none"
         /\ del'[d] \in AfterDelRmDl => disk'.dl = "none"
         /\ del'[d] \in AfterRmFlac => disk'.flac = "none"
         /\ del'[d] \in AfterRmSource => ~disk'.source
<1> USE DEF Reclamation, DestroyedStaysDestroyed, AfterPurgeHls, AfterPurgeDl,
            AfterPurgeArchive, AfterRmHls, AfterDelRmDl, AfterRmFlac, AfterRmSource,
            DestroyPcs, DelAt, DelGoes, TypeOK
<1>1. CASE PurgeHls(d)
  BY <1>1 DEF PurgeHls, LeftBy, Buckets
<1>2. CASE PurgeDl(d)
  BY <1>2 DEF PurgeDl, LeftBy, Buckets, RemoteHasNoMaster
<1>3. CASE PurgeArchive(d)
  BY <1>3 DEF PurgeArchive, Buckets
<1>4. CASE DelRmHls(d) \/ DelRmDl(d)
  BY <1>4 DEF DelRmHls, DelRmDl, DelRemove, Disks
<1>5. CASE DelRmFlac(d) \/ DelRmSource(d)
  BY <1>5 DEF DelRmFlac, DelRmSource, DelRemove, Disks
<1>6. CASE DelClear(d)
  BY <1>6 DEF DelClear
<1>7. CASE DelRow(d) \/ DelThrow(d) \/ StartDelete(d) \/ DelFind(d)
  BY <1>7 DEF DelRow, DelThrow, StartDelete, DelFind, OnlyDel
<1>8. CASE GetTranscodeJob(d) \/ CheckTranscodeJob(d) \/ RemoveTranscodeJob(d)
  BY <1>8 DEF GetTranscodeJob, CheckTranscodeJob, RemoveTranscodeJob, AfterGetJob,
              AfterIsActive, OnlyDel
<1>9. CASE GetArchiveJob(d) \/ CheckArchiveJob(d) \/ RemoveArchiveJob(d)
  BY <1>9 DEF GetArchiveJob, CheckArchiveJob, RemoveArchiveJob, AfterGetJob,
              AfterIsActive, OnlyDel
<1> QED
  BY <1>1, <1>2, <1>3, <1>4, <1>5, <1>6, <1>7, <1>8, <1>9 DEF ServeDelete

LEMMA DeleteReclamation ==
  ASSUME "quietErrors" \notin Faults, TypeOK, TypeOK', Reclamation,
         NEW d \in Purges, StartDelete(d) \/ ServeDelete(d)
  PROVE  Reclamation'
<1>1. RemoteHasNoMaster'
  BY DeleteShrinks DEF Reclamation, RemoteHasNoMaster, StaysEmpty
<1>2. (input.remote => ingest # "source")'
  BY DeleteShrinks, DeleteShape DEF Reclamation
<1>3. DestroyedStaysDestroyed'
  <2> SUFFICES ASSUME NEW e \in Purges
               PROVE  /\ del'[e] \in AfterPurgeHls => bucket'.hls = "none"
                      /\ del'[e] \in AfterPurgeDl => bucket'.dl = "none"
                      /\ del'[e] \in AfterPurgeArchive => bucket'.archive = "none"
                      /\ del'[e] \in AfterRmHls => disk'.hls = "none"
                      /\ del'[e] \in AfterDelRmDl => disk'.dl = "none"
                      /\ del'[e] \in AfterRmFlac => disk'.flac = "none"
                      /\ del'[e] \in AfterRmSource => ~disk'.source
    BY DEF DestroyedStaysDestroyed
  <2>1. CASE e = d
    BY <2>1, DeleteDestroys
  <2>2. CASE e # d
    BY <2>2, DeleteShape, DeleteShrinks
       DEF Reclamation, DestroyedStaysDestroyed, StaysEmpty
  <2> QED
    BY <2>1, <2>2
<1>4. NoOrphanBytes'
  <2> SUFFICES ASSUME Purged' PROVE NothingIn(bucket', disk')
    BY EmptyByFields DEF NoOrphanBytes, TypeOK
  <2>1. NothingIn(bucket, disk)
    <3>1. CASE Purged
      BY <3>1, EmptyByFields DEF Reclamation, NoOrphanBytes, TypeOK
    <3>2. CASE DelAt(d, "row")
      BY <3>2 DEF DelAt, Reclamation, DestroyedStaysDestroyed, NothingIn,
         AfterPurgeHls, AfterPurgeDl, AfterPurgeArchive, AfterRmHls, AfterDelRmDl,
         AfterRmFlac, AfterRmSource, DestroyPcs
    <3> QED
      BY <3>1, <3>2, DeleteShape DEF Purged
  <2> QED
    BY <2>1, DeleteShrinks DEF NothingIn, StaysEmpty
<1> QED
  BY <1>1, <1>2, <1>3, <1>4 DEF Reclamation

LEMMA ReclamationStep ==
  ASSUME "quietErrors" \notin Faults, TypeOK, TypeOK', Withdrawal, Reclamation,
         [Next]_vars
  PROVE  Reclamation'
<1>1. CASE UNCHANGED vars
  BY <1>1, ReclamationFrame DEF vars, RowExists, StaysEmpty
<1>2. CASE Next
  BY <1>2, IngestReclamation, ProcessReclamation, FailReclamation,
     ArchiveReclamation, DeleteReclamation, EnvironmentReclamation DEF Next
<1> QED
  BY <1>1, <1>2

(* A deleted Transcode leaves nothing in the bucket or on the disk, under  *)
(* every other fault, however its deletions and workers interleave          *)
(* (delete_transcode.ts:42-43).                                             *)
THEOREM DeletionLeavesNothing ==
  ASSUME "lockLoss" \notin Faults, "quietErrors" \notin Faults
  PROVE  Spec => []NoOrphanBytes
<1>1. TypeOK /\ Withdrawal /\ [Next]_vars => Withdrawal'
  BY WithdrawalStep
<1>2. TypeOK /\ TypeOK' /\ Withdrawal /\ Reclamation /\ [Next]_vars => Reclamation'
  BY ReclamationStep
<1>3. Reclamation => NoOrphanBytes
  BY DEF Reclamation
<1> QED
  BY <1>1, <1>2, <1>3, WithdrawalInit, ReclamationInit, TypeCorrect, PTL DEF Spec

(* No late save of a worker or of the listener brings a deleted row back,  *)
(* whatever fails and whoever lost a lock.                                   *)
THEOREM DeletedStaysDeleted == Spec => NoResurrection
<1>1. TypeOK /\ [Next]_vars => [Purged => ~RowExists']_vars
  <2> SUFFICES ASSUME TypeOK, Next, Purged PROVE ~RowExists'
    OBVIOUS
  <2>1. ASSUME Ingest PROVE ~RowExists'
    BY <2>1 DEF Ingest, SaveSource, CreateTranscode, EnqueueTranscode, RefuseIngest,
                Purged
  <2>2. ASSUME RunFail PROVE ~RowExists'
    BY <2>2 DEF RunFail, FailFind, FailSave, FailClear, EnqueueFailedHook,
                FailRmSource, FailRmHls, FailThrow, Updated, RowExists, Purged
  <2>3. CASE \/ \E w \in Workers : Crash(w)
             \/ StallTranscode \/ StallArchive \/ ExpireProgress
    BY <2>3 DEF Crash, StallTranscode, StallArchive, ExpireProgress, RowExists, Purged
  <2> QED
    BY <2>1, <2>2, <2>3, ProcessFrame, ArchiveFrame, DeleteShape DEF Next, Purged
<1> QED
  BY <1>1, TypeCorrect, PTL DEF Spec, NoResurrection

(* A URL ingestion never has a Source, a FLAC or an archive of ours, under *)
(* every fault and whoever lost a lock (docs/adr/0007).                     *)
THEOREM RemoteIsNeverArchived == Spec => []RemoteHasNoMaster
<1> DEFINE NoMaster == RemoteHasNoMaster /\ (input.remote => ingest # "source")
<1>1. Init => NoMaster
  BY DEF Init, InitIngest, RemoteHasNoMaster, NoFiles, NoObjects
<1>2. TypeOK /\ NoMaster /\ [Next]_vars => NoMaster'
  <2> SUFFICES ASSUME TypeOK, NoMaster, [Next]_vars PROVE NoMaster'
    OBVIOUS
  <2>1. CASE UNCHANGED vars
    BY <2>1 DEF vars, RemoteHasNoMaster
  <2>2. CASE Ingest
    BY <2>2 DEF Ingest, SaveSource, CreateTranscode, EnqueueTranscode, RefuseIngest,
                IngestFrame, RemoteHasNoMaster, TypeOK, Disks
  <2>3. ASSUME NEW w \in Workers, RunTranscode(w) \/ EncodeTick(w) PROVE NoMaster'
    BY <2>3, ProcessWritesNoMaster, ProcessFrame DEF RemoteHasNoMaster
  <2>4. ASSUME NEW w \in Workers, RunArchive(w) PROVE NoMaster'
    BY <2>4, ArchiveWritesNoMaster, ArchiveFrame DEF RemoteHasNoMaster
  <2>5. CASE RunFail
    BY <2>5, FailShrinks DEF StaysEmpty, RemoteHasNoMaster
  <2>6. ASSUME NEW d \in Purges, StartDelete(d) \/ ServeDelete(d) PROVE NoMaster'
    BY <2>6, DeleteShrinks, DeleteShape DEF StaysEmpty, RemoteHasNoMaster
  <2>7. CASE \/ \E w \in Workers : Crash(w)
             \/ StallTranscode \/ StallArchive \/ ExpireProgress
    BY <2>7 DEF Crash, StallTranscode, StallArchive, ExpireProgress, RemoteHasNoMaster
  <2> QED
    BY <2>1, <2>2, <2>3, <2>4, <2>5, <2>6, <2>7 DEF Next
<1>3. NoMaster => RemoteHasNoMaster
  OBVIOUS
<1> QED
  BY <1>1, <1>2, <1>3, TypeCorrect, PTL DEF Spec
-------------------------------------------------------------------------------
(* The deletion implements its contract.  On top of Withdrawal and         *)
(* Reclamation: nobody has a job, and nobody fails one, before the request  *)
(* is through, and the row comes after the Source.                           *)
RequestComesFirst ==
  /\ ingest \in {"source", "row"} => ~RowExists
  /\ \/ tjob.state # "none" \/ ajob.state # "none" \/ fail.pc # "idle"
     => ingest = "accepted"

LEMMA RequestInit == Init => RequestComesFirst
BY DEF Init, InitIngest, RequestComesFirst, RowExists, NoRow, NoJob, NoFailure

(* Only a Transcode that was accepted is deleted. *)
LEMMA DeleteIsAsked ==
  ASSUME Withdrawal, NEW d \in Purges, StartDelete(d) \/ ServeDelete(d)
  PROVE  ingest = "accepted"
BY DEF Withdrawal, OnlyKnownIsDeleted, DelAt, StartDelete, IdIsKnown, ServeDelete,
       DelFind, GetTranscodeJob, CheckTranscodeJob, RemoveTranscodeJob, GetArchiveJob,
       CheckArchiveJob, RemoveArchiveJob, PurgeHls, PurgeDl, PurgeArchive, DelRmHls,
       DelRmDl, DelRmFlac, DelRmSource, DelRemove, DelClear, DelRow, DelThrow,
       WithdrawTranscodePcs, WithdrawArchivePcs

(* The await that takes the last bytes away is amid the destruction: a     *)
(* purge that throws has left some.                                          *)
LEMMA DeleteGoesOn ==
  ASSUME TypeOK, NEW d \in Purges, ServeDelete(d) \/ StartDelete(d), Bytes, ~Bytes'
  PROVE  del[d] \in DestroyPcs /\ del'[d] \in DestroyPcs
<1> USE DEF DelAt, DelGoes, DestroyPcs, TypeOK, Bytes
<1>1. CASE PurgeHls(d)
  BY <1>1 DEF PurgeHls, Some, Buckets, NoObjects, DelFrame
<1>2. CASE PurgeDl(d)
  BY <1>2 DEF PurgeDl, Some, Buckets, NoObjects, DelFrame
<1>3. CASE PurgeArchive(d)
  BY <1>3 DEF PurgeArchive
<1>4. CASE DelRmHls(d) \/ DelRmDl(d) \/ DelRmFlac(d) \/ DelRmSource(d)
  BY <1>4 DEF DelRmHls, DelRmDl, DelRmFlac, DelRmSource, DelRemove
<1>5. CASE ~PurgeHls(d) /\ ~PurgeDl(d) /\ ~PurgeArchive(d) /\ ~DelRmHls(d)
           /\ ~DelRmDl(d) /\ ~DelRmFlac(d) /\ ~DelRmSource(d)
  BY <1>5 DEF StartDelete, ServeDelete, DelFind, GetTranscodeJob, CheckTranscodeJob,
     RemoveTranscodeJob, GetArchiveJob, CheckArchiveJob, RemoveArchiveJob, DelClear,
     DelRow, DelThrow, OnlyDel, DelFrame
<1> QED
  BY <1>1, <1>2, <1>3, <1>4, <1>5

LEMMA RequestStep ==
  ASSUME TypeOK, Withdrawal, RequestComesFirst, [Next]_vars
  PROVE  RequestComesFirst'
<1> USE DEF RequestComesFirst
<1>1. CASE UNCHANGED vars
  BY <1>1 DEF vars, RowExists
<1>2. CASE Ingest
  BY <1>2 DEF Ingest, SaveSource, CreateTranscode, EnqueueTranscode, RefuseIngest,
              IngestFrame, RowExists
<1>3. ASSUME NEW w \in Workers, RunTranscode(w) \/ EncodeTick(w)
      PROVE  RequestComesFirst'
  <2>1. ingest = "accepted"
    BY <1>3, ProcessShape DEF Withdrawal, RunsHoldTheirJobs, HeldBy
  <2> QED
    BY <1>3, <2>1, ProcessFrame
<1>4. ASSUME NEW w \in Workers, RunArchive(w) PROVE RequestComesFirst'
  <2>1. ingest = "accepted"
    BY <1>4, ArchiveShape DEF Withdrawal, RunsHoldTheirJobs, HeldBy
  <2> QED
    BY <1>4, <2>1, ArchiveFrame
<1>5. CASE RunFail
  <2>1. ingest = "accepted"
    BY <1>5 DEF RunFail, FailFind, FailSave, FailClear, EnqueueFailedHook,
                FailRmSource, FailRmHls, FailThrow, FailAt
  <2> QED
    BY <1>5, <2>1, FailShrinks
<1>6. ASSUME NEW d \in Purges, StartDelete(d) \/ ServeDelete(d)
      PROVE  RequestComesFirst'
  <2>1. ingest = "accepted"
    BY <1>6, DeleteIsAsked
  <2> QED
    BY <1>6, <2>1, DeleteShape
<1>7. CASE \/ \E w \in Workers : Crash(w)
           \/ StallTranscode \/ StallArchive \/ ExpireProgress
  BY <1>7 DEF Crash, StallTranscode, StallArchive, ExpireProgress, RowExists,
              TranscodeLockExpired, ArchiveLockExpired, HeldBy, NoFailure
<1> QED
  BY <1>1, <1>2, <1>3, <1>4, <1>5, <1>6, <1>7 DEF Next

(* What holds before every step, and of the row and the runs after it.      *)
Exclusive == Withdrawal /\ Reclamation /\ RequestComesFirst

LEMMA RunningOnlyWhenKept ==
  ASSUME TypeOK, Exclusive, \E w \in Workers : HeldBy(tjob, w) \/ HeldBy(ajob, w)
             \/ tjob.state = "waiting" \/ ajob.state = "waiting"
  PROVE  RowExists /\ ingest = "accepted" /\ ~Destroying
<1>1. tjob.state # "none" \/ ajob.state # "none"
  BY DEF HeldBy
<1>2. ingest = "accepted"
  BY <1>1 DEF Exclusive, RequestComesFirst
<1> QED
  BY <1>1, <1>2 DEF Exclusive, Withdrawal, OnlyKnownIsDeleted, Purged,
                    WithdrawnIsAbsent, Destroying

LEMMA DestroyingIsAlone ==
  ASSUME Withdrawal, Destroying PROVE ~Running
BY DEF Withdrawal, WithdrawnIsAbsent, RunsHoldTheirJobs, HeldBy, Destroying, Running

LEMMA WorkImplementsContract ==
  ASSUME TypeOK, Exclusive, RowExists, ingest = "accepted", ~Destroying,
         RowExists' = RowExists, UNCHANGED <<ingest, del>>,
         Running \/ UNCHANGED <<disk, bucket>>
  PROVE  Contract!ContractNext
BY DEF Contract!ContractNext, Contract!Work, Destroying, Running, At, ArchAt, Known, Bytes

LEMMA IdleWritesNothing ==
  ASSUME NEW w \in Workers,
         \/ At(w, "idle") /\ (RunTranscode(w) \/ EncodeTick(w))
         \/ ArchAt(w, "idle") /\ RunArchive(w)
  PROVE  UNCHANGED <<disk, bucket>>
<1>1. CASE At(w, "idle") /\ (RunTranscode(w) \/ EncodeTick(w))
  BY <1>1 DEF At, RunTranscode, EncodeTick, TakeTranscode, FindOrFail, Checkpoint,
     Probe, SaveProcessing, StartProgress, StartEncode, FinishEncode, FailEncode,
     MeasureDownloads, PushHls, PushHlsRest, PushHlsThen, PushDl, PushDlRest,
     SaveCompleted, FinishProgress, EnqueueCompletedHook, EnqueueArchive,
     ProcThrow, CompleteTranscode, RejectTranscode, OnlyProc
<1>2. CASE ArchAt(w, "idle") /\ RunArchive(w)
  BY <1>2 DEF ArchAt, RunArchive, TakeArchive, ArchFind, PushArchive, RecordArchive,
     ArchRmHls, ArchRmDl, ArchRmFlac, ArchRmSource, ArchRemove, ArchThrow,
     CompleteArchive, RejectArchive
<1> QED
  BY <1>1, <1>2

LEMMA RunsImplementContract ==
  ASSUME TypeOK, Exclusive, NEW w \in Workers,
         RunTranscode(w) \/ EncodeTick(w) \/ RunArchive(w)
  PROVE  Contract!ContractNext
<1>1. /\ RowExists' = RowExists /\ UNCHANGED <<ingest, del>>
      /\ \/ HeldBy(tjob, w) \/ HeldBy(ajob, w)
         \/ tjob.state = "waiting" \/ ajob.state = "waiting"
      /\ Running \/ UNCHANGED <<disk, bucket>>
  <2>1. CASE RunTranscode(w) \/ EncodeTick(w)
    BY <2>1, ProcessFrame, ProcessShape, IdleWritesNothing
       DEF Exclusive, Withdrawal, RunsHoldTheirJobs, Running
  <2>2. CASE RunArchive(w)
    BY <2>2, ArchiveFrame, ArchiveShape, IdleWritesNothing
       DEF Exclusive, Withdrawal, RunsHoldTheirJobs, Running
  <2> QED
    BY <2>1, <2>2
<1> QED
  BY <1>1, RunningOnlyWhenKept, WorkImplementsContract

LEMMA IngestImplementsContract ==
  ASSUME TypeOK, Exclusive, Ingest
  PROVE  [Contract!ContractNext]_(Contract!cvars)
<1>1. UNCHANGED <<bucket, proc, arch, del>>
  BY DEF Ingest, SaveSource, CreateTranscode, EnqueueTranscode, RefuseIngest, IngestFrame
<1>2. Running' = Running /\ Destroying' = Destroying
  BY <1>1 DEF Running, Destroying, At, ArchAt
<1>3. ASSUME SaveSource \/ CreateTranscode PROVE Contract!Deposit
  BY <1>1, <1>2, <1>3 DEF SaveSource, CreateTranscode, Contract!Deposit, RowExists,
     NoRow, Exclusive, RequestComesFirst, Known, Bytes
<1>4. ASSUME EnqueueTranscode \/ RefuseIngest PROVE UNCHANGED Contract!cvars
  <2>1. UNCHANGED <<row, disk>> /\ Known' = Known
    BY <1>4 DEF EnqueueTranscode, RefuseIngest, RowExists, Exclusive, Withdrawal,
       OnlyKnownIsDeleted, RequestComesFirst, Known
  <2> QED
    BY <1>1, <1>2, <2>1 DEF Contract!cvars, Bytes
<1> QED
  BY <1>3, <1>4 DEF Ingest, Contract!ContractNext

LEMMA FailImplementsContract ==
  ASSUME TypeOK, TypeOK', Exclusive, RunFail
  PROVE  [Contract!ContractNext]_(Contract!cvars)
<1>1. /\ UNCHANGED <<ingest, del, proc, arch>> /\ RowExists' = RowExists
      /\ StaysEmpty /\ fail.pc # "idle"
  <2>1. UNCHANGED <<proc, arch>> /\ fail.pc # "idle"
    BY DEF RunFail, FailFind, FailSave, FailClear, EnqueueFailedHook, FailRmSource,
           FailRmHls, FailThrow, FailFrame, FailAt
  <2> QED
    BY <2>1, FailShrinks
<1>2. Running' = Running /\ Destroying' = Destroying /\ Known' = Known
  BY <1>1 DEF Running, Destroying, At, ArchAt, Known
<1>3. CASE Bytes' = Bytes
  BY <1>2, <1>3 DEF Contract!cvars
<1>4. CASE Bytes' # Bytes
  <2>1. Bytes /\ ~Bytes'
    BY <1>1, <1>4, EmptyByFields DEF Bytes, StaysEmpty, NothingIn, TypeOK
  <2>2. Known = "kept"
    BY <1>1, <2>1 DEF Exclusive, RequestComesFirst, Reclamation, NoOrphanBytes, Purged,
       Bytes, Known
  <2>3. CASE Destroying
    BY <1>2, <2>1, <2>3 DEF Contract!ContractNext, Contract!Destroy
  <2>4. CASE ~Destroying
    <3>1. Running' \in BOOLEAN
      BY DEF Running
    <3>2. Bytes' = FALSE
      BY <2>1 DEF Bytes
    <3>3. Contract!Work
      BY <1>2, <2>2, <2>4, <3>1, <3>2 DEF Contract!Work
    <3> QED
      BY <3>3 DEF Contract!ContractNext
  <2> QED
    BY <2>3, <2>4
<1> QED
  BY <1>3, <1>4

LEMMA DeleteImplementsContract ==
  ASSUME TypeOK, TypeOK', Exclusive, Withdrawal', NEW d \in Purges,
         StartDelete(d) \/ ServeDelete(d)
  PROVE  Contract!ContractNext
<1>1. ingest = "accepted" /\ UNCHANGED <<ingest, proc, arch>>
  BY DeleteIsAsked, DeleteShape DEF Exclusive
<1>2. Running' = Running /\ (Destroying' => ~Running)
  BY <1>1, DestroyingIsAlone DEF Running, At, ArchAt, Withdrawal, WithdrawnIsAbsent,
     RunsHoldTheirJobs, HeldBy, Destroying
<1>3. CASE DelRow(d)
  <2>1. Destroying /\ ~RowExists' /\ UNCHANGED <<disk, bucket>>
    BY <1>3 DEF DelRow, DelAt, Destroying, DestroyPcs, RowExists, NoRow, DelFrame
  <2>2. ~Bytes
    BY <1>3, EmptyByFields DEF DelRow, DelAt, Exclusive, Reclamation,
       DestroyedStaysDestroyed, NothingIn, AfterPurgeHls, AfterPurgeDl,
       AfterPurgeArchive, AfterRmHls, AfterDelRmDl, AfterRmFlac, AfterRmSource,
       DestroyPcs, TypeOK, Bytes
  <2> QED
    BY <1>1, <1>2, <2>1, <2>2 DEF Contract!ContractNext, Contract!Forget, Known, Bytes,
       Destroying
<1>4. CASE ~DelRow(d)
  <2>1. Known' = Known /\ Known # "new"
    BY <1>1, <1>4 DEF Known, RowExists, StartDelete, ServeDelete, DelFind,
       GetTranscodeJob, CheckTranscodeJob, RemoveTranscodeJob, GetArchiveJob,
       CheckArchiveJob, RemoveArchiveJob, PurgeHls, PurgeDl, PurgeArchive, DelRmHls,
       DelRmDl, DelRmFlac, DelRmSource, DelRemove, DelClear, DelThrow, OnlyDel
  <2>2. CASE Bytes' = Bytes
    BY <1>2, <2>1, <2>2 DEF Contract!ContractNext, Contract!Close, Contract!GiveUp,
       Destroying
  <2>3. CASE Bytes' # Bytes
    <3>1. Bytes /\ ~Bytes'
      BY <2>3, DeleteShrinks, EmptyByFields DEF Bytes, StaysEmpty, NothingIn, TypeOK
    <3>2. del[d] \in DestroyPcs /\ del'[d] \in DestroyPcs
      BY <1>4, <3>1, DeleteGoesOn DEF Bytes
    <3> QED
      BY <1>2, <2>1, <3>1, <3>2 DEF Contract!ContractNext, Contract!Destroy, Destroying
  <2> QED
    BY <2>2, <2>3
<1> QED
  BY <1>3, <1>4

(* A death, a stalled check, an expired key: at most the run ends.          *)
LEMMA EnvironmentImplementsContract ==
  ASSUME TypeOK, Exclusive,
         \/ \E w \in Workers : Crash(w)
         \/ StallTranscode \/ StallArchive \/ ExpireProgress
  PROVE  [Contract!ContractNext]_(Contract!cvars)
<1>1. /\ UNCHANGED <<ingest, row, disk, bucket, del>>
      /\ ~Running => ~Running'
  BY DEF Crash, StallTranscode, StallArchive, ExpireProgress, Running, At, ArchAt,
         IdleProc, TypeOK
<1>2. Known' = Known /\ Bytes' = Bytes /\ Destroying' = Destroying
  BY <1>1 DEF Known, RowExists, Bytes, Destroying
<1>3. CASE Running
  <2>1. \E w \in Workers : HeldBy(tjob, w) \/ HeldBy(ajob, w)
    BY <1>3 DEF Running, Exclusive, Withdrawal, RunsHoldTheirJobs
  <2>2. RowExists /\ ~Destroying /\ ingest = "accepted"
    BY <2>1, RunningOnlyWhenKept
  <2> QED
    BY <1>1, <1>3, <2>2, WorkImplementsContract DEF RowExists
<1>4. CASE ~Running
  BY <1>1, <1>2, <1>4 DEF Contract!cvars, Running
<1> QED
  BY <1>3, <1>4

LEMMA StepImplementsContract ==
  ASSUME TypeOK, TypeOK', Exclusive, Withdrawal', [Next]_vars
  PROVE  [Contract!ContractNext]_(Contract!cvars)
<1>1. CASE UNCHANGED vars
  BY <1>1 DEF vars, Contract!cvars, Known, RowExists, Running, At, ArchAt, Destroying,
              Bytes
<1>2. CASE Next
  BY <1>2, IngestImplementsContract, RunsImplementContract, FailImplementsContract,
     DeleteImplementsContract, EnvironmentImplementsContract DEF Next
<1> QED
  BY <1>1, <1>2

LEMMA InitImplementsContract == Init => Contract!ContractInit
BY DEF Init, InitIngest, Contract!ContractInit, Known, RowExists, NoRow, Running, At,
       ArchAt, IdleProc, Destroying, DestroyPcs, Bytes

(* The whole pipeline keeps the contract of the deletion: it destroys only *)
(* what nobody holds and forgets only what has no bytes left                *)
(* (delete_transcode.ts:42-43, docs/adr/0008).                              *)
THEOREM DeletionKeepsItsContract ==
  ASSUME "lockLoss" \notin Faults, "quietErrors" \notin Faults
  PROVE  Spec => ReclaimsAsPromised
<1>1. Init => Exclusive
  BY WithdrawalInit, ReclamationInit, RequestInit DEF Exclusive
<1>2. TypeOK /\ TypeOK' /\ Exclusive /\ [Next]_vars => Exclusive'
  BY WithdrawalStep, ReclamationStep, RequestStep DEF Exclusive
<1>3. TypeOK /\ TypeOK' /\ Exclusive /\ Exclusive' /\ [Next]_vars
        => [Contract!ContractNext]_(Contract!cvars)
  BY StepImplementsContract DEF Exclusive
<1> QED
  BY <1>1, <1>2, <1>3, InitImplementsContract, TypeCorrect, PTL
     DEF Spec, ReclaimsAsPromised, Contract!ContractSpec
-------------------------------------------------------------------------------
(* How a Transcode ends. *)

LEMMA FailureInit == Init => FailureIsTerminal
BY DEF Init, FailureIsTerminal, NoFailure, NoRow, NoJob

(* A worker runs the transcode job only of a Transcode that has not failed. *)
LEMMA RunningHasNotFailed ==
  ASSUME TypeOK, Withdrawal, FailureIsTerminal, NEW w \in Workers,
         RunTranscode(w) \/ EncodeTick(w)
  PROVE  /\ ingest = "accepted"
         /\ tjob.state \in {"waiting", "active"}
         /\ fail.pc = "idle"
         /\ row.status # "FAILED"
<1>1. tjob.state = "waiting" \/ HeldBy(tjob, w)
  BY ProcessShape DEF Withdrawal, RunsHoldTheirJobs
<1> QED
  BY <1>1 DEF FailureIsTerminal, HeldBy

LEMMA SaveIsNotFailure ==
  ASSUME TypeOK, NEW w \in Workers, RunTranscode(w) \/ EncodeTick(w),
         row.status # "FAILED"
  PROVE  row'.status # "FAILED"
<1>1. CASE SaveProcessing(w) \/ SaveCompleted(w)
  BY <1>1 DEF SaveProcessing, SaveCompleted, SaveStatus, Updated, TypeOK, Rows
<1>2. CASE ~SaveProcessing(w) /\ ~SaveCompleted(w)
  BY <1>2 DEF RunTranscode, EncodeTick, TakeTranscode, FindOrFail, Checkpoint,
     Probe, StartProgress, StartEncode, FinishEncode, FailEncode,
     MeasureDownloads, PushHls, PushHlsRest, PushHlsThen, PushDl, PushDlRest,
     FinishProgress, EnqueueCompletedHook, EnqueueArchive, ProcThrow,
     CompleteTranscode, RejectTranscode, OnlyProc
<1> QED
  BY <1>1, <1>2

(* The listener is woken by the very failure that ends the job.            *)
LEMMA ListenerIsWokenOnce ==
  ASSUME TypeOK, NEW w \in Workers, RunTranscode(w) \/ EncodeTick(w)
  PROVE  fail' = fail \/ tjob'.state = "failed"
<1>1. CASE RejectTranscode(w)
  BY <1>1 DEF RejectTranscode, Failed, Terminal, TypeOK, Jobs
<1>2. CASE ~RejectTranscode(w)
  BY <1>2 DEF RunTranscode, EncodeTick, TakeTranscode, FindOrFail, Checkpoint,
     Probe, SaveProcessing, StartProgress, StartEncode, FinishEncode, FailEncode,
     MeasureDownloads, PushHls, PushHlsRest, PushHlsThen, PushDl, PushDlRest,
     SaveCompleted, FinishProgress, EnqueueCompletedHook, EnqueueArchive,
     ProcThrow, CompleteTranscode, OnlyProc
<1> QED
  BY <1>1, <1>2

LEMMA FailureStep ==
  ASSUME TypeOK, Withdrawal, FailureIsTerminal, [Next]_vars
  PROVE  FailureIsTerminal'
<1>1. CASE UNCHANGED vars
  BY <1>1 DEF vars, FailureIsTerminal
<1>2. CASE Ingest
  BY <1>2 DEF Ingest, SaveSource, CreateTranscode, EnqueueTranscode, RefuseIngest,
              IngestFrame, NoRow, FailureIsTerminal
<1>3. ASSUME NEW w \in Workers, RunTranscode(w) \/ EncodeTick(w)
      PROVE  FailureIsTerminal'
  BY <1>3, RunningHasNotFailed, SaveIsNotFailure, ListenerIsWokenOnce, ProcessFrame
     DEF FailureIsTerminal
<1>4. ASSUME NEW w \in Workers, RunArchive(w)
      PROVE  FailureIsTerminal'
  <2>1. UNCHANGED fail /\ row'.status = row.status
    BY <1>4 DEF RunArchive, TakeArchive, ArchFind, PushArchive, RecordArchive,
       ArchRmHls, ArchRmDl, ArchRmFlac, ArchRmSource, ArchRemove, ArchThrow,
       CompleteArchive, RejectArchive, ArchFrame, Updated, TypeOK, Rows
  <2> QED
    BY <1>4, <2>1, ArchiveFrame DEF FailureIsTerminal
<1>5. CASE RunFail
  <2>1. fail.pc # "idle" /\ UNCHANGED <<ingest, tjob>>
    BY <1>5 DEF RunFail, FailFind, FailSave, FailClear, EnqueueFailedHook,
       FailRmSource, FailRmHls, FailThrow, FailAt, FailFrame
  <2> QED
    BY <2>1 DEF FailureIsTerminal
<1>6. ASSUME NEW d \in Purges, StartDelete(d) \/ ServeDelete(d)
      PROVE  FailureIsTerminal'
  <2>1. UNCHANGED fail /\ (row' = row \/ row' = NoRow)
    BY <1>6 DEF StartDelete, ServeDelete, DelFind, GetTranscodeJob,
       CheckTranscodeJob, RemoveTranscodeJob, GetArchiveJob, CheckArchiveJob,
       RemoveArchiveJob, PurgeHls, PurgeDl, PurgeArchive, DelRmHls, DelRmDl,
       DelRmFlac, DelRmSource, DelRemove, DelClear, DelRow, DelThrow, OnlyDel,
       DelFrame
  <2> QED
    BY <1>6, <2>1, DeleteShape DEF FailureIsTerminal, NoRow, NoJob
<1>7. CASE \/ \E w \in Workers : Crash(w)
           \/ StallTranscode \/ StallArchive \/ ExpireProgress
  BY <1>7 DEF Crash, StallTranscode, TranscodeLockExpired, HeldBy, StallArchive,
              ExpireProgress, NoFailure, FailureIsTerminal
<1> QED
  BY <1>1, <1>2, <1>3, <1>4, <1>5, <1>6, <1>7 DEF Next

LEMMA FailedStep ==
  ASSUME TypeOK, Withdrawal, FailureIsTerminal, Next, row.status = "FAILED"
  PROVE  row'.status \in {"FAILED", "none"}
<1>1. CASE Ingest
  BY <1>1 DEF Ingest, SaveSource, CreateTranscode, EnqueueTranscode, RefuseIngest,
              FailureIsTerminal
<1>2. ASSUME NEW w \in Workers, RunTranscode(w) \/ EncodeTick(w) PROVE FALSE
  BY <1>2, RunningHasNotFailed
<1>3. ASSUME NEW w \in Workers, RunArchive(w) PROVE row'.status = row.status
  BY <1>3 DEF RunArchive, TakeArchive, ArchFind, PushArchive, RecordArchive,
     ArchRmHls, ArchRmDl, ArchRmFlac, ArchRmSource, ArchRemove, ArchThrow,
     CompleteArchive, RejectArchive, Updated, TypeOK, Rows
<1>4. CASE RunFail
  BY <1>4 DEF RunFail, FailFind, FailSave, FailClear, EnqueueFailedHook,
     FailRmSource, FailRmHls, FailThrow, Updated, TypeOK, Rows
<1>5. ASSUME NEW d \in Purges, StartDelete(d) \/ ServeDelete(d)
      PROVE  row' = row \/ row' = NoRow
  BY <1>5 DEF StartDelete, ServeDelete, DelFind, GetTranscodeJob,
     CheckTranscodeJob, RemoveTranscodeJob, GetArchiveJob, CheckArchiveJob,
     RemoveArchiveJob, PurgeHls, PurgeDl, PurgeArchive, DelRmHls, DelRmDl,
     DelRmFlac, DelRmSource, DelRemove, DelClear, DelRow, DelThrow, OnlyDel
<1>6. CASE \/ \E w \in Workers : Crash(w)
           \/ StallTranscode \/ StallArchive \/ ExpireProgress
  BY <1>6 DEF Crash, StallTranscode, StallArchive, ExpireProgress
<1> QED
  BY <1>1, <1>2, <1>3, <1>4, <1>5, <1>6 DEF Next, NoRow

(* FAILED gives way to the deletion and to nothing else: no retry, no late *)
(* save of a worker turns it back (transcode_worker.ts:59-77).              *)
THEOREM FailedStaysFailed ==
  ASSUME "lockLoss" \notin Faults
  PROVE  Spec => FailedIsFinal
<1>1. TypeOK /\ Withdrawal /\ [Next]_vars => Withdrawal'
  BY WithdrawalStep
<1>2. TypeOK /\ Withdrawal /\ FailureIsTerminal /\ [Next]_vars => FailureIsTerminal'
  BY FailureStep
<1>3. TypeOK /\ Withdrawal /\ FailureIsTerminal /\ [Next]_vars
        => [row.status = "FAILED" => row'.status \in {"FAILED", "none"}]_vars
  BY FailedStep
<1> QED
  BY <1>1, <1>2, <1>3, WithdrawalInit, FailureInit, TypeCorrect, PTL
     DEF Spec, FailedIsFinal

-------------------------------------------------------------------------------
(* What a caller is told, and the Source.  A run goes through its steps in  *)
(* order, and it is the only one: what follows the save of COMPLETED finds  *)
(* a published row, or none.                                                 *)

Published == row.published \/ ~RowExists
PublishedPcs == {"progress100", "hook", "archive", "return"}

(* Before its job is queued, a Transcode has its Source and nothing else.  *)
NothingIsEarly ==
  ingest # "accepted" =>
    /\ ajob.state = "none" /\ hooks = {}
    /\ ingest \in {"row", "job"} /\ ~input.remote => disk.source

PublishedFirst ==
  /\ \A w \in Workers : proc[w].pc \in PublishedPcs => Published
  /\ ajob.state # "none" => Published
  /\ fail.pc # "idle" /\ fail.published => Published
  /\ \A payload \in hooks : payload.downloads => Published

ToldFirst ==
  input.callback =>
    /\ \A w \in Workers : proc[w].pc \in {"archive", "return"} => Queued("COMPLETED")
    /\ tjob.state = "completed" => Queued("COMPLETED")

FailedIsSaved ==
  fail.pc \in {"clear", "hook", "rmSource", "rmHls"} \/ Queued("FAILED")
    => row.status \in {"FAILED", "none"}

Outcome == /\ NothingIsEarly /\ PublishedFirst /\ ToldFirst /\ FailedIsSaved
           /\ SourceOutlivesItsJob

LEMMA OutcomeInit == Init => Outcome
BY DEF Init, InitIngest, Outcome, NothingIsEarly, PublishedFirst, ToldFirst,
       FailedIsSaved, SourceOutlivesItsJob, MayRun, NoJob, IdleProc, PublishedPcs,
       NoFailure, Queued

(* What a run of ProcessTranscode does to what the outcome depends on. *)
LEMMA ProcessEffects ==
  ASSUME TypeOK, NEW w \in Workers, RunTranscode(w) \/ EncodeTick(w)
  PROVE  /\ UNCHANGED input
         /\ Published => Published'
         /\ \/ hooks' = hooks
            \/ /\ At(w, "hook")
               /\ hooks' = hooks \union {[status |-> "COMPLETED", downloads |-> TRUE]}
         /\ proc'[w].pc \in PublishedPcs => proc[w].pc \in PublishedPcs \/ Published'
         /\ proc'[w].pc \in {"archive", "return"} /\ input.callback
              => \/ At(w, "archive")
                 \/ hooks' = hooks \union {[status |-> "COMPLETED", downloads |-> TRUE]}
         /\ ajob' = ajob \/ At(w, "archive")
         /\ tjob'.state = "completed" => tjob.state = "completed" \/ At(w, "return")
         /\ MayRun(tjob') => MayRun(tjob)
         /\ fail' = fail \/ (fail'.pc = "find" /\ ~fail'.published)
<1> USE DEF TypeOK, ProcFrame, OnlyProc, Goes, At, Published, RowExists, PublishedPcs
<1>1. CASE TakeTranscode(w)
  BY <1>1 DEF TakeTranscode, Taken, MayRun
<1>2. CASE CompleteTranscode(w)
  BY <1>2 DEF CompleteTranscode, Completed, MayRun, HeldBy, Ends, IdleProc, Jobs
<1>3. CASE RejectTranscode(w)
  <2>1. /\ UNCHANGED <<input, row, hooks, ajob>> /\ proc'[w].pc = "idle"
        /\ fail' = fail \/ (fail'.pc = "find" /\ ~fail'.published)
    BY <1>3 DEF RejectTranscode, Ends, IdleProc, NoFailure
  <2>2. /\ tjob'.state = "completed" => tjob.state = "completed"
        /\ MayRun(tjob') => MayRun(tjob)
    BY <1>3 DEF RejectTranscode, Failed, HeldBy, MayRun, Jobs
  <2> QED
    BY <2>1, <2>2
<1>4. CASE SaveProcessing(w) \/ SaveCompleted(w)
  <2>1. /\ UNCHANGED <<input, hooks, ajob, tjob, fail>>
        /\ \/ proc' = [proc EXCEPT ![w] = [pc |-> "progress0", seen |-> "PROCESSING"]]
           \/ /\ proc' = [proc EXCEPT ![w] = [pc |-> "progress100", seen |-> "COMPLETED"]]
              /\ SaveCompleted(w)
    BY <1>4 DEF SaveProcessing, SaveCompleted
  <2>2. Published => Published'
    BY <1>4 DEF SaveProcessing, SaveCompleted, SaveStatus, Updated, Rows
  <2>3. SaveCompleted(w) => Published'
    <3> SUFFICES ASSUME SaveCompleted(w), RowExists PROVE row'.published
      BY DEF SaveCompleted, SaveStatus, Updated
    <3>1. row' = [row EXCEPT !.status = IF proc[w].seen = "COMPLETED" THEN @ ELSE "COMPLETED",
                             !.published = @ \/ TRUE]
      BY DEF SaveCompleted, SaveStatus, Updated
    <3>2. row'.published = (row.published \/ TRUE)
      BY <3>1 DEF Rows
    <3> QED
      BY <3>2
  <2> QED
    BY <2>1, <2>2, <2>3
<1>5. CASE EnqueueCompletedHook(w) \/ EnqueueArchive(w) \/ FinishProgress(w)
  BY <1>5 DEF EnqueueCompletedHook, EnqueueArchive, FinishProgress, AfterCompleted
<1>6. CASE FindOrFail(w) \/ Checkpoint(w) \/ Probe(w) \/ MeasureDownloads(w) \/ ProcThrow(w)
  BY <1>6 DEF FindOrFail, Checkpoint, Probe, AfterProbe, MeasureDownloads, ProcThrow
<1>7. CASE StartProgress(w) \/ StartEncode(w) \/ FinishEncode(w) \/ FailEncode(w) \/ EncodeTick(w)
  <2>1. UNCHANGED <<input, row, hooks, tjob, ajob, fail>>
    BY <1>7 DEF StartProgress, StartEncode, FinishEncode, FailEncode, EncodeTick
  <2>2. \/ proc' = proc /\ At(w, "encoding")
        \/ \E pc \in {"encode", "encoding", "thrown", "measure"} : Goes(w, pc)
    BY <1>7 DEF StartProgress, StartEncode, FinishEncode, FailEncode, EncodeTick
  <2> QED
    BY <2>1, <2>2
<1>8. CASE PushHls(w) \/ PushHlsRest(w) \/ PushDl(w) \/ PushDlRest(w)
  BY <1>8 DEF PushHls, PushHlsRest, PushHlsThen, PushDl, PushDlRest
<1> QED
  BY <1>1, <1>2, <1>3, <1>4, <1>5, <1>6, <1>7, <1>8 DEF RunTranscode

LEMMA QueuedCompleted ==
  ASSUME hooks' = hooks \union {[status |-> "COMPLETED", downloads |-> TRUE]}
  PROVE  /\ Queued("COMPLETED")' /\ (Queued("FAILED")' => Queued("FAILED"))
<1> DEFINE c == [status |-> "COMPLETED", downloads |-> TRUE]
<1>1. c \in hooks' /\ c.status = "COMPLETED"
  OBVIOUS
<1>2. \A payload \in hooks' : payload \in hooks \/ payload = c
  OBVIOUS
<1> HIDE DEF c
<1> QED
  BY <1>1, <1>2 DEF Queued

LEMMA ProcessOutcome ==
  ASSUME TypeOK, Withdrawal, FailureIsTerminal, Outcome, NEW w \in Workers,
         RunTranscode(w) \/ EncodeTick(w)
  PROVE  Outcome'
<1>1. /\ ingest = "accepted" /\ ingest' = ingest /\ fail.pc = "idle"
      /\ tjob.state \in {"waiting", "active"} /\ row.status # "FAILED"
      /\ RowExists' = RowExists
  BY RunningHasNotFailed, ProcessFrame
<1>2. NothingIsEarly'
  BY <1>1 DEF NothingIsEarly
<1>3. PublishedFirst'
  <2>1. Published => Published'
    BY ProcessEffects
  <2>2. At(w, "hook") => Published'
    BY <2>1 DEF Outcome, PublishedFirst, PublishedPcs, At
  <2>3. ASSUME NEW v \in Workers, proc'[v].pc \in PublishedPcs PROVE Published'
    <3>1. proc'[v].pc \in PublishedPcs => proc[v].pc \in PublishedPcs \/ Published'
      <4>1. CASE v = w
        BY <4>1, ProcessEffects
      <4>2. CASE v # w
        BY <4>2, ProcessFrame
      <4> QED
        BY <4>1, <4>2
    <3> QED
      BY <2>1, <2>3, <3>1 DEF Outcome, PublishedFirst
  <2>4. ajob'.state # "none" => Published'
    BY <2>1, ProcessEffects DEF Outcome, PublishedFirst, PublishedPcs, At
  <2>5. fail'.pc # "idle" /\ fail'.published => Published'
    BY <1>1, ProcessEffects
  <2>6. ASSUME NEW payload \in hooks', payload.downloads PROVE Published'
    BY <2>1, <2>2, <2>6, ProcessEffects DEF Outcome, PublishedFirst
  <2> QED
    BY <2>3, <2>4, <2>5, <2>6 DEF PublishedFirst, Published
<1>4. ToldFirst'
  <2> SUFFICES ASSUME input.callback
               PROVE  /\ \A v \in Workers :
                           proc'[v].pc \in {"archive", "return"} => Queued("COMPLETED")'
                      /\ tjob'.state = "completed" => Queued("COMPLETED")'
    BY ProcessEffects DEF ToldFirst
  <2>1. Queued("COMPLETED") => Queued("COMPLETED")'
    BY ProcessEffects DEF Queued
  <2>2. ASSUME NEW v \in Workers, proc'[v].pc \in {"archive", "return"}
        PROVE  Queued("COMPLETED")'
    <3>1. CASE v = w
      BY <2>1, <2>2, <3>1, ProcessEffects, QueuedCompleted DEF Outcome, ToldFirst, At
    <3>2. CASE v # w
      BY <2>1, <2>2, <3>2, ProcessFrame DEF Outcome, ToldFirst
    <3> QED
      BY <3>1, <3>2
  <2>3. tjob'.state = "completed" => Queued("COMPLETED")'
    BY <1>1, <2>1, ProcessEffects DEF Outcome, ToldFirst, At
  <2> QED
    BY <2>2, <2>3
<1>5. FailedIsSaved'
  <2>1. fail'.pc \in {"idle", "find"}
    BY <1>1, ProcessEffects
  <2>2. Queued("FAILED")' => Queued("FAILED")
    BY ProcessEffects, QueuedCompleted DEF Queued
  <2>3. Queued("FAILED") => ~RowExists
    BY <1>1 DEF Outcome, FailedIsSaved, RowExists
  <2> QED
    BY <1>1, <2>1, <2>2, <2>3 DEF FailedIsSaved, RowExists
<1>6. SourceOutlivesItsJob'
  <2>1. UNCHANGED input /\ disk'.source = disk.source
    BY ProcessWritesNoMaster
  <2>2. RowExists
    BY <1>1 DEF Withdrawal, OnlyKnownIsDeleted, Purged
  <2>3. ~row'.published => ~row.published
    BY <1>1, <2>2, ProcessEffects DEF Published
  <2>4. MayRun(tjob') => MayRun(tjob)
    BY ProcessEffects
  <2> QED
    BY <2>1, <2>3, <2>4 DEF Outcome, SourceOutlivesItsJob
<1> QED
  BY <1>2, <1>3, <1>4, <1>5, <1>6 DEF Outcome

(* A step that queues no webhook, starts no run and keeps the Source of a  *)
(* job that may run, where the row was published or deleted before.          *)
LEMMA OutcomeFrame ==
  ASSUME Outcome, ingest = "accepted", UNCHANGED <<input, ingest, hooks>>,
         Published => Published',
         \A w \in Workers : proc'[w].pc \in PublishedPcs => proc'[w] = proc[w],
         ajob'.state # "none" => ajob.state # "none",
         tjob'.state = "completed" => tjob.state = "completed",
         fail' = fail \/ fail'.pc = "idle",
         row.status \in {"FAILED", "none"} => row'.status \in {"FAILED", "none"},
         MayRun(tjob') /\ ~row'.published =>
           /\ MayRun(tjob) /\ ~row.published
           /\ disk.source => disk'.source
  PROVE  Outcome'
<1>1. NothingIsEarly'
  BY DEF NothingIsEarly
<1>2. PublishedFirst'
  BY DEF Outcome, PublishedFirst, Published
<1>3. ToldFirst'
  <2>1. Queued("COMPLETED") = Queued("COMPLETED")'
    BY DEF Queued
  <2> QED
    BY <2>1 DEF Outcome, ToldFirst, PublishedPcs
<1>4. FailedIsSaved'
  <2>1. Queued("FAILED") <=> Queued("FAILED")'
    BY DEF Queued
  <2> QED
    BY <2>1 DEF Outcome, FailedIsSaved
<1>5. SourceOutlivesItsJob'
  BY DEF Outcome, SourceOutlivesItsJob
<1> QED
  BY <1>1, <1>2, <1>3, <1>4, <1>5 DEF Outcome

LEMMA ArchiveOutcome ==
  ASSUME TypeOK, Withdrawal, Outcome, NEW w \in Workers, RunArchive(w)
  PROVE  Outcome'
<1>1. ajob.state # "none"
  BY ArchiveShape DEF Withdrawal, RunsHoldTheirJobs, HeldBy
<1>2. ingest = "accepted" /\ Published
  BY <1>1 DEF Outcome, NothingIsEarly, PublishedFirst
<1>3. UNCHANGED <<input, ingest, hooks, proc, tjob, fail>>
  BY DEF RunArchive, TakeArchive, ArchFind, PushArchive, RecordArchive, ArchRmHls,
     ArchRmDl, ArchRmFlac, ArchRmSource, ArchRemove, ArchThrow, CompleteArchive,
     RejectArchive, ArchFrame
<1>4. row'.status = row.status /\ row'.published = row.published
  BY DEF RunArchive, TakeArchive, ArchFind, PushArchive, RecordArchive, ArchRmHls,
     ArchRmDl, ArchRmFlac, ArchRmSource, ArchRemove, ArchThrow, CompleteArchive,
     RejectArchive, Updated, TypeOK, Rows
<1>5. MayRun(tjob) => row.published
  BY <1>2 DEF Withdrawal, OnlyKnownIsDeleted, Purged, Published, MayRun
<1> QED
  BY <1>1, <1>2, <1>3, <1>4, <1>5, OutcomeFrame DEF Published, RowExists

LEMMA FailOutcome ==
  ASSUME TypeOK, FailureIsTerminal, Outcome, RunFail
  PROVE  Outcome'
<1>1. fail.pc # "idle" /\ UNCHANGED <<input, ingest, tjob, ajob, proc>>
  BY DEF RunFail, FailFind, FailSave, FailClear, EnqueueFailedHook,
     FailRmSource, FailRmHls, FailThrow, FailAt, FailFrame
<1>2. ingest = "accepted" /\ tjob.state \in {"failed", "none"}
  BY <1>1 DEF FailureIsTerminal
<1>3. NothingIsEarly' /\ SourceOutlivesItsJob'
  BY <1>1, <1>2 DEF NothingIsEarly, SourceOutlivesItsJob, MayRun
<1>4. Published => Published'
  BY DEF RunFail, FailFind, FailSave, FailClear, EnqueueFailedHook,
     FailRmSource, FailRmHls, FailThrow, Updated, Published, RowExists, TypeOK, Rows
<1>5. /\ fail'.pc # "idle" /\ fail'.published => (fail.published \/ Published')
      /\ \/ hooks' = hooks
         \/ /\ FailAt("hook")
            /\ hooks' = hooks \union {[status |-> "FAILED", downloads |-> fail.published]}
  <2>1. CASE FailFind
    BY <2>1 DEF FailFind, NoFailure, Published, RowExists, TypeOK
  <2>2. CASE ~FailFind
    BY <2>2 DEF RunFail, FailSave, FailClear, EnqueueFailedHook, FailRmSource,
       FailRmHls, FailThrow, FailGoes, NoFailure, TypeOK
  <2> QED
    BY <2>1, <2>2
<1>6. PublishedFirst'
  <2>1. fail.published => Published'
    BY <1>1, <1>4 DEF Outcome, PublishedFirst
  <2>2. \A payload \in hooks' : payload.downloads => Published'
    BY <1>4, <1>5, <2>1 DEF Outcome, PublishedFirst
  <2> QED
    BY <1>1, <1>4, <1>5, <2>1, <2>2 DEF Outcome, PublishedFirst, Published
<1>7. ToldFirst'
  <2>1. Queued("COMPLETED") => Queued("COMPLETED")'
    BY <1>5 DEF Queued
  <2> QED
    BY <1>1, <2>1 DEF Outcome, ToldFirst
<1>8. FailedIsSaved'
  <2>1. row.status \in {"FAILED", "none"} => row'.status \in {"FAILED", "none"}
    BY DEF RunFail, FailFind, FailSave, FailClear, EnqueueFailedHook,
       FailRmSource, FailRmHls, FailThrow, Updated, TypeOK, Rows
  <2>2. FailSave => row'.status \in {"FAILED", "none"}
    BY DEF FailSave, Updated, RowExists, TypeOK, Rows
  <2>3. fail'.pc \in {"clear", "hook", "rmSource", "rmHls"}
          => FailSave \/ fail.pc \in {"clear", "hook", "rmSource", "rmHls"}
    <3>1. CASE FailFind
      BY <3>1 DEF FailFind, NoFailure, TypeOK
    <3>2. CASE FailClear \/ EnqueueFailedHook \/ FailRmSource \/ FailRmHls
      BY <3>2 DEF FailClear, EnqueueFailedHook, FailRmSource, FailRmHls, FailAt
    <3>3. CASE FailThrow
      BY <3>3 DEF FailThrow, FailGoes, NoFailure
    <3> QED
      BY <3>1, <3>2, <3>3 DEF RunFail
  <2>4. Queued("FAILED")' => Queued("FAILED") \/ fail.pc = "hook"
    BY <1>5 DEF Queued, FailAt
  <2> QED
    BY <2>1, <2>2, <2>3, <2>4 DEF Outcome, FailedIsSaved
<1> QED
  BY <1>3, <1>6, <1>7, <1>8 DEF Outcome

LEMMA DeleteOutcome ==
  ASSUME TypeOK, Withdrawal, Outcome, NEW d \in Purges, StartDelete(d) \/ ServeDelete(d)
  PROVE  Outcome'
<1> USE DEF StartDelete, ServeDelete, DelFind, GetTranscodeJob, CheckTranscodeJob,
            RemoveTranscodeJob, GetArchiveJob, CheckArchiveJob, RemoveArchiveJob,
            PurgeHls, PurgeDl, PurgeArchive, DelRmHls, DelRmDl, DelRmFlac,
            DelRmSource, DelRemove, DelClear, DelRow, DelThrow, OnlyDel
<1>1. UNCHANGED <<input, ingest, hooks, proc, fail>>
  BY DEF DelFrame
<1>2. row' = row \/ (row' = NoRow /\ DelAt(d, "row"))
  OBVIOUS
<1>3. disk'.source = disk.source \/ DelAt(d, "rmSource")
  BY DEF TypeOK, Disks
<1>4. ingest = "accepted"
  <2>1. DelAt(d, "idle") => IdIsKnown
    BY DEF DelAt, WithdrawTranscodePcs, WithdrawArchivePcs
  <2> QED
    BY <2>1 DEF IdIsKnown, Withdrawal, OnlyKnownIsDeleted
<1> HIDE DEF StartDelete, ServeDelete
<1>5. MayRun(tjob') => tjob' = tjob /\ row' = row /\ disk'.source = disk.source
  BY <1>2, <1>3, DeleteShape DEF MayRun, NoJob, Withdrawal, WithdrawnIsAbsent, DelAt, DestroyPcs
<1>6. Published => Published'
  BY <1>2 DEF Published, RowExists, NoRow
<1> QED
  BY <1>1, <1>2, <1>4, <1>5, <1>6, DeleteShape, OutcomeFrame DEF NoJob, NoRow

LEMMA IngestOutcome ==
  ASSUME TypeOK, Withdrawal, FailureIsTerminal, Outcome, Ingest
  PROVE  Outcome'
<1>1. ingest # "accepted" /\ UNCHANGED <<input, hooks, proc, ajob, fail>>
  BY DEF Ingest, SaveSource, CreateTranscode, EnqueueTranscode, RefuseIngest, IngestFrame
<1>2. /\ tjob.state = "none" /\ ajob.state = "none" /\ hooks = {} /\ fail.pc = "idle"
      /\ \A w \in Workers : At(w, "idle")
  BY <1>1 DEF FailureIsTerminal, Outcome, NothingIsEarly, Withdrawal, RunsHoldTheirJobs, HeldBy
<1>3. PublishedFirst' /\ ToldFirst' /\ FailedIsSaved'
  <2>1. tjob'.state # "completed"
    BY <1>2 DEF Ingest, SaveSource, CreateTranscode, EnqueueTranscode, RefuseIngest, Added, NoJob
  <2> QED
    BY <1>1, <1>2, <2>1 DEF PublishedFirst, ToldFirst, FailedIsSaved, PublishedPcs, At, Queued
<1>4. NothingIsEarly'
  BY <1>1, <1>2 DEF Ingest, SaveSource, CreateTranscode, EnqueueTranscode, RefuseIngest,
     Outcome, NothingIsEarly, TypeOK, Disks
<1>5. SourceOutlivesItsJob'
  BY <1>1, <1>2 DEF Ingest, SaveSource, CreateTranscode, EnqueueTranscode, RefuseIngest,
     Outcome, NothingIsEarly, SourceOutlivesItsJob, MayRun
<1> QED
  BY <1>3, <1>4, <1>5 DEF Outcome

LEMMA EnvironmentOutcome ==
  ASSUME TypeOK, Withdrawal, Outcome,
         \/ \E w \in Workers : Crash(w)
         \/ StallTranscode \/ StallArchive \/ ExpireProgress
  PROVE  Outcome'
<1>1. /\ UNCHANGED <<input, ingest, hooks, row, disk>>
      /\ \A v \in Workers : proc'[v] = proc[v] \/ proc'[v] = IdleProc
      /\ fail' = fail \/ fail'.pc = "idle"
  BY DEF Crash, StallTranscode, StallArchive, ExpireProgress, NoFailure, TypeOK
<1>2. /\ MayRun(tjob') => MayRun(tjob)
      /\ tjob'.state = "completed" => tjob.state = "completed"
      /\ ajob'.state # "none" => ajob.state # "none"
  BY DEF Crash, StallTranscode, TranscodeLockExpired, StallArchive, ArchiveLockExpired,
     ExpireProgress, Stalled, HeldBy, MayRun, TypeOK, Jobs
<1>3. CASE ingest = "accepted"
  BY <1>1, <1>2, <1>3, OutcomeFrame DEF IdleProc, PublishedPcs, Published, RowExists
<1>4. CASE ingest # "accepted"
  <2>1. hooks = {} /\ ajob.state = "none"
    BY <1>4 DEF Outcome, NothingIsEarly
  <2>2. NothingIsEarly'
    BY <1>1, <1>2, <1>4, <2>1 DEF Outcome, NothingIsEarly
  <2>3. PublishedFirst' /\ ToldFirst' /\ FailedIsSaved' /\ SourceOutlivesItsJob'
    BY <1>1, <1>2, <2>1 DEF Outcome, PublishedFirst, ToldFirst, FailedIsSaved, Queued,
       SourceOutlivesItsJob, IdleProc, PublishedPcs, Published, RowExists
  <2> QED
    BY <2>2, <2>3 DEF Outcome
<1> QED
  BY <1>3, <1>4

LEMMA OutcomeStep ==
  ASSUME TypeOK, Withdrawal, FailureIsTerminal, Outcome, [Next]_vars
  PROVE  Outcome'
<1>1. CASE UNCHANGED vars
  BY <1>1 DEF vars, Outcome, NothingIsEarly, PublishedFirst, Published, RowExists, ToldFirst,
     FailedIsSaved, Queued, SourceOutlivesItsJob, MayRun
<1>2. CASE Next
  BY <1>2, IngestOutcome, ProcessOutcome, FailOutcome, ArchiveOutcome, DeleteOutcome,
     EnvironmentOutcome DEF Next
<1> QED
  BY <1>1, <1>2

LEMMA OutcomeInvariant ==
  ASSUME "lockLoss" \notin Faults
  PROVE  Spec => []Outcome
<1>1. TypeOK /\ Withdrawal /\ [Next]_vars => Withdrawal'
  BY WithdrawalStep
<1>2. TypeOK /\ Withdrawal /\ FailureIsTerminal /\ [Next]_vars => FailureIsTerminal'
  BY FailureStep
<1>3. TypeOK /\ Withdrawal /\ FailureIsTerminal /\ Outcome /\ [Next]_vars => Outcome'
  BY OutcomeStep
<1> QED
  BY <1>1, <1>2, <1>3, WithdrawalInit, FailureInit, OutcomeInit, TypeCorrect, PTL DEF Spec

(* A webhook says how its Transcode ended, and no job completes without    *)
(* the COMPLETED its caller asked for, whatever fails, dies or is retried   *)
(* (process_transcode.ts:133, fail_transcode.ts:43).                        *)
THEOREM WebhooksAreTrue ==
  ASSUME "lockLoss" \notin Faults
  PROVE  Spec => []WebhooksTellTheOutcome
<1>1. Outcome => WebhooksTellTheOutcome
  BY DEF Outcome, PublishedFirst, Published, ToldFirst, FailedIsSaved, WebhooksTellTheOutcome
<1> QED
  BY <1>1, OutcomeInvariant, PTL

(* A job that may still have to encode an upload finds its Source.          *)
THEOREM SourceIsThere ==
  ASSUME "lockLoss" \notin Faults
  PROVE  Spec => []SourceOutlivesItsJob
<1>1. Outcome => SourceOutlivesItsJob
  BY DEF Outcome
<1> QED
  BY <1>1, OutcomeInvariant, PTL

-------------------------------------------------------------------------------
(* Success is announced only of what can be played and downloaded.  A run   *)
(* that encodes starts from a staging without a master playlist, one that   *)
(* pushes finds whole directories or none, and one that announces has        *)
(* pushed both.                                                              *)

EncodePcs == {"probe", "saveProcessing", "progress0", "encode", "encoding"}
PushPcs == {"measure", "pushHls", "pushHlsRest", "pushDl", "pushDlRest"}
UpPcs == {"saveCompleted"} \union PublishedPcs
HlsUpPcs == {"pushDl", "pushDlRest"} \union UpPcs

StagedFor(pc) ==
  /\ pc \in EncodePcs => disk.hls \in {"none", "part"}
  /\ pc \in PushPcs => disk.hls \in {"none", "whole"} /\ disk.dl \in {"none", "whole"}

UpFor(pc) ==
  /\ pc \in HlsUpPcs => bucket.hls = "whole"
  /\ pc \in UpPcs => bucket.dl = "whole"

NeverCut == disk.hls # "cut" /\ (disk.hls = "whole" => disk.dl # "part")

Publication ==
  /\ NeverCut
  /\ \A w \in Workers : StagedFor(proc[w].pc) /\ (~reclaim => UpFor(proc[w].pc))
  /\ AnnouncedIsServable
  /\ \A d \in Purges : del[d] \in AfterPurgeHls => reclaim

LEMMA PublicationInit == Init => Publication
BY DEF Init, Publication, NeverCut, StagedFor, UpFor, AnnouncedIsServable, Announced,
       Queued, IdleProc, NoFiles, NoRow, EncodePcs, PushPcs, UpPcs, HlsUpPcs,
       PublishedPcs, DestroyPcs, AfterPurgeHls

(* A step that starts no run, writes no staging, announces nothing and - as *)
(* long as no DELETE destroys - keeps what is in the bucket.                 *)
LEMMA PublicationFrame ==
  ASSUME Publication,
         \A w \in Workers : proc'[w] = proc[w] \/ proc'[w] = IdleProc,
         disk'.hls = disk.hls \/ disk'.hls = "none",
         disk'.dl = disk.dl \/ disk'.dl = "none",
         Announced' => Announced,
         reclaim => reclaim',
         reclaim' \/ (bucket'.hls = bucket.hls /\ bucket'.dl = bucket.dl),
         \A d \in Purges : del'[d] \in AfterPurgeHls => reclaim'
  PROVE  Publication'
<1>1. NeverCut'
  BY DEF Publication, NeverCut
<1>2. ASSUME NEW w \in Workers
      PROVE  (StagedFor(proc[w].pc) /\ (~reclaim => UpFor(proc[w].pc)))'
  <2>1. CASE proc'[w] = proc[w]
    BY <2>1 DEF Publication, StagedFor, UpFor
  <2>2. CASE proc'[w] = IdleProc
    BY <2>2 DEF IdleProc, StagedFor, UpFor, EncodePcs, PushPcs, UpPcs, HlsUpPcs,
                PublishedPcs
  <2> QED
    BY <2>1, <2>2
<1>3. AnnouncedIsServable'
  BY DEF Publication, AnnouncedIsServable, Servable
<1> QED
  BY <1>1, <1>2, <1>3 DEF Publication

(* The only worker that runs the transcode job: its own stage is all there *)
(* is to look at.                                                            *)
LEMMA OneRunAtATime ==
  ASSUME TypeOK, Withdrawal, NEW w \in Workers, RunTranscode(w) \/ EncodeTick(w)
  PROVE  \A v \in Workers \ {w} : At(v, "idle") /\ proc'[v] = proc[v]
<1>1. tjob.state = "waiting" \/ HeldBy(tjob, w)
  BY ProcessShape DEF Withdrawal, RunsHoldTheirJobs
<1> QED
  BY <1>1, ProcessFrame DEF Withdrawal, RunsHoldTheirJobs, HeldBy

LEMMA RunFrame ==
  ASSUME Publication, NEW w \in Workers,
         \A v \in Workers \ {w} : At(v, "idle") /\ proc'[v] = proc[v],
         UNCHANGED <<del, reclaim>>,
         NeverCut', StagedFor(proc[w].pc)', ~reclaim => UpFor(proc[w].pc)',
         AnnouncedIsServable'
  PROVE  Publication'
<1>1. ASSUME NEW v \in Workers \ {w} PROVE StagedFor(proc[v].pc)' /\ UpFor(proc[v].pc)'
  BY <1>1 DEF At, StagedFor, UpFor, EncodePcs, PushPcs, UpPcs, HlsUpPcs, PublishedPcs
<1> QED
  BY <1>1 DEF Publication

LEMMA ProcessPublication ==
  ASSUME "cutMaster" \notin Faults, TypeOK, Withdrawal, Publication,
         NEW w \in Workers, RunTranscode(w) \/ EncodeTick(w)
  PROVE  Publication'
<1> DEFINE pc == proc[w].pc
<1>1. \A v \in Workers \ {w} : At(v, "idle") /\ proc'[v] = proc[v]
  BY OneRunAtATime
<1>2. UNCHANGED <<del, reclaim>>
  BY DEF RunTranscode, EncodeTick, TakeTranscode, FindOrFail, Checkpoint, Probe,
     SaveProcessing, StartProgress, StartEncode, FinishEncode, FailEncode,
     MeasureDownloads, PushHls, PushHlsRest, PushHlsThen, PushDl, PushDlRest,
     SaveCompleted, FinishProgress, EnqueueCompletedHook, EnqueueArchive,
     ProcThrow, CompleteTranscode, RejectTranscode, OnlyProc, ProcFrame
<1> SUFFICES NeverCut' /\ StagedFor(pc)' /\ (~reclaim => UpFor(pc)') /\ AnnouncedIsServable'
  BY <1>1, <1>2, RunFrame
<1>3. NeverCut /\ StagedFor(pc) /\ (~reclaim => UpFor(pc)) /\ AnnouncedIsServable
  BY DEF Publication
<1>4. ASSUME UNCHANGED <<disk, bucket>>, Announced' => Announced \/ pc \in UpPcs,
             pc' \in EncodePcs => pc \in EncodePcs \/ ~MasterStaged,
             pc' \in PushPcs => pc \in PushPcs \/ MasterStaged,
             pc' \in HlsUpPcs => pc \in HlsUpPcs,
             pc' \in UpPcs => pc \in UpPcs
      PROVE  NeverCut' /\ StagedFor(pc)' /\ (~reclaim => UpFor(pc)') /\ AnnouncedIsServable'
  <2>1. NeverCut'
    BY <1>3, <1>4 DEF NeverCut
  <2>2. StagedFor(pc)'
    BY <1>3, <1>4 DEF StagedFor, NeverCut, MasterStaged, TypeOK, Disks, Extents
  <2>3. ~reclaim => UpFor(pc)'
    BY <1>3, <1>4 DEF UpFor
  <2>4. AnnouncedIsServable'
    BY <1>2, <1>3, <1>4 DEF AnnouncedIsServable, Servable, UpFor, HlsUpPcs
  <2> QED
    BY <2>1, <2>2, <2>3, <2>4
<1> USE DEF TypeOK, At, Goes
<1>5. CASE TakeTranscode(w) \/ FindOrFail(w) \/ Probe(w) \/ ProcThrow(w)
  BY <1>4, <1>5 DEF TakeTranscode, FindOrFail, Probe, AfterProbe, ProcThrow, OnlyProc,
     Announced, Queued, EncodePcs, PushPcs, UpPcs, HlsUpPcs, PublishedPcs
<1>6. CASE Checkpoint(w) \/ MeasureDownloads(w) \/ CompleteTranscode(w) \/ RejectTranscode(w)
  BY <1>4, <1>6 DEF Checkpoint, MeasureDownloads, CompleteTranscode, RejectTranscode, Ends,
     IdleProc, OnlyProc, Announced, Queued, EncodePcs, PushPcs, UpPcs, HlsUpPcs, PublishedPcs
<1>7. CASE StartProgress(w) \/ EncodeTick(w)
  BY <1>4, <1>7 DEF StartProgress, EncodeTick, Announced, Queued, EncodePcs, PushPcs, UpPcs,
     HlsUpPcs, PublishedPcs
<1>8. CASE SaveProcessing(w) \/ SaveCompleted(w)
  <2>1. CASE SaveProcessing(w)
    BY <1>4, <2>1 DEF SaveProcessing, SaveStatus, Updated, Rows, Announced, Queued,
       EncodePcs, PushPcs, UpPcs, HlsUpPcs, PublishedPcs
  <2>2. CASE SaveCompleted(w)
    BY <1>4, <2>2 DEF SaveCompleted, EncodePcs, PushPcs, UpPcs, HlsUpPcs, PublishedPcs
  <2> QED
    BY <1>8, <2>1, <2>2
<1>9. CASE FinishProgress(w) \/ EnqueueCompletedHook(w) \/ EnqueueArchive(w)
  BY <1>4, <1>9 DEF FinishProgress, AfterCompleted, EnqueueCompletedHook, EnqueueArchive,
     EncodePcs, PushPcs, UpPcs, HlsUpPcs, PublishedPcs
<1>10. CASE StartEncode(w) \/ FinishEncode(w) \/ FailEncode(w)
  <2>1. /\ UNCHANGED <<bucket, row, progress, hooks>>
        /\ pc' \in {"encoding", "thrown", "measure"}
    <3>1. /\ UNCHANGED <<bucket, row, progress, hooks>>
          /\ \E next \in {"encoding", "thrown", "measure"} :
               proc' = [proc EXCEPT ![w].pc = next]
      BY <1>10 DEF StartEncode, FinishEncode, FailEncode
    <3> QED
      BY <3>1
  <2>2. AnnouncedIsServable' /\ (~reclaim => UpFor(pc)')
    BY <1>2, <1>3, <2>1 DEF AnnouncedIsServable, Announced, Queued, Servable, UpFor, UpPcs,
       HlsUpPcs, PublishedPcs
  <2>3. ~MasterStaged
    BY <1>3, <1>10 DEF StartEncode, FinishEncode, FailEncode, StagedFor, EncodePcs, MasterStaged
  <2>4. NeverCut' /\ StagedFor(pc)'
    <3>1. CASE StartEncode(w)
      <4>1. pc' \in {"encoding", "thrown"} /\ disk.hls \in {"none", "part"}
        BY <1>3, <3>1 DEF StartEncode, StagedFor, EncodePcs
      <4>2. disk' = disk \/ \E flac \in Extents :
              disk' = [disk EXCEPT !.hls = "part", !.dl = "part", !.flac = flac]
        BY <2>3, <3>1 DEF StartEncode, Disks, Extents
      <4>3. disk'.hls \in {"none", "part"}
        BY <4>1, <4>2 DEF Disks
      <4> QED
        BY <4>1, <4>3 DEF NeverCut, StagedFor, EncodePcs, PushPcs
    <3>2. CASE FinishEncode(w)
      <4>1. ~EncodingElsewhere(w)
        BY <1>1 DEF EncodingElsewhere
      <4>2. pc' = "measure"
        BY <3>2 DEF FinishEncode
      <4>3. PICK flac : disk' = [disk EXCEPT !.hls = "whole", !.dl = "whole", !.flac = flac]
        BY <3>2, <4>1 DEF FinishEncode
      <4>4. disk'.hls = "whole" /\ disk'.dl = "whole"
        BY <4>3 DEF Disks
      <4> QED
        BY <4>2, <4>4 DEF NeverCut, StagedFor, EncodePcs, PushPcs
    <3>3. CASE FailEncode(w)
      BY <1>3, <3>3 DEF FailEncode, NeverCut, StagedFor, EncodePcs, PushPcs
    <3> QED
      BY <1>10, <3>1, <3>2, <3>3
  <2> QED
    BY <2>2, <2>4
<1>11. CASE PushHls(w) \/ PushHlsRest(w) \/ PushDl(w) \/ PushDlRest(w)
  <2>1. /\ UNCHANGED <<disk, row, progress, hooks>>
        /\ pc \in PushPcs /\ pc' \in PushPcs \union {"saveCompleted", "thrown"}
    BY <1>11 DEF PushHls, PushHlsRest, PushHlsThen, PushDl, PushDlRest, PushPcs
  <2>2. NeverCut' /\ StagedFor(pc)'
    BY <1>3, <2>1 DEF NeverCut, StagedFor, EncodePcs, PushPcs
  <2>3. /\ bucket.hls = "whole" => bucket'.hls = "whole"
        /\ bucket.dl = "whole" => bucket'.dl = "whole"
    BY <1>3, <1>11 DEF PushHls, PushHlsRest, PushHlsThen, PushDl, PushDlRest, SomePut, AllPut,
       StagedFor, PushPcs, Buckets
  <2>4. AnnouncedIsServable'
    BY <1>2, <1>3, <2>1, <2>3 DEF AnnouncedIsServable, Announced, Queued, Servable
  <2>5. ASSUME ~reclaim PROVE UpFor(pc)'
    <3>1. CASE PushHls(w)
      BY <3>1 DEF PushHls, UpFor, UpPcs, HlsUpPcs, PublishedPcs
    <3>2. CASE PushHlsRest(w)
      BY <1>3, <3>2 DEF PushHlsRest, PushHlsThen, AllPut, StagedFor, PushPcs, UpFor, UpPcs,
         HlsUpPcs, PublishedPcs, Buckets
    <3>3. CASE PushDl(w)
      BY <1>3, <2>3, <2>5, <3>3 DEF PushDl, UpFor, UpPcs, HlsUpPcs, PublishedPcs
    <3>4. CASE PushDlRest(w)
      BY <1>3, <2>3, <2>5, <3>4 DEF PushDlRest, AllPut, StagedFor, PushPcs, UpFor, UpPcs,
         HlsUpPcs, PublishedPcs, Buckets
    <3> QED
      BY <1>11, <3>1, <3>2, <3>3, <3>4
  <2> QED
    BY <2>2, <2>4, <2>5
<1> QED
  BY <1>5, <1>6, <1>7, <1>8, <1>9, <1>10, <1>11 DEF RunTranscode

LEMMA ArchivePublication ==
  ASSUME TypeOK, Publication, NEW w \in Workers, RunArchive(w)
  PROVE  Publication'
<1> USE DEF RunArchive, TakeArchive, ArchFind, PushArchive, RecordArchive, ArchRmHls,
            ArchRmDl, ArchRmFlac, ArchRmSource, ArchRemove, ArchThrow,
            CompleteArchive, RejectArchive
<1>1. UNCHANGED <<progress, hooks, proc, del, reclaim>>
  BY DEF ArchFrame
<1>2. row'.status = row.status
  BY DEF Updated, TypeOK, Rows
<1>3. /\ bucket'.hls = bucket.hls /\ bucket'.dl = bucket.dl
      /\ disk'.hls = disk.hls \/ disk'.hls = "none"
      /\ disk'.dl = disk.dl \/ disk'.dl = "none"
  BY DEF TypeOK, Buckets, Disks
<1> HIDE DEF RunArchive
<1> QED
  BY <1>1, <1>2, <1>3, PublicationFrame DEF Announced, Queued, Publication

LEMMA FailPublication ==
  ASSUME TypeOK, Publication, RunFail
  PROVE  Publication'
<1> USE DEF RunFail, FailFind, FailSave, FailClear, EnqueueFailedHook, FailRmSource,
            FailRmHls, FailThrow
<1>1. UNCHANGED <<bucket, proc, del, reclaim>>
  BY DEF FailFrame
<1>2. /\ row'.status = row.status \/ row'.status = "FAILED"
      /\ progress' = progress \/ progress' = "none"
      /\ \/ hooks' = hooks
         \/ hooks' = hooks \union {[status |-> "FAILED", downloads |-> fail.published]}
  BY DEF Updated, TypeOK, Rows
<1>3. /\ disk'.hls = disk.hls \/ disk'.hls = "none"
      /\ disk'.dl = disk.dl
  BY DEF TypeOK, Disks
<1> HIDE DEF RunFail
<1>4. Queued("COMPLETED")' => Queued("COMPLETED")
  BY <1>2 DEF Queued
<1>5. Announced' => Announced
  BY <1>2, <1>4 DEF Announced
<1> QED
  BY <1>1, <1>3, <1>5, PublicationFrame DEF Publication

LEMMA DeletePublication ==
  ASSUME TypeOK, Publication, NEW d \in Purges, StartDelete(d) \/ ServeDelete(d)
  PROVE  Publication'
<1> USE DEF StartDelete, ServeDelete, DelFind, GetTranscodeJob, CheckTranscodeJob,
            RemoveTranscodeJob, GetArchiveJob, CheckArchiveJob, RemoveArchiveJob,
            PurgeHls, PurgeDl, PurgeArchive, DelRmHls, DelRmDl, DelRmFlac,
            DelRmSource, DelRemove, DelClear, DelRow, DelThrow, OnlyDel
<1>1. UNCHANGED <<hooks, proc>> /\ (row' = row \/ row' = NoRow)
      /\ (progress' = progress \/ progress' = "none")
  BY DEF DelFrame
<1>2. /\ disk'.hls = disk.hls \/ disk'.hls = "none"
      /\ disk'.dl = disk.dl \/ disk'.dl = "none"
  BY DEF TypeOK, Disks
<1>3. reclaim => reclaim'
  OBVIOUS
<1>4. \/ PurgeHls(d) /\ reclaim'
      \/ PurgeDl(d) /\ reclaim
      \/ bucket'.hls = bucket.hls /\ bucket'.dl = bucket.dl
  BY DEF TypeOK, Buckets, Publication, AfterPurgeHls, DestroyPcs, DelAt
<1>5. del'[d] \in AfterPurgeHls => PurgeHls(d) \/ del[d] \in AfterPurgeHls
  BY DEF DelAt, DelGoes, AfterGetJob, AfterIsActive, AfterPurgeHls, DestroyPcs, TypeOK
<1>6. PurgeHls(d) => reclaim'
  OBVIOUS
<1> HIDE DEF StartDelete, ServeDelete, PurgeHls, PurgeDl
<1>7. \A e \in Purges : del'[e] \in AfterPurgeHls => reclaim'
  BY <1>3, <1>5, <1>6, DeleteShape DEF Publication
<1>8. Announced' => Announced
  BY <1>1 DEF Announced, Queued, NoRow
<1> QED
  BY <1>1, <1>2, <1>3, <1>4, <1>6, <1>7, <1>8, PublicationFrame

LEMMA IngestPublication ==
  ASSUME TypeOK, Publication, Ingest
  PROVE  Publication'
<1> USE DEF Ingest, SaveSource, CreateTranscode, EnqueueTranscode, RefuseIngest
<1>1. UNCHANGED <<bucket, progress, hooks, proc, del, reclaim>>
  BY DEF IngestFrame
<1>2. disk'.hls = disk.hls /\ disk'.dl = disk.dl
  BY DEF TypeOK, Disks
<1>3. row' = row \/ row'.status = "PENDING"
  BY DEF NoRow
<1> QED
  BY <1>1, <1>2, <1>3, PublicationFrame DEF Announced, Queued, Publication

LEMMA EnvironmentPublication ==
  ASSUME TypeOK, Publication,
         \/ \E w \in Workers : Crash(w)
         \/ StallTranscode \/ StallArchive \/ ExpireProgress
  PROVE  Publication'
<1>1. /\ UNCHANGED <<row, disk, bucket, hooks, del, reclaim>>
      /\ \A v \in Workers : proc'[v] = proc[v] \/ proc'[v] = IdleProc
      /\ progress' = progress \/ progress' = "none"
  BY DEF Crash, StallTranscode, StallArchive, ExpireProgress, TypeOK
<1> QED
  BY <1>1, PublicationFrame DEF Announced, Queued, Publication

LEMMA PublicationStep ==
  ASSUME "cutMaster" \notin Faults, TypeOK, Withdrawal, Publication, [Next]_vars
  PROVE  Publication'
<1>1. CASE UNCHANGED vars
  BY <1>1, PublicationFrame DEF vars, Announced, Queued, Publication
<1>2. CASE Next
  BY <1>2, IngestPublication, ProcessPublication, FailPublication, ArchivePublication,
     DeletePublication, EnvironmentPublication DEF Next
<1> QED
  BY <1>1, <1>2

(* Whatever announces success - row, progress at 100, webhook - a client   *)
(* can play and download until somebody deletes, through every failure,     *)
(* death and retry, as long as a failed ffmpeg leaves no master playlist    *)
(* (process_transcode.ts:108-112).                                          *)
THEOREM AnnouncedCanBePlayed ==
  ASSUME "lockLoss" \notin Faults, "cutMaster" \notin Faults
  PROVE  Spec => []AnnouncedIsServable
<1>1. TypeOK /\ Withdrawal /\ [Next]_vars => Withdrawal'
  BY WithdrawalStep
<1>2. TypeOK /\ Withdrawal /\ Publication /\ [Next]_vars => Publication'
  BY PublicationStep
<1>3. Publication => AnnouncedIsServable
  BY DEF Publication
<1> QED
  BY <1>1, <1>2, <1>3, WithdrawalInit, PublicationInit, TypeCorrect, PTL DEF Spec

-------------------------------------------------------------------------------
(* A clean shutdown.  Whoever holds a job runs it, so no lock expires.      *)

LEMMA DrainInitially == DrainInit => DrainInvariant
BY DEF DrainInit, Init, DrainInvariant, JobsAreRun, RestartsCostNothing, NoJob, HeldBy

(* A step keeps who holds a job running it, for a worker of its own and any *)
(* other, and finds no job stalled.                                         *)
LEMMA ProcessKeepsHold ==
  ASSUME TypeOK, NEW w \in Workers, RunTranscode(w) \/ EncodeTick(w)
  PROVE  /\ HeldBy(tjob', w) => ~At(w, "idle")'
         /\ \A v \in Workers \ {w} : HeldBy(tjob', v) => HeldBy(tjob, v)
         /\ \A v \in Workers : HeldBy(ajob', v) => HeldBy(ajob, v)
         /\ tjob'.stalls = tjob.stalls /\ (ajob' = ajob \/ ajob' = Added(ajob))
<1>1. CASE TakeTranscode(w)
  BY <1>1 DEF TakeTranscode, Taken, HeldBy, Goes, At, TypeOK, Jobs
<1>2. CASE CompleteTranscode(w) \/ RejectTranscode(w)
  BY <1>2 DEF CompleteTranscode, RejectTranscode, Completed, Failed, HeldBy, Ends,
              IdleProc, At, TypeOK, Jobs
<1>3. CASE ~TakeTranscode(w) /\ ~CompleteTranscode(w) /\ ~RejectTranscode(w)
  <2>1. tjob' = tjob /\ (ajob' = ajob \/ ajob' = Added(ajob))
    BY <1>3 DEF RunTranscode, EncodeTick, FindOrFail, Checkpoint, Probe,
         SaveProcessing, StartProgress, StartEncode, FinishEncode, FailEncode,
         MeasureDownloads, PushHls, PushHlsRest, PushHlsThen, PushDl, PushDlRest,
         SaveCompleted, FinishProgress, EnqueueCompletedHook,
         EnqueueArchive, ProcThrow, OnlyProc
  <2>2. ~At(w, "idle")'
    <3> USE DEF Goes, At, TypeOK
    <3>1. CASE FindOrFail(w) \/ Checkpoint(w) \/ Probe(w) \/ MeasureDownloads(w) \/ ProcThrow(w)
      BY <3>1 DEF FindOrFail, Checkpoint, Probe, AfterProbe, MeasureDownloads, ProcThrow
    <3>2. CASE SaveProcessing(w) \/ StartProgress(w) \/ SaveCompleted(w)
      <4>1. \/ proc' = [proc EXCEPT ![w] = [pc |-> "progress0", seen |-> "PROCESSING"]]
            \/ proc' = [proc EXCEPT ![w] = [pc |-> "progress100", seen |-> "COMPLETED"]]
            \/ proc' = [proc EXCEPT ![w].pc = "encode"]
        BY <3>2 DEF SaveProcessing, StartProgress, SaveCompleted
      <4> QED
        BY <4>1
    <3>3. CASE StartEncode(w) \/ EncodeTick(w)
      BY <3>3 DEF StartEncode, EncodeTick
    <3>4. CASE FinishEncode(w) \/ FailEncode(w)
      <4>1. Goes(w, "measure") \/ Goes(w, "thrown")
        BY <3>4 DEF FinishEncode, FailEncode
      <4> QED
        BY <4>1
    <3>5. CASE PushHls(w) \/ PushHlsRest(w) \/ PushDl(w) \/ PushDlRest(w)
      <4>1. \E pc \in {"thrown", "pushHlsRest", "pushDl", "pushDlRest", "saveCompleted"} :
              proc' = [proc EXCEPT ![w].pc = pc]
        BY <3>5 DEF PushHls, PushHlsRest, PushHlsThen, PushDl, PushDlRest
      <4> QED
        BY <4>1
    <3>6. CASE FinishProgress(w) \/ EnqueueCompletedHook(w) \/ EnqueueArchive(w)
      <4>1. \E pc \in {"thrown", "hook", "archive", "return"} :
              proc' = [proc EXCEPT ![w].pc = pc]
        BY <3>6 DEF FinishProgress, AfterCompleted, EnqueueCompletedHook, EnqueueArchive
      <4> QED
        BY <4>1
    <3> QED
      BY <1>3, <3>1, <3>2, <3>3, <3>4, <3>5, <3>6 DEF RunTranscode
  <2> QED
    BY <2>1, <2>2 DEF HeldBy, Added, NoJob
<1> QED
  BY <1>1, <1>2, <1>3

LEMMA ArchiveKeepsHold ==
  ASSUME TypeOK, NEW w \in Workers, RunArchive(w)
  PROVE  /\ HeldBy(ajob', w) => ~ArchAt(w, "idle")'
         /\ \A v \in Workers \ {w} : HeldBy(ajob', v) => HeldBy(ajob, v)
         /\ ajob'.stalls = ajob.stalls
<1>1. CASE TakeArchive(w)
  BY <1>1 DEF TakeArchive, Taken, HeldBy, ArchGoes, ArchAt, TypeOK, Jobs
<1>2. CASE CompleteArchive(w) \/ RejectArchive(w)
  BY <1>2 DEF CompleteArchive, RejectArchive, Completed, Failed, HeldBy, ArchGoes,
              ArchAt, TypeOK, Jobs
<1>3. CASE ~TakeArchive(w) /\ ~CompleteArchive(w) /\ ~RejectArchive(w)
  BY <1>3 DEF RunArchive, ArchFind, AfterFind, PushArchive, RecordArchive, ArchRmHls,
     ArchRmDl, AfterRmDl, ArchRmFlac, ArchRmSource, ArchRemove, ArchThrow, ArchGoes,
     ArchAt, HeldBy, TypeOK
<1> QED
  BY <1>1, <1>2, <1>3

(* A process that closes its Worker takes no job. *)
IdleWhenClosed ==
  \A w \in Workers : /\ phase[w] \in {"closingArchive", "gone"} => At(w, "idle")
                     /\ phase[w] = "gone" => ArchAt(w, "idle")
DrainTypeOK == TypeOK /\ phase \in [Workers -> Phases]

LEMMA DrainStep ==
  ASSUME "lockLoss" \notin Faults, DrainTypeOK, DrainInvariant, [DrainNext]_drainVars
  PROVE  DrainInvariant'
<1> SUFFICES JobsAreRun' /\ RestartsCostNothing' /\ IdleWhenClosed'
  BY DEF DrainInvariant, IdleWhenClosed
<1>1. JobsAreRun /\ RestartsCostNothing /\ IdleWhenClosed /\ TypeOK
  BY DEF DrainInvariant, IdleWhenClosed, DrainTypeOK
<1>2. CASE UNCHANGED drainVars
  BY <1>1, <1>2 DEF drainVars, vars, JobsAreRun, RestartsCostNothing, IdleWhenClosed,
     HeldBy, At, ArchAt
<1>3. ASSUME NEW w \in Workers, DrainRunTranscode(w)
      PROVE  JobsAreRun' /\ RestartsCostNothing' /\ IdleWhenClosed'
  <2>1. RunTranscode(w) /\ UNCHANGED <<phase, crashes>> /\ (At(w, "idle") => phase[w] = "up")
    BY <1>3 DEF DrainRunTranscode, SamePhases, MayTakeTranscode, PhaseIs, RunTranscode,
         TakeTranscode, FindOrFail, Checkpoint, Probe,
         SaveProcessing, StartProgress, StartEncode, FinishEncode, FailEncode,
         MeasureDownloads, PushHls, PushHlsRest, PushHlsThen, PushDl, PushDlRest,
         SaveCompleted, FinishProgress, EnqueueCompletedHook,
         EnqueueArchive, ProcThrow, CompleteTranscode, RejectTranscode, OnlyProc, ProcFrame
  <2>2. JobsAreRun'
    BY <1>1, <2>1, ProcessKeepsHold, ProcessFrame DEF JobsAreRun, At, ArchAt
  <2>3. RestartsCostNothing'
    BY <1>1, <2>1, ProcessKeepsHold DEF RestartsCostNothing, Added, NoJob
  <2>4. IdleWhenClosed'
    BY <1>1, <2>1, ProcessFrame DEF IdleWhenClosed, At, ArchAt
  <2> QED
    BY <2>2, <2>3, <2>4
<1>4. ASSUME NEW w \in Workers, DrainRunArchive(w)
      PROVE  JobsAreRun' /\ RestartsCostNothing' /\ IdleWhenClosed'
  <2>1. /\ RunArchive(w) /\ UNCHANGED <<phase, crashes>>
        /\ ArchAt(w, "idle") => phase[w] \in {"up", "closing"}
    BY <1>4 DEF DrainRunArchive, SamePhases, MayTakeArchive, RunArchive, TakeArchive,
         ArchFind, PushArchive, RecordArchive, ArchRmHls, ArchRmDl, ArchRmFlac,
         ArchRmSource, ArchRemove, ArchThrow, CompleteArchive, RejectArchive, ArchFrame
  <2>2. JobsAreRun'
    BY <1>1, <2>1, ArchiveKeepsHold, ArchiveFrame DEF JobsAreRun, At, ArchAt, HeldBy
  <2>3. RestartsCostNothing'
    BY <1>1, <2>1, ArchiveKeepsHold, ArchiveFrame DEF RestartsCostNothing
  <2>4. IdleWhenClosed'
    BY <1>1, <2>1, ArchiveFrame DEF IdleWhenClosed, At, ArchAt
  <2> QED
    BY <2>2, <2>3, <2>4
<1>5. ASSUME NEW w \in Workers, Dies(w)
      PROVE  JobsAreRun' /\ RestartsCostNothing' /\ IdleWhenClosed'
  <2>1. crashes' # 0
    BY <1>1, <1>5 DEF Dies, Crash, TypeOK
  <2>2. IdleWhenClosed'
    BY <1>1, <1>5 DEF Dies, Crash, PhaseGoes, DrainTypeOK, IdleWhenClosed, At, ArchAt,
                      IdleProc, TypeOK
  <2> QED
    BY <2>1, <2>2 DEF JobsAreRun, RestartsCostNothing
<1>6. ASSUME NEW w \in Workers, Terminate(w) \/ CloseTranscode(w) \/ Restart(w)
      PROVE  JobsAreRun' /\ RestartsCostNothing' /\ IdleWhenClosed'
  BY <1>1, <1>6 DEF Terminate, CloseTranscode, TranscodeClosed, Restart, PhaseIs, PhaseGoes,
     vars, DrainTypeOK, JobsAreRun, RestartsCostNothing, IdleWhenClosed, HeldBy, At, ArchAt
<1>7. ASSUME NEW w \in Workers, CloseArchive(w)
      PROVE  JobsAreRun' /\ RestartsCostNothing' /\ IdleWhenClosed'
  <2>1. At(w, "idle") /\ ArchAt(w, "idle") /\ UNCHANGED <<tjob, ajob, crashes>>
    BY <1>1, <1>7 DEF CloseArchive, ArchiveClosed, PhaseIs, IdleWhenClosed
  <2>2. \A v \in Workers : /\ At(v, "idle") <=> At(v, "idle")'
                           /\ ArchAt(v, "idle") <=> ArchAt(v, "idle")'
    BY <1>1, <1>7, <2>1 DEF CloseArchive, At, ArchAt, IdleProc, TypeOK
  <2>3. JobsAreRun' /\ RestartsCostNothing'
    BY <1>1, <2>1, <2>2 DEF JobsAreRun, RestartsCostNothing
  <2>4. IdleWhenClosed'
    BY <1>1, <1>7, <2>1, <2>2 DEF CloseArchive, PhaseGoes, DrainTypeOK, IdleWhenClosed
  <2> QED
    BY <2>3, <2>4
<1>8. CASE Others
  <2>1. UNCHANGED phase
    BY <1>8 DEF Others, SamePhases
  <2>2. CASE Ingest \/ RunFail \/ ExpireProgress
    <3>1. UNCHANGED <<proc, arch, ajob, crashes>> /\ (tjob' = tjob \/ tjob' = Added(tjob))
      BY <2>2 DEF Ingest, SaveSource, CreateTranscode, EnqueueTranscode, RefuseIngest,
         IngestFrame, RunFail, FailFind, FailSave, FailClear, EnqueueFailedHook,
         FailRmSource, FailRmHls, FailThrow, FailFrame, ExpireProgress
    <3> QED
      BY <1>1, <2>1, <3>1 DEF JobsAreRun, RestartsCostNothing, IdleWhenClosed, Added,
         NoJob, HeldBy, At, ArchAt
  <2>3. ASSUME NEW w \in Workers, EncodeTick(w)
        PROVE  JobsAreRun' /\ RestartsCostNothing' /\ IdleWhenClosed'
    BY <1>1, <2>1, <2>3 DEF EncodeTick, ProcFrame, JobsAreRun, RestartsCostNothing,
       IdleWhenClosed, HeldBy, At, ArchAt
  <2>4. ASSUME NEW d \in Purges, StartDelete(d) \/ ServeDelete(d)
        PROVE  JobsAreRun' /\ RestartsCostNothing' /\ IdleWhenClosed'
    <3>1. UNCHANGED crashes
      BY <2>4 DEF StartDelete, ServeDelete, DelFind, GetTranscodeJob,
         CheckTranscodeJob, RemoveTranscodeJob, GetArchiveJob, CheckArchiveJob,
         RemoveArchiveJob, PurgeHls, PurgeDl, PurgeArchive, DelRmHls, DelRmDl,
         DelRmFlac, DelRmSource, DelRemove, DelClear, DelRow, DelThrow, OnlyDel, DelFrame
    <3> QED
      BY <1>1, <2>1, <2>4, <3>1, DeleteShape DEF JobsAreRun, RestartsCostNothing,
         IdleWhenClosed, NoJob, HeldBy, At, ArchAt
  <2>5. CASE StallTranscode \/ StallArchive
    <3>1. crashes # 0 /\ UNCHANGED <<proc, arch, crashes>>
      BY <1>1, <2>5 DEF StallTranscode, TranscodeLockExpired, StallArchive,
         ArchiveLockExpired, JobsAreRun
    <3> QED
      BY <1>1, <2>1, <3>1 DEF JobsAreRun, RestartsCostNothing, IdleWhenClosed, At, ArchAt
  <2> QED
    BY <1>8, <2>2, <2>3, <2>4, <2>5 DEF Others
<1> QED
  BY <1>2, <1>3, <1>4, <1>5, <1>6, <1>7, <1>8 DEF DrainNext, Drain

(* Every step beside a shutdown is one of the pipeline; those of a shutdown *)
(* keep every variable in its type.                                          *)
LEMMA DrainTypeStep == DrainTypeOK /\ [DrainNext]_drainVars => DrainTypeOK'
<1> SUFFICES ASSUME DrainTypeOK, [DrainNext]_drainVars PROVE DrainTypeOK'
  OBVIOUS
<1>1. phase' \in [Workers -> Phases]
  BY DEF DrainTypeOK, DrainNext, drainVars, DrainRunTranscode, DrainRunArchive, Dies,
     Terminate, Drain, CloseTranscode, CloseArchive, Restart, Others, SamePhases,
     PhaseGoes, Phases
<1>2. TypeOK'
  <2>1. CASE Next \/ UNCHANGED vars
    BY <2>1, TypeOKIsKept DEF DrainTypeOK
  <2>2. ASSUME NEW w \in Workers, CloseArchive(w) PROVE TypeOK'
    BY <2>2 DEF CloseArchive, DrainTypeOK, TypeOK, IdleProc, ProcPcs, Statuses, ArchPcs,
       NoFailure, FailPcs
  <2>3. \/ Next \/ UNCHANGED vars
        \/ \E w \in Workers : CloseArchive(w)
    BY DEF DrainNext, drainVars, DrainRunTranscode, DrainRunArchive, Dies, Terminate,
       Drain, CloseTranscode, Restart, Others, Next
  <2> QED
    BY <2>1, <2>2, <2>3
<1> QED
  BY <1>1, <1>2 DEF DrainTypeOK

(* A clean shutdown costs no job anything, whatever a process is told to   *)
(* stop in the middle of, for any number of processes and shutdowns         *)
(* (transcode_worker.ts:119-123).                                           *)
THEOREM ShutdownsCostNothing ==
  ASSUME "lockLoss" \notin Faults
  PROVE  DrainSpec => []RestartsCostNothing
<1>1. DrainInit => DrainTypeOK
  BY InitType DEF DrainInit, DrainTypeOK, Phases
<1>2. DrainTypeOK /\ DrainInvariant /\ [DrainNext]_drainVars => DrainInvariant'
  BY DrainStep
<1>3. DrainInvariant => RestartsCostNothing
  BY DEF DrainInvariant
<1> QED
  BY <1>1, <1>2, <1>3, DrainInitially, DrainTypeStep, PTL DEF DrainSpec
===============================================================================
