--------------------------- MODULE ArchiveTranscode ---------------------------
(***************************************************************************)
(* The archive Worker's processor (commands/transcode_worker.ts) and       *)
(* ArchiveTranscode.execute (archive_transcode.ts): push the FLAC of an    *)
(* upload, record its key, then clear the local staging and the Source.    *)
(* Its failures are only logged.                                            *)
(***************************************************************************)
EXTENDS TranscodeState

ArchFrame == <<input, ingest, progress, tjob, hooks, proc, fail, del, reclaim, crashes>>

ArchAt(w, pc) == arch[w] = pc
ArchGoes(w, pc) == arch' = [arch EXCEPT ![w] = pc]

TakeArchive(w) ==
  /\ ajob.state = "waiting"
  /\ ArchAt(w, "idle")
  /\ ajob' = Taken(ajob, w)
  /\ ArchGoes(w, IF Doomed(ajob) THEN "fatal" ELSE "find")
  /\ UNCHANGED <<ArchFrame, row, disk, bucket>>

(* Faulty: the local files go, and no archive was pushed. *)
RemoveOnly == "rmHls"

AfterFind == IF input.remote THEN "rmHls" ELSE "push"

ArchFind(w) ==
  /\ ArchAt(w, "find")
  /\ ArchGoes(w, IF RowExists THEN AfterFind ELSE "return")
  /\ UNCHANGED <<ArchFrame, row, disk, bucket, ajob>>

(* uploadFile reads the FLAC first: ENOENT throws. *)
PushArchive(w) ==
  /\ ArchAt(w, "push")
  /\ IF disk.flac = "none"
     THEN ArchGoes(w, "thrown") /\ UNCHANGED bucket
     ELSE /\ ArchGoes(w, "record")
          /\ bucket' = [bucket EXCEPT !.archive = disk.flac]
  /\ UNCHANGED <<ArchFrame, row, disk, ajob>>

RecordArchive(w) ==
  /\ ArchAt(w, "record")
  /\ ArchGoes(w, "rmHls")
  /\ row' = Updated([row EXCEPT !.archived = TRUE])
  /\ UNCHANGED <<ArchFrame, disk, bucket, ajob>>

(* rm with force: what is not there is no error. *)
ArchRemove(w, pc, next, left) ==
  /\ ArchAt(w, pc)
  /\ ArchGoes(w, next)
  /\ disk' = left
  /\ UNCHANGED <<ArchFrame, row, bucket, ajob>>

ArchRmHls(w) == ArchRemove(w, "rmHls", "rmDl", [disk EXCEPT !.hls = "none"])

AfterRmDl == IF input.remote THEN "return" ELSE "rmFlac"

(* Faulty: the staging of the download renditions is forgotten. *)
ArchKeepDl(w) == ArchRemove(w, "rmDl", AfterRmDl, disk)

ArchRmDl(w) == ArchRemove(w, "rmDl", AfterRmDl, [disk EXCEPT !.dl = "none"])
ArchRmFlac(w) == ArchRemove(w, "rmFlac", "rmSource", [disk EXCEPT !.flac = "none"])
ArchRmSource(w) == ArchRemove(w, "rmSource", "return", [disk EXCEPT !.source = FALSE])

ArchThrow(w) ==
  /\ \/ "db" \in Faults /\ arch[w] \in {"find", "record"}
     \/ "rustfs" \in Faults /\ arch[w] = "push"
     \/ "disk" \in Faults /\ arch[w] \in {"push", "rmHls", "rmDl", "rmFlac", "rmSource"}
  /\ ArchGoes(w, "thrown")
  /\ UNCHANGED <<ArchFrame, row, disk, bucket, ajob>>

CompleteArchive(w) ==
  /\ ArchAt(w, "return")
  /\ ajob' = IF HeldBy(ajob, w) THEN Completed(ajob) ELSE ajob
  /\ ArchGoes(w, "idle")
  /\ UNCHANGED <<ArchFrame, row, disk, bucket>>

RejectArchive(w) ==
  /\ arch[w] \in {"thrown", "fatal"}
  /\ ajob' = IF HeldBy(ajob, w)
             THEN Failed(ajob, ArchiveAttempts, ArchAt(w, "fatal")) ELSE ajob
  /\ ArchGoes(w, "idle")
  /\ UNCHANGED <<ArchFrame, row, disk, bucket>>

RunArchive(w) ==
  \/ TakeArchive(w) \/ ArchFind(w) \/ PushArchive(w) \/ RecordArchive(w)
  \/ ArchRmHls(w) \/ ArchRmDl(w) \/ ArchRmFlac(w) \/ ArchRmSource(w)
  \/ ArchThrow(w) \/ CompleteArchive(w) \/ RejectArchive(w)
===============================================================================
