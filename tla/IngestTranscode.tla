--------------------------- MODULE IngestTranscode ---------------------------
(***************************************************************************)
(* POST /upload and POST /transcodes (upload_file_controller.ts,           *)
(* ingest_url_controller.ts): land the Source if it was uploaded, create   *)
(* the PENDING row, queue the transcode job, answer 202.                    *)
(***************************************************************************)
EXTENDS TranscodeState

IngestFrame == <<input, bucket, progress, ajob, hooks, proc, arch, fail, del,
                 reclaim, crashes>>

InitIngest ==
  /\ input \in Inputs
  /\ ingest = IF input.remote THEN "row" ELSE "source"

(* sourceStore.save: the upload lands under its id. *)
SaveSource ==
  /\ ingest = "source"
  /\ ingest' = "row"
  /\ disk' = [disk EXCEPT !.source = TRUE]
  /\ UNCHANGED <<IngestFrame, row, tjob>>

CreateTranscode ==
  /\ ingest = "row"
  /\ ingest' = "job"
  /\ row' = [NoRow EXCEPT !.status = "PENDING"]
  /\ UNCHANGED <<IngestFrame, disk, tjob>>

EnqueueTranscode ==
  /\ ingest = "job"
  /\ ingest' = "accepted"
  /\ tjob' = Added(tjob)
  /\ UNCHANGED <<IngestFrame, row, disk>>

(* The request answers 500, or never, and nothing is undone: what it did stays.  *)
RefuseIngest ==
  /\ \/ ingest = "source" /\ "disk" \in Faults
     \/ ingest = "row" /\ "db" \in Faults
     \/ ingest = "job" /\ "redis" \in Faults
     \/ ingest \in {"source", "row", "job"} /\ "httpCrash" \in Faults
  /\ ingest' = "refused"
  /\ UNCHANGED <<IngestFrame, row, disk, tjob>>

(* The client may delete once it knows the id: it was told, or the job is  *)
(* queued and the ops endpoint lists it.                                    *)
IdIsKnown == ingest = "accepted"

Ingest == SaveSource \/ CreateTranscode \/ EnqueueTranscode \/ RefuseIngest
===============================================================================
