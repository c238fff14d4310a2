------------------------------ MODULE StatusRead ------------------------------
(***************************************************************************)
(* What a client is told of the Transcode: the payloads that the worker    *)
(* pushes (transcode_publisher.ts, to the SSE channel and to the ops       *)
(* firehose alike) and the answers of GET /transcodes/:id/status, which    *)
(* reads the row and then the progress key.  Both are added to the steps   *)
(* of the pipeline, which they never disturb.                               *)
(*                                                                         *)
(* A push may reach its client late or never.  "since" holds the last one  *)
(* that was sent when a poll began, whether the client has heard it or not: *)
(* what is true of that poll is true of every poll begun on hearing it.     *)
(***************************************************************************)
EXTENDS TranscodeProperties

VARIABLES
  pushed,  \* the last payload that was broadcast
  poll     \* a status request of a client

readVars == <<vars, pushed, poll>>

-------------------------------------------------------------------------------
(* The one shape of a payload: the status, and a percentage or null.        *)
NoView == [status |-> "none", progress |-> "none"]

(* progressFromStatus: PENDING is 0, COMPLETED is 100, the rest null.       *)
ProgressFromStatus(status) ==
  CASE status = "PENDING"   -> "live"
    [] status = "COMPLETED" -> "done"
    [] OTHER                -> "none"

(* TranscodeTransformer: the live value if there is one, else the derived. *)
View(status, live) ==
  [status   |-> status,
   progress |-> IF live = "none" THEN ProgressFromStatus(status) ELSE live]

(* broadcast follows the progress key: set to 0, at every tick of the      *)
(* encode, set to 100, and cleared by FailTranscode.                        *)
PushedAt(completion, failure) ==
  IF \E w \in Workers : StartProgress(w) \/ EncodeTick(w)
    THEN View("PROCESSING", "live")
  ELSE IF completion THEN View("COMPLETED", "done")
  ELSE IF failure THEN View("FAILED", "none")
  ELSE pushed

(* Faulty: the end is pushed as soon as the objects are up. *)
PushedBeforeSaved == PushedAt(\E w \in Workers : PushDlRest(w), FailClear)

(* Faulty: a failure is not pushed. *)
SuccessOnly == PushedAt(\E w \in Workers : FinishProgress(w), FALSE)

Broadcast == PushedAt(\E w \in Workers : FinishProgress(w), FailClear)

PipelineStep ==
  /\ Next
  /\ pushed' = Broadcast
  /\ UNCHANGED poll

-------------------------------------------------------------------------------
IdlePoll == [pc |-> "idle", since |-> NoView, status |-> "none"]

StartPoll ==
  /\ poll.pc = "idle"
  /\ IdIsKnown
  /\ poll' = [IdlePoll EXCEPT !.pc = "find", !.since = pushed]
  /\ UNCHANGED <<vars, pushed>>

(* FindTranscode.execute: an absent row is the answer 404. *)
FindTranscode ==
  /\ poll.pc = "find"
  /\ poll' = IF RowExists
             THEN [poll EXCEPT !.pc = "progress", !.status = row.status]
             ELSE IdlePoll
  /\ UNCHANGED <<vars, pushed>>

(* What the request answers if it reads the progress key now.               *)
Answer == View(poll.status, progress)

(* The answer; or the read throws and the request fails with a 500.         *)
GetProgress ==
  /\ poll.pc = "progress"
  /\ poll' = IdlePoll
  /\ UNCHANGED <<vars, pushed>>

StatusInit == Init /\ pushed = NoView /\ poll = IdlePoll
StatusNext == PipelineStep \/ StartPoll \/ FindTranscode \/ GetProgress
StatusSpec == StatusInit /\ [][StatusNext]_readVars /\ Fairness

-------------------------------------------------------------------------------
Terminals == {"COMPLETED", "FAILED"}

(* One contract for both channels (CONTEXT.md, "exactement la même charge  *)
(* utile que le poll"): a poll begun after a payload was pushed is never   *)
(* behind it.  After an end it answers that very payload, although it      *)
(* reads row and progress at two moments and the key may expire between;   *)
(* after a tick it no longer answers PENDING.                               *)
PollKeepsUp ==
  poll.pc = "progress" =>
    /\ poll.since.status \in Terminals => Answer = poll.since
    /\ poll.since.status = "PROCESSING" => poll.status # "PENDING"

(* Every accepted Transcode has its end pushed to whoever listens, unless  *)
(* a DELETE began to destroy it.                                            *)
OutcomeIsPushed ==
  ingest = "accepted" ~> reclaim \/ pushed.status \in Terminals
===============================================================================
