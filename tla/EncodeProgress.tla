---------------------------- MODULE EncodeProgress ----------------------------
(***************************************************************************)
(* How ffmpeg's report becomes the percentage of a Transcode: ffmpeg       *)
(* writes lines to its stdout, Node hands them over in chunks cut anywhere *)
(* (ffmpeg_transcoder.ts), the callback of ProcessTranscode sends a Redis  *)
(* SET for each percent gained without awaiting it, and the SETs of 0 and  *)
(* 100 and the DEL of FailTranscode, which are awaited, follow over the    *)
(* same connection, which keeps their order (progress_store.ts).            *)
(*                                                                         *)
(* One Transcode, the attempts of one worker process.  The pipeline takes  *)
(* the percentage for none, some or all; here is what lies in between.      *)
(* Text is a sequence of symbols, and numbers have two digits at most.      *)
(***************************************************************************)
EXTENDS Integers, Sequences, SequencesExt

CONSTANTS
  Digits,        \* the digits that occur in a time
  Duration,      \* the probed duration, in the unit of out_time_us
  MaxLines,      \* bound: lines ffmpeg writes in one encode
  MaxAttempts    \* attempts of the job (transcode_queue.ts: 3)

ASSUME DigitsAreDigits == Digits \subseteq 0..9
ASSUME DurationIsPositive == Duration \in Nat \ {0}
ASSUME MaxLinesIsNat == MaxLines \in Nat
ASSUME MaxAttemptsIsPositive == MaxAttempts \in Nat \ {0}

VARIABLES
  probed,    \* did ffprobe find a duration?
  pc,        \* where the run of ProcessTranscode, or the listener, stands
  attempt,   \* which attempt it is
  staged,    \* is a whole encode staged?  (the checkpoint)
  written,   \* history: the lines ffmpeg wrote in this encode
  pipe,      \* what of them was not read yet
  buffer,    \* the text after the last newline read
  lines,     \* the complete lines the data handler is still going through
  last,      \* lastPercent
  sent,      \* history: how many SETs the callback sent in this encode
  commands,  \* Redis commands sent, not executed yet
  key        \* the progress key

textVars == <<written, pipe, buffer, lines>>
vars == <<probed, pc, attempt, staged, textVars, last, sent, commands, key>>

Absent == -1   \* no progress key
Full == 100

(* "failing": the failed listener runs, before its DEL; "failed": it has   *)
(* cleared the key; "ended": it could not.                                  *)
Pcs == {"start", "set0", "encoding", "pushing", "set100", "enqueuing",
        "completed", "failing", "clearing", "failed", "ended"}

-------------------------------------------------------------------------------
(* Text. *)

NL == 10        \* the newline
TimeKey == 11   \* "out_time_us="
Words == 12     \* any other text, the "N/A" of a time not known yet included

Lines ==
  {<<TimeKey, d>> : d \in Digits} \union {<<TimeKey, d, e>> : d, e \in Digits}
    \union {<<TimeKey, Words>>, <<Words>>}

(* The text ends its first line at i; its last line ends at i, or none does. *)
FirstEndsAt(text, i) == text[i] = NL /\ \A k \in 1..(i - 1) : text[k] # NL
LastEndsAt(text, i) ==
  /\ i > 0 => text[i] = NL
  /\ \A k \in (i + 1)..Len(text) : text[k] # NL

(* /^out_time_us=(\d+)/ *)
Matches(line) == Len(line) > 1 /\ line[1] = TimeKey /\ line[2] \in 0..9
TimeOf(line) ==
  IF Len(line) > 2 /\ line[3] \in 0..9 THEN 10 * line[2] + line[3] ELSE line[2]

(* Faulty: ffmpeg may pass the probed duration. *)
Uncapped(percent) == percent

Capped(percent) == IF percent > 99 THEN 99 ELSE percent

PercentOf(line) == Capped((100 * TimeOf(line)) \div Duration)

-------------------------------------------------------------------------------
Init ==
  /\ probed \in BOOLEAN
  /\ pc = "start" /\ attempt = 1 /\ staged = FALSE
  /\ written = <<>> /\ pipe = <<>> /\ buffer = <<>> /\ lines = <<>>
  /\ last = 0 /\ sent = 0
  /\ commands = <<>> /\ key = Absent

Send(percent, awaited) ==
  commands' = Append(commands, [percent |-> percent, awaited |-> awaited])

(* A staged encode is not done again, and the key is left as it is. *)
Start ==
  /\ pc = "start"
  /\ IF staged
     THEN pc' = "pushing" /\ UNCHANGED commands
     ELSE pc' = "set0" /\ Send(0, TRUE)
  /\ UNCHANGED <<probed, attempt, staged, textVars, last, sent, key>>

-------------------------------------------------------------------------------
(* The encode. *)

Write ==
  /\ pc = "encoding"
  /\ Len(written) < MaxLines
  /\ \E line \in Lines : /\ written' = Append(written, line)
                         /\ pipe' = pipe \o Append(line, NL)
  /\ UNCHANGED <<probed, pc, attempt, staged, buffer, lines, last, sent, commands, key>>

(* Faulty: what follows the last newline is dropped. *)
Forgotten(rest) == <<>>

Kept(rest) == rest

(* A data event: buffer.split('\n') parts the lines that are complete from *)
(* the rest.  The handler then goes through the lines without a pause.      *)
Read ==
  /\ pc = "encoding" /\ lines = <<>>
  /\ \E n \in 1..Len(pipe) :
       LET text == buffer \o SubSeq(pipe, 1, n) IN
       /\ \E end \in 0..Len(text) :
            /\ LastEndsAt(text, end)
            /\ lines' = SubSeq(text, 1, end)
            /\ buffer' = Kept(SubSeq(text, end + 1, Len(text)))
       /\ pipe' = SubSeq(pipe, n + 1, Len(pipe))
  /\ UNCHANGED <<probed, pc, attempt, staged, written, last, sent, commands, key>>

(* Faulty: every report that differs is sent. *)
Differs(percent) == percent # last
(* Faulty: every report is sent that does not fall behind. *)
NotBehind(percent) == percent >= last

Gained(percent) == percent > last

OnLine ==
  /\ \E end \in 1..Len(lines) :
       /\ FirstEndsAt(lines, end)
       /\ lines' = SubSeq(lines, end + 1, Len(lines))
       /\ LET line == SubSeq(lines, 1, end - 1)
              percent == PercentOf(line) IN
          IF Matches(line) /\ probed /\ Gained(percent)
          THEN /\ last' = percent
               /\ sent' = sent + 1
               /\ Send(percent, FALSE)
          ELSE UNCHANGED <<last, sent, commands>>
  /\ UNCHANGED <<probed, pc, attempt, staged, written, pipe, buffer, key>>

(* The close event follows the last data event. *)
Closed == pc = "encoding" /\ pipe = <<>> /\ lines = <<>>

EndEncode ==
  /\ Closed
  /\ pc' = "pushing"
  /\ staged' = TRUE
  /\ UNCHANGED <<probed, attempt, textVars, last, sent, commands, key>>

-------------------------------------------------------------------------------
(* What follows the encode, and what ends an attempt. *)

(* The pushes and the save of COMPLETED lie before the SET of 100. *)
Push ==
  /\ pc = "pushing"
  /\ pc' = "set100"
  /\ Send(Full, TRUE)
  /\ UNCHANGED <<probed, attempt, staged, textVars, last, sent, key>>

Return ==
  /\ pc = "enqueuing"
  /\ pc' = "completed"
  /\ UNCHANGED <<probed, attempt, staged, textVars, last, sent, commands, key>>

(* The attempt is over: another one, or the failed listener. *)
GivesUp == attempt = MaxAttempts
FailsOver == pc' = "failing" /\ UNCHANGED attempt /\ UNCHANGED commands
RunsAgain == pc' = "start" /\ attempt' = attempt + 1 /\ UNCHANGED commands
AttemptFails == IF GivesUp THEN FailsOver ELSE RunsAgain

(* ffprobe, ffmpeg, a push, a save or an enqueue fails. *)
Throw ==
  /\ pc \in {"start", "pushing", "enqueuing"} \/ Closed
  /\ AttemptFails
  /\ UNCHANGED <<probed, staged, textVars, last, sent, key>>

(* ffprobe found no audio track: an UnrecoverableError, whatever is left   *)
(* of the attempts.                                                         *)
Reject ==
  /\ pc = "start" /\ ~staged
  /\ FailsOver
  /\ UNCHANGED <<probed, staged, textVars, last, sent, key>>

(* The listener clears the key, unless its find or its save throws. *)
ListenerClears ==
  /\ pc = "failing" /\ pc' = "clearing"
  /\ Send(Absent, TRUE)
  /\ UNCHANGED <<probed, attempt, staged, textVars, last, sent, key>>

ListenerThrows ==
  /\ pc = "failing" /\ pc' = "ended"
  /\ UNCHANGED <<probed, attempt, staged, textVars, last, sent, commands, key>>

(* The process dies, its ffmpeg and what it had not sent with it.  The job *)
(* is given back, or failed for having stalled too often.                   *)
Crash ==
  /\ pc \in {"set0", "encoding", "pushing", "set100", "enqueuing", "failing", "clearing"}
  /\ pc' \in IF pc \in {"failing", "clearing"} THEN {"ended"} ELSE {"start", "failing"}
  /\ commands' = <<>>
  /\ written' = <<>> /\ pipe' = <<>> /\ buffer' = <<>> /\ lines' = <<>>
  /\ UNCHANGED <<probed, attempt, staged, last, sent, key>>

-------------------------------------------------------------------------------
(* Redis executes the commands in order, or refuses one. *)

(* The run goes on with the answer it awaits. *)
StartEncode ==
  /\ pc = "set0" /\ pc' = "encoding"
  /\ written' = <<>> /\ buffer' = <<>> /\ last' = 0 /\ sent' = 0
Answered(from, to) ==
  pc = from /\ pc' = to /\ UNCHANGED <<written, buffer, last, sent>>

Execute ==
  /\ commands # <<>>
  /\ key' = Head(commands).percent
  /\ commands' = Tail(commands)
  /\ IF Head(commands).awaited
     THEN \/ StartEncode
          \/ Answered("set100", "enqueuing")
          \/ Answered("clearing", "failed")
     ELSE UNCHANGED <<pc, written, buffer, last, sent>>
  /\ UNCHANGED <<probed, attempt, staged, pipe, lines>>

(* A SET of the callback that fails is swallowed; what is awaited throws,  *)
(* and a DEL that throws is not repeated.                                   *)
RefuseTick ==
  /\ commands # <<>> /\ ~Head(commands).awaited
  /\ commands' = Tail(commands)
  /\ UNCHANGED <<probed, pc, attempt, staged, textVars, last, sent, key>>

RefuseAwaited ==
  /\ commands # <<>> /\ Head(commands).awaited
  /\ commands' = <<>>
  /\ IF pc = "clearing" THEN pc' = "ended" /\ UNCHANGED attempt
     ELSE IF GivesUp THEN pc' = "failing" /\ UNCHANGED attempt
     ELSE pc' = "start" /\ attempt' = attempt + 1
  /\ UNCHANGED <<probed, staged, textVars, last, sent, key>>

(* The TTL of an hour. *)
Expire ==
  /\ key # Absent
  /\ key' = Absent
  /\ UNCHANGED <<probed, pc, attempt, staged, textVars, last, sent, commands>>

Next ==
  \/ Start \/ Write \/ Read \/ OnLine \/ EndEncode \/ Push \/ Return \/ Throw
  \/ Reject \/ ListenerClears \/ ListenerThrows
  \/ Crash \/ Execute \/ RefuseTick \/ RefuseAwaited \/ Expire

Spec == Init /\ [][Next]_vars

-------------------------------------------------------------------------------
TypeOK ==
  /\ probed \in BOOLEAN /\ staged \in BOOLEAN
  /\ pc \in Pcs
  /\ attempt \in 1..MaxAttempts
  /\ last \in 0..99 /\ sent \in Nat
  /\ commands \in Seq([percent : Absent..Full, awaited : BOOLEAN])
  /\ key \in Absent..Full

(* No report is lost between two chunks, and none is made up: whatever the *)
(* cuts, what was sent last is the most ffmpeg has reported so far          *)
(* (ffmpeg_transcoder.ts:121-123).                                          *)
Reported == {PercentOf(line) : line \in {l \in Range(written) : Matches(l)}}
TicksSurviveChunks ==
  Closed => last = IF probed THEN Max(Reported \union {0}) ELSE 0

(* The percentage a client reads falls only when an encode starts over or  *)
(* the key goes - with SETs nobody awaits, refused ones in between, retries *)
(* and deaths (process_transcode.ts:90-92).                                 *)
ProgressNeverFalls ==
  [][key' < key => key' = Absent \/ (key' = 0 /\ pc = "set0")]_vars

(* 100 is read only of an encode that is staged, and the end has the last  *)
(* word: no late SET follows the 100 or the DEL (process_transcode.ts:128,  *)
(* fail_transcode.ts:40).                                                   *)
EndHasTheLastWord ==
  /\ key >= Full => staged
  /\ pc = "completed" => key \in {Full, Absent} /\ commands = <<>>
  /\ pc = "failed" => key = Absent /\ commands = <<>>

(* "Throttled to 1% steps" (progress_store.ts:11): however much ffmpeg      *)
(* writes, an encode sends no more SETs than it gains percents.             *)
SetsAreThrottled == sent <= last
===============================================================================
