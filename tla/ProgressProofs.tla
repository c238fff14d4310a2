---------------------------- MODULE ProgressProofs ----------------------------
(***************************************************************************)
(* The percentage of a Transcode never falls within an encode, is not      *)
(* written more often than it grows, and ends at 100 or cleared: because   *)
(* what is on its way to Redis is in order, above what is there already,   *)
(* and only its last command is ever waited for.  And no report of ffmpeg  *)
(* is lost to the chunks its output comes in: because the text not gone     *)
(* through yet always holds, line by line, what was not taken into account. *)
(***************************************************************************)
EXTENDS EncodeProgress, SequenceTheorems, TLAPS

Awaiting == {"set0", "set100", "clearing"}
LastCommand == commands[Len(commands)]

(* The ticks on their way rise, and above the key. *)
TicksRise ==
  /\ \A i \in 1..Len(commands) :
       ~commands[i].awaited => key < commands[i].percent /\ commands[i].percent <= 99
  /\ \A i, j \in 1..Len(commands) :
       i < j /\ ~commands[j].awaited => commands[i].percent < commands[j].percent

(* Only the last command is awaited, by who sent it. *)
OnlyLastIsAwaited ==
  /\ \A i \in 1..Len(commands) : commands[i].awaited => i = Len(commands)
  /\ pc \in Awaiting <=> commands # <<>> /\ LastCommand.awaited
  /\ pc = "set0" => LastCommand.percent = 0
  /\ pc = "set100" => LastCommand.percent = Full
  /\ pc = "clearing" => LastCommand.percent = Absent

(* What an encode has sent, it has counted. *)
EncodeIsAhead ==
  /\ lines # <<>> => pc = "encoding"
  /\ pc = "encoding" =>
       /\ key <= last
       /\ \A i \in 1..Len(commands) : commands[i].percent <= last

(* Nothing is encoded once an encode is staged, and nothing ends before.   *)
StagedOnce ==
  /\ pc \in {"set0", "encoding"} => ~staged
  /\ pc \in {"pushing", "set100", "enqueuing", "completed"} => staged
  /\ pc \in {"enqueuing", "completed"} => key \in {Full, Absent} /\ commands = <<>>

IInv ==
  /\ TypeOK /\ TicksRise /\ OnlyLastIsAwaited /\ EncodeIsAhead /\ StagedOnce
  /\ EndHasTheLastWord /\ SetsAreThrottled

-------------------------------------------------------------------------------
(* The two ways the queue of commands changes. *)

LEMMA SentLast ==
  ASSUME NEW S, NEW s \in Seq(S), NEW c \in S
  PROVE  /\ Append(s, c) \in Seq(S) /\ Append(s, c) # <<>>
         /\ Len(s) \in Nat /\ Len(Append(s, c)) = Len(s) + 1
         /\ \A i \in 1..Len(s) : Append(s, c)[i] = s[i] /\ s[i] \in S
         /\ Append(s, c)[Len(s) + 1] = c
BY AppendProperties, LenProperties, ElementOfSeq

LEMMA TakenFirst ==
  ASSUME NEW S, NEW s \in Seq(S), s # <<>>
  PROVE  /\ Tail(s) \in Seq(S)
         /\ Head(s) = s[1] /\ Head(s) \in S
         /\ Len(s) \in Nat \ {0} /\ Len(Tail(s)) = Len(s) - 1
         /\ \A i \in 1..(Len(s) - 1) : Tail(s)[i] = s[i + 1]
         /\ \A i \in 1..Len(s) : s[i] \in S
         /\ Tail(s) = <<>> <=> Len(s) = 1
<1>1. Tail(s) \in Seq(S) /\ Head(s) \in S /\ Len(Tail(s)) = Len(s) - 1
      /\ \A i \in 1..Len(Tail(s)) : Tail(s)[i] = s[i + 1]
  BY HeadTailProperties
<1>2. Len(s) \in Nat \ {0} /\ \A i \in 1..Len(s) : s[i] \in S
  BY EmptySeq, ElementOfSeq
<1>3. Head(s) = s[1]
  OBVIOUS
<1>4. Tail(s) = <<>> <=> Len(s) = 1
  <2>1. Len(<<>>) = 0 /\ \A t \in Seq(S) : t # <<>> => Len(t) \in Nat \ {0}
    BY EmptySeq
  <2>2. Tail(s) # <<>> => Len(Tail(s)) # 0
    BY <1>1, <2>1
  <2>3. Tail(s) = <<>> => Len(Tail(s)) = 0
    BY <2>1
  <2> QED
    BY <1>1, <1>2, <2>2, <2>3
<1> QED
  BY <1>1, <1>2, <1>3, <1>4

LEMMA PercentIsBounded ==
  ASSUME NEW line, Matches(line)
  PROVE  PercentOf(line) \in 0..99
<1>1. TimeOf(line) \in Nat
  BY DEF TimeOf, Matches
<1>2. (100 * TimeOf(line)) \div Duration \in Nat
  BY <1>1, DurationIsPositive
<1> QED
  BY <1>2 DEF PercentOf, Capped

-------------------------------------------------------------------------------
LEMMA ProgressInit == Init => IInv
<1> SUFFICES ASSUME Init PROVE IInv
  OBVIOUS
<1>1. commands = <<>> /\ Len(commands) = 0
  BY DEF Init
<1>2. TypeOK
  <2>1. commands \in Seq([percent : Absent..Full, awaited : BOOLEAN])
    BY <1>1, EmptySeq
  <2>2. key \in Absent..Full /\ attempt \in 1..MaxAttempts
    BY MaxAttemptsIsPositive DEF Init, Absent, Full
  <2>3. probed \in BOOLEAN /\ staged \in BOOLEAN /\ pc \in Pcs
    BY DEF Init, Pcs
  <2>4. last \in 0..99 /\ sent \in Nat
    BY DEF Init
  <2> QED
    BY <2>1, <2>2, <2>3, <2>4 DEF TypeOK
<1> QED
  BY <1>1, <1>2
     DEF Init, IInv, TicksRise, OnlyLastIsAwaited, EncodeIsAhead, StagedOnce,
         EndHasTheLastWord, SetsAreThrottled, Awaiting, Absent, Full

LEMMA PercentsAreIntegers ==
  /\ Absent..Full \subseteq Int /\ Absent \in Absent..Full /\ 0..Full \subseteq Absent..Full
  /\ \A p \in Absent..Full : Absent <= p
BY DEF Absent, Full

(* Every command in the queue is a command. *)
LEMMA QueueIsTyped ==
  ASSUME TypeOK
  PROVE  /\ Len(commands) \in Nat
         /\ \A i \in 1..Len(commands) : /\ commands[i].percent \in Int
                                        /\ commands[i].awaited \in BOOLEAN
         /\ key \in Int /\ last \in Int /\ sent \in Int
         /\ commands = <<>> <=> Len(commands) = 0
<1>1. commands \in Seq([percent : Absent..Full, awaited : BOOLEAN])
  BY DEF TypeOK
<1>2. \A i \in 1..Len(commands) : commands[i] \in [percent : Absent..Full, awaited : BOOLEAN]
  BY <1>1, ElementOfSeq
<1>3. Len(commands) \in Nat /\ (commands = <<>> <=> Len(commands) = 0)
  <2>1. Len(<<>>) = 0 /\ (commands # <<>> => Len(commands) \in Nat \ {0})
    BY <1>1, EmptySeq
  <2> QED
    BY <2>1
<1>4. key \in Int /\ last \in Int /\ sent \in Int
  BY DEF TypeOK, Absent, Full
<1>5. \A i \in 1..Len(commands) : /\ commands[i].percent \in Int
                                  /\ commands[i].awaited \in BOOLEAN
  <2> SUFFICES ASSUME NEW i \in 1..Len(commands)
               PROVE  commands[i].percent \in Int /\ commands[i].awaited \in BOOLEAN
    OBVIOUS
  <2> DEFINE c == commands[i]
  <2>1. c \in [percent : Absent..Full, awaited : BOOLEAN]
    BY <1>2
  <2> HIDE DEF c
  <2>2. c.percent \in Absent..Full
    BY <2>1
  <2>3. c.awaited \in BOOLEAN
    BY <2>1
  <2> QED
    <3>1. c.percent \in Int
      BY <2>2, PercentsAreIntegers
    <3> QED
      BY <3>1, <2>3 DEF c
<1> QED
  BY <1>3, <1>4, <1>5

(* A command nobody waits behind is added: a tick, or one to wait for. *)
LEMMA Added ==
  ASSUME IInv, ~(pc \in Awaiting),
         NEW percent \in Absent..Full, NEW awaited \in BOOLEAN,
         Send(percent, awaited),
         ~awaited => percent <= 99 /\ last < percent /\ pc = "encoding"
  PROVE  /\ commands' \in Seq([percent : Absent..Full, awaited : BOOLEAN])
         /\ key' = key => TicksRise'
         /\ \A i \in 1..Len(commands') : commands'[i].awaited => i = Len(commands')
         /\ commands' # <<>>
         /\ commands'[Len(commands')] = [percent |-> percent, awaited |-> awaited]
         /\ \A i \in 1..Len(commands') :
              i = Len(commands') \/ (i \in 1..Len(commands) /\ commands'[i] = commands[i])
<1> DEFINE c == [percent |-> percent, awaited |-> awaited]
<1>1. c \in [percent : Absent..Full, awaited : BOOLEAN]
  OBVIOUS
<1>2. commands \in Seq([percent : Absent..Full, awaited : BOOLEAN]) /\ commands' = Append(commands, c)
  BY DEF IInv, TypeOK, Send
<1> HIDE DEF c
<1>3. /\ commands' \in Seq([percent : Absent..Full, awaited : BOOLEAN]) /\ commands' # <<>>
      /\ Len(commands) \in Nat /\ Len(commands') = Len(commands) + 1
      /\ \A i \in 1..Len(commands) : commands'[i] = commands[i]
      /\ commands'[Len(commands) + 1] = c
  BY <1>1, <1>2, SentLast
<1>4. c.percent = percent /\ c.awaited = awaited
  BY DEF c
<1>5. \A i \in 1..Len(commands) : ~commands[i].awaited
  BY <1>3 DEF IInv, OnlyLastIsAwaited, LastCommand
<1>6. \A i \in 1..Len(commands') :
        i = Len(commands') \/ (i \in 1..Len(commands) /\ commands'[i] = commands[i])
  BY <1>3
<1>7. \A i \in 1..Len(commands') : commands'[i].awaited => i = Len(commands')
  BY <1>5, <1>6
<1>8. ASSUME key' = key PROVE TicksRise'
  <2>1. \A i \in 1..Len(commands') :
          ~commands'[i].awaited => key < commands'[i].percent /\ commands'[i].percent <= 99
    BY <1>3, <1>4, <1>6, QueueIsTyped DEF IInv, EncodeIsAhead, TicksRise, Absent, Full
  <2>2. \A i, j \in 1..Len(commands') :
          i < j /\ ~commands'[j].awaited => commands'[i].percent < commands'[j].percent
    <3>1. \A i, j \in 1..Len(commands) :
            i < j /\ ~commands[j].awaited => commands[i].percent < commands[j].percent
      BY DEF IInv, TicksRise
    <3>2. ~awaited => \A i \in 1..Len(commands) : commands[i].percent < percent
      BY QueueIsTyped DEF IInv, EncodeIsAhead, Absent, Full
    <3> SUFFICES ASSUME NEW i \in 1..Len(commands'), NEW j \in 1..Len(commands'),
                        i < j, ~commands'[j].awaited
                 PROVE  commands'[i].percent < commands'[j].percent
      OBVIOUS
    <3>3. i \in 1..Len(commands) /\ commands'[i] = commands[i]
      BY <1>3
    <3>4. CASE j = Len(commands')
      BY <1>3, <1>4, <3>2, <3>3, <3>4
    <3>5. CASE j # Len(commands')
      BY <1>6, <3>1, <3>3, <3>5
    <3> QED
      BY <3>4, <3>5
  <2> QED
    BY <1>8, <2>1, <2>2 DEF TicksRise
<1> QED
  BY <1>3, <1>6, <1>7, <1>8 DEF c

(* The first command leaves the queue. *)
LEMMA Removed ==
  ASSUME IInv, commands # <<>>, commands' = Tail(commands),
         key' = key \/ key' = Head(commands).percent
  PROVE  /\ commands' \in Seq([percent : Absent..Full, awaited : BOOLEAN])
         /\ Head(commands) = commands[1] /\ 1 \in 1..Len(commands)
         /\ Head(commands).percent \in Absent..Full
         /\ TicksRise'
         /\ \A i \in 1..Len(commands') : commands'[i].awaited => i = Len(commands')
         /\ \A i \in 1..Len(commands') :
              i + 1 \in 1..Len(commands) /\ commands'[i] = commands[i + 1]
         /\ Head(commands).awaited => commands' = <<>> /\ LastCommand = Head(commands)
         /\ ~Head(commands).awaited =>
              (commands' # <<>> /\ LastCommand'.awaited <=> LastCommand.awaited)
         /\ commands' # <<>> => LastCommand' = LastCommand
<1>1. commands \in Seq([percent : Absent..Full, awaited : BOOLEAN])
  BY DEF IInv, TypeOK
<1>2. /\ commands' \in Seq([percent : Absent..Full, awaited : BOOLEAN])
      /\ Head(commands) = commands[1]
      /\ Head(commands) \in [percent : Absent..Full, awaited : BOOLEAN]
      /\ Len(commands) \in Nat \ {0} /\ Len(commands') = Len(commands) - 1
      /\ \A i \in 1..(Len(commands) - 1) : commands'[i] = commands[i + 1]
      /\ commands' = <<>> <=> Len(commands) = 1
  BY <1>1, TakenFirst
<1>3. \A i \in 1..Len(commands') :
        i + 1 \in 1..Len(commands) /\ commands'[i] = commands[i + 1]
  BY <1>2
<1>4. \A i \in 1..Len(commands) : commands[i].awaited => i = Len(commands)
  BY DEF IInv, OnlyLastIsAwaited
<1>5. \A i \in 1..Len(commands') : commands'[i].awaited => i = Len(commands')
  <2> SUFFICES ASSUME NEW i \in 1..Len(commands'), commands'[i].awaited
               PROVE  i = Len(commands')
    OBVIOUS
  <2>1. i + 1 \in 1..Len(commands) /\ commands[i + 1].awaited
    BY <1>3
  <2>2. i + 1 = Len(commands)
    BY <1>4, <2>1
  <2>3. Len(commands) \in Nat /\ Len(commands') = Len(commands) - 1
    BY <1>2
  <2> QED
    BY <2>2, <2>3
<1>6. commands' # <<>> => LastCommand' = LastCommand
  BY <1>2, <1>3 DEF LastCommand
<1>7. Head(commands).awaited => Len(commands) = 1
  <2>1. 1 \in 1..Len(commands) /\ Head(commands) = commands[1]
    BY <1>2
  <2>2. commands[1].awaited => 1 = Len(commands)
    BY <1>4, <2>1
  <2> QED
    BY <2>1, <2>2
<1>8. TicksRise'
  <2>1. \A i \in 1..Len(commands') :
          ~commands'[i].awaited => key' < commands'[i].percent /\ commands'[i].percent <= 99
    BY <1>2, <1>3, QueueIsTyped DEF IInv, TicksRise
  <2>2. \A i, j \in 1..Len(commands') :
          i < j /\ ~commands'[j].awaited => commands'[i].percent < commands'[j].percent
    BY <1>2, <1>3 DEF IInv, TicksRise
  <2> QED
    BY <2>1, <2>2 DEF TicksRise
<1>9. Head(commands).awaited => commands' = <<>> /\ LastCommand = Head(commands)
  BY <1>2, <1>7 DEF LastCommand
<1>10. 1 \in 1..Len(commands) /\ Head(commands).percent \in Absent..Full
  BY <1>2
<1>11. ASSUME ~Head(commands).awaited
       PROVE  commands' # <<>> /\ LastCommand'.awaited <=> LastCommand.awaited
  <2>1. CASE commands' = <<>>
    BY <1>2, <1>11, <2>1 DEF LastCommand
  <2>2. CASE commands' # <<>>
    BY <1>6, <2>2
  <2> QED
    BY <2>1, <2>2
<1> QED
  BY <1>2, <1>3, <1>5, <1>6, <1>8, <1>9, <1>10, <1>11

-------------------------------------------------------------------------------
(* What no command changes is proved once for the steps that send none.    *)
LEMMA QuietStep ==
  ASSUME IInv, UNCHANGED commands, key' = key \/ key' = Absent,
         pc \in Awaiting \/ pc' \in Awaiting => pc' = pc
  PROVE  TicksRise' /\ OnlyLastIsAwaited'
<1>1. pc' \in Awaiting <=> pc \in Awaiting
  OBVIOUS
<1>2. OnlyLastIsAwaited'
  <2>1. UNCHANGED LastCommand
    BY DEF LastCommand
  <2> QED
    BY <1>1, <2>1 DEF IInv, OnlyLastIsAwaited, Awaiting
<1>3. TicksRise'
  <2>1. \A i \in 1..Len(commands) :
          ~commands[i].awaited => key' < commands[i].percent /\ commands[i].percent <= 99
    <3>1. \A i \in 1..Len(commands) :
            ~commands[i].awaited => key < commands[i].percent /\ commands[i].percent <= 99
      BY DEF IInv, TicksRise
    <3>2. key \in Int /\ Absent \in Int /\ Absent <= key
      BY DEF IInv, TypeOK, Absent, Full
    <3>3. \A i \in 1..Len(commands) : commands[i].percent \in Int
      BY QueueIsTyped DEF IInv
    <3> QED
      BY <3>1, <3>2, <3>3
  <2> QED
    BY <2>1 DEF IInv, TicksRise
<1> QED
  BY <1>2, <1>3

(* What becomes of a line. *)
LEMMA TickOrNothing ==
  ASSUME OnLine
  PROVE  /\ lines # <<>> /\ UNCHANGED <<probed, pc, attempt, staged, written, pipe, buffer, key>>
         /\ \/ UNCHANGED <<last, sent, commands>>
            \/ \E line : /\ Matches(line) /\ Gained(PercentOf(line))
                          /\ last' = PercentOf(line) /\ sent' = sent + 1
                          /\ Send(PercentOf(line), FALSE)
<1>1. PICK end \in 1..Len(lines) :
         LET line == SubSeq(lines, 1, end - 1)
             percent == PercentOf(line) IN
         IF Matches(line) /\ probed /\ Gained(percent)
         THEN last' = percent /\ sent' = sent + 1 /\ Send(percent, FALSE)
         ELSE UNCHANGED <<last, sent, commands>>
  BY DEF OnLine
<1>2. lines # <<>>
  <2>1. Len(<<>>) = 0
    BY EmptySeq
  <2> QED
    BY <1>1, <2>1
<1> QED
  BY <1>1, <1>2 DEF OnLine

(* Type correctness of everything but the queue. *)
LEMMA TypedStep ==
  ASSUME IInv, Next
  PROVE  /\ probed' \in BOOLEAN /\ staged' \in BOOLEAN /\ pc' \in Pcs
         /\ attempt' \in 1..MaxAttempts /\ last' \in 0..99 /\ sent' \in Nat
         /\ key' \in Absent..Full
<1>1. TypeOK
  BY DEF IInv
<1>2. attempt' \in 1..MaxAttempts
  <2>1. attempt' = attempt \/ (attempt # MaxAttempts /\ attempt' = attempt + 1)
    BY DEF Next, Start, Write, Read, OnLine, EndEncode, Push, Return, Throw,
         Reject, ListenerClears, ListenerThrows,
         Crash, Execute, RefuseTick, RefuseAwaited, Expire, AttemptFails, GivesUp,
         FailsOver, RunsAgain
  <2>2. attempt \in 1..MaxAttempts
    BY <1>1 DEF TypeOK
  <2> QED
    BY <2>1, <2>2, MaxAttemptsIsPositive
<1>3. probed' \in BOOLEAN /\ staged' \in BOOLEAN
  BY <1>1 DEF Next, TypeOK, Start, Write, Read, OnLine, EndEncode, Push, Return, Throw,
         Reject, ListenerClears, ListenerThrows,
         Crash, Execute, RefuseTick, RefuseAwaited, Expire
<1>4. pc' \in Pcs
  BY <1>1 DEF Next, TypeOK, Pcs, Start, Write, Read, OnLine, EndEncode, Push, Return, Throw,
         Reject, ListenerClears, ListenerThrows,
         Crash, Execute, RefuseTick, RefuseAwaited, Expire, AttemptFails,
         FailsOver, RunsAgain, StartEncode, Answered
<1>5. key' \in Absent..Full
  <2>1. CASE Execute
    BY <2>1, Removed DEF Execute
  <2>2. CASE ~Execute
    <3>1. key' = key \/ key' = Absent
      BY <2>2 DEF Next, Start, Write, Read, OnLine, EndEncode, Push, Return, Throw,
         Reject, ListenerClears, ListenerThrows,
         Crash, RefuseTick, RefuseAwaited, Expire
    <3>2. key \in Absent..Full
      BY <1>1 DEF TypeOK
    <3> QED
      BY <3>1, <3>2, PercentsAreIntegers
  <2> QED
    BY <2>1, <2>2
<1>6. last' \in 0..99 /\ sent' \in Nat
  <2>1. last \in 0..99 /\ sent \in Nat
    BY <1>1 DEF TypeOK
  <2>2. CASE OnLine
    <3>1. \/ UNCHANGED <<last, sent>>
          \/ \E line : /\ Matches(line) /\ last' = PercentOf(line)
                        /\ sent' = sent + 1
      BY <2>2, TickOrNothing
    <3> QED
      BY <2>1, <3>1, PercentIsBounded
  <2>3. CASE ~OnLine
    <3>1. UNCHANGED <<last, sent>> \/ (last' = 0 /\ sent' = 0)
      BY <2>3 DEF Next, Start, Write, Read, EndEncode, Push, Return, Throw,
         Reject, ListenerClears, ListenerThrows,
         Crash, Execute, RefuseTick, RefuseAwaited, Expire, StartEncode, Answered
    <3> QED
      BY <2>1, <3>1
  <2> QED
    BY <2>2, <2>3
<1> QED
  BY <1>2, <1>3, <1>4, <1>5, <1>6

LEMMA TypeOKStep ==
  ASSUME IInv, Next,
         commands' \in Seq([percent : Absent..Full, awaited : BOOLEAN])
  PROVE  TypeOK'
BY TypedStep DEF TypeOK

(* The steps that send no command and end nothing. *)
LEMMA QuietActions ==
  ASSUME IInv, \/ Write \/ Read \/ EndEncode \/ Return \/ Expire
               \/ (Start /\ staged) \/ Throw \/ Reject \/ ListenerThrows
  PROVE  IInv'
<1>1. Next /\ TypeOK
  BY DEF Next, IInv
<1>2. /\ UNCHANGED commands /\ UNCHANGED <<last, sent>>
      /\ key' = key \/ key' = Absent
      /\ pc' = pc \/ /\ pc \in {"start", "pushing", "enqueuing", "encoding", "failing"}
                     /\ pc' \in {"pushing", "completed", "start", "failing", "ended"}
  BY DEF Write, Read, EndEncode, Return, Expire, Start, Throw, Reject,
         ListenerThrows, AttemptFails, RunsAgain, FailsOver, Closed
<1>3. TypeOK'
  BY <1>1, <1>2, TypeOKStep DEF TypeOK
<1>4. TicksRise' /\ OnlyLastIsAwaited'
  <2>1. pc \in Awaiting \/ pc' \in Awaiting => pc' = pc
    BY <1>2 DEF Awaiting
  <2> QED
    BY <1>2, <2>1, QuietStep
<1>5. EncodeIsAhead'
  <2>1. lines' # <<>> => pc' = "encoding"
    BY <1>1 DEF Write, Read, EndEncode, Return, Expire, Start, Throw, Reject, ListenerThrows,
                Closed, IInv, EncodeIsAhead, textVars
  <2>2. pc' = "encoding" => pc = "encoding"
    BY <1>2
  <2>3. pc = "encoding" => key' <= last
    BY <1>1, <1>2, PercentsAreIntegers DEF IInv, EncodeIsAhead, TypeOK, Absent
  <2> QED
    BY <1>2, <2>1, <2>2, <2>3 DEF IInv, EncodeIsAhead
<1>6. StagedOnce'
  <2>1. \/ UNCHANGED staged \/ (staged' = TRUE /\ pc' = "pushing")
    BY DEF Write, Read, EndEncode, Return, Expire, Start, Throw, Reject, ListenerThrows
  <2>2. pc' = pc \/ pc' \in {"start", "pushing", "failing", "ended"} \/ (pc = "enqueuing" /\ pc' = "completed")
    BY <1>2 DEF Write, Read, EndEncode, Return, Expire, Start, Throw, Reject, ListenerThrows,
           AttemptFails, RunsAgain, FailsOver
  <2>3. pc' = "pushing" => staged' \/ (pc = "pushing" /\ UNCHANGED staged)
    BY DEF Write, Read, EndEncode, Return, Expire, Start, Throw, Reject, ListenerThrows,
           AttemptFails, RunsAgain, FailsOver
  <2> QED
    BY <1>2, <2>1, <2>2, <2>3 DEF IInv, StagedOnce
<1>7. EndHasTheLastWord'
  <2>1. staged => staged'
    BY DEF Write, Read, EndEncode, Return, Expire, Start, Throw, Reject, ListenerThrows
  <2>2. pc' = "completed" => pc \in {"enqueuing", "completed"}
    BY <1>2 DEF Write, Read, EndEncode, Return, Expire, Start, Throw, Reject, ListenerThrows,
           AttemptFails, RunsAgain, FailsOver
  <2>3. pc' = "failed" => pc = "failed"
    BY <1>2
  <2>4. key' >= Full => key >= Full
    BY <1>1, <1>2, PercentsAreIntegers DEF TypeOK, Full, Absent
  <2> QED
    BY <1>2, <2>1, <2>2, <2>3, <2>4 DEF IInv, StagedOnce, EndHasTheLastWord
<1>8. SetsAreThrottled'
  BY <1>2 DEF IInv, SetsAreThrottled
<1> QED
  BY <1>3, <1>4, <1>5, <1>6, <1>7, <1>8 DEF IInv

(* A command somebody waits for is sent. *)
LEMMA AwaitedIsSent ==
  ASSUME IInv, Next, pc \notin Awaiting,
         NEW percent \in Absent..Full, Send(percent, TRUE),
         UNCHANGED <<key, last, sent, staged>>, lines' = <<>>,
         \/ pc' = "set0" /\ percent = 0 /\ ~staged
         \/ pc' = "set100" /\ percent = Full /\ staged
         \/ pc' = "clearing" /\ percent = Absent
  PROVE  IInv'
<1>1. /\ commands' \in Seq([percent : Absent..Full, awaited : BOOLEAN])
      /\ TicksRise' /\ commands' # <<>>
      /\ \A i \in 1..Len(commands') : commands'[i].awaited => i = Len(commands')
      /\ LastCommand' = [percent |-> percent, awaited |-> TRUE]
  BY Added DEF LastCommand
<1>2. OnlyLastIsAwaited'
  BY <1>1 DEF OnlyLastIsAwaited, Awaiting
<1>3. EncodeIsAhead' /\ StagedOnce' /\ EndHasTheLastWord' /\ SetsAreThrottled'
  BY DEF IInv, EncodeIsAhead, StagedOnce, EndHasTheLastWord, SetsAreThrottled
<1> QED
  BY <1>1, <1>2, <1>3, TypeOKStep DEF IInv

LEMMA AwaitedActions ==
  ASSUME IInv, (Start /\ ~staged) \/ Push \/ ListenerClears
  PROVE  IInv'
<1>1. Next
  BY DEF Next
<1>2. pc \notin Awaiting /\ UNCHANGED <<key, last, sent, staged>> /\ lines' = <<>>
  BY DEF Start, Push, ListenerClears, Awaiting, IInv, EncodeIsAhead, textVars
<1>3. CASE Start /\ ~staged
  <2>1. Send(0, TRUE) /\ pc' = "set0"
    BY <1>3 DEF Start
  <2>2. 0 \in Absent..Full
    BY DEF Absent, Full
  <2> QED
    BY <1>1, <1>2, <1>3, <2>1, <2>2, AwaitedIsSent
<1>4. CASE Push
  <2>1. Send(Full, TRUE) /\ pc' = "set100" /\ staged
    BY <1>4 DEF Push, IInv, StagedOnce
  <2>2. Full \in Absent..Full
    BY DEF Absent, Full
  <2> QED
    BY <1>1, <1>2, <2>1, <2>2, AwaitedIsSent
<1>5. CASE ListenerClears
  <2>1. Send(Absent, TRUE) /\ pc' = "clearing"
    BY <1>5 DEF ListenerClears
  <2> QED
    BY <1>1, <1>2, <2>1, AwaitedIsSent, PercentsAreIntegers
<1> QED
  BY <1>3, <1>4, <1>5

(* The lines ffmpeg wrote: a tick is sent, or there is nothing new. *)
LEMMA OnLineStep ==
  ASSUME IInv, OnLine
  PROVE  IInv'
<1>1. Next /\ TypeOK
  BY DEF Next, IInv
<1>2. /\ pc = "encoding" /\ pc \notin Awaiting /\ UNCHANGED <<pc, key, staged>>
      /\ \/ UNCHANGED <<last, sent, commands>>
         \/ \E line : /\ Matches(line) /\ Gained(PercentOf(line))
                       /\ last' = PercentOf(line) /\ sent' = sent + 1
                       /\ Send(PercentOf(line), FALSE)
  BY TickOrNothing DEF IInv, EncodeIsAhead, Awaiting
<1>3. StagedOnce' /\ EndHasTheLastWord'
  BY <1>2 DEF IInv, StagedOnce, EndHasTheLastWord
<1>4. CASE UNCHANGED <<last, sent, commands>>
  <2>1. TicksRise' /\ OnlyLastIsAwaited'
    BY <1>2, <1>4, QuietStep
  <2>2. EncodeIsAhead' /\ SetsAreThrottled'
    BY <1>2, <1>4 DEF IInv, EncodeIsAhead, SetsAreThrottled
  <2>3. TypeOK'
    BY <1>1, <1>4, TypeOKStep DEF TypeOK
  <2> QED
    BY <1>3, <2>1, <2>2, <2>3 DEF IInv
<1>5. CASE ~UNCHANGED <<last, sent, commands>>
  <2> PICK line : /\ Matches(line) /\ Gained(PercentOf(line))
                  /\ last' = PercentOf(line) /\ sent' = sent + 1
                  /\ Send(PercentOf(line), FALSE)
    BY <1>2, <1>5
  <2> DEFINE percent == PercentOf(line)
  <2>1. percent \in 0..99 /\ last < percent /\ last' = percent /\ sent' = sent + 1
        /\ Send(percent, FALSE)
    BY PercentIsBounded DEF Gained, IInv, TypeOK
  <2> HIDE DEF percent
  <2>2. percent \in Absent..Full
    BY <2>1 DEF Absent, Full
  <2>3. /\ commands' \in Seq([percent : Absent..Full, awaited : BOOLEAN])
        /\ TicksRise' /\ commands' # <<>>
        /\ \A i \in 1..Len(commands') : commands'[i].awaited => i = Len(commands')
        /\ commands'[Len(commands')] = [percent |-> percent, awaited |-> FALSE]
        /\ \A i \in 1..Len(commands') :
             i = Len(commands') \/ (i \in 1..Len(commands) /\ commands'[i] = commands[i])
    <3>1. percent <= 99 /\ last < percent
      BY <2>1
    <3>2. Send(percent, FALSE) /\ key' = key /\ pc = "encoding" /\ ~(pc \in Awaiting)
      BY <1>2, <2>1
    <3> QED
      BY <2>2, <3>1, <3>2, Added
  <2>4. OnlyLastIsAwaited'
    BY <1>2, <2>3 DEF OnlyLastIsAwaited, LastCommand, Awaiting
  <2>5. EncodeIsAhead'
    <3>1. \A i \in 1..Len(commands) : commands[i].percent < percent
      BY <1>1, <1>2, <2>1, QueueIsTyped DEF IInv, EncodeIsAhead
    <3>2. \A i \in 1..Len(commands') : commands'[i].percent <= last'
      <4> SUFFICES ASSUME NEW i \in 1..Len(commands')
                   PROVE  commands'[i].percent <= last'
        OBVIOUS
      <4>1. CASE i = Len(commands')
        BY <2>1, <2>3, <4>1
      <4>2. CASE i \in 1..Len(commands) /\ commands'[i] = commands[i]
        BY <1>1, <2>1, <3>1, <4>2, QueueIsTyped
      <4> QED
        BY <2>3, <4>1, <4>2
    <3>3. key' <= last'
      <4>1. key <= last /\ key' = key
        BY <1>2 DEF IInv, EncodeIsAhead
      <4>2. key \in Int /\ last \in Int
        BY <1>1, QueueIsTyped
      <4> QED
        BY <2>1, <4>1, <4>2
    <3> QED
      BY <1>2, <3>2, <3>3 DEF EncodeIsAhead
  <2>6. SetsAreThrottled'
    BY <1>1, <2>1, QueueIsTyped DEF IInv, SetsAreThrottled
  <2>7. TypeOK'
    BY <1>1, <2>3, TypeOKStep
  <2> QED
    BY <1>3, <2>3, <2>4, <2>5, <2>6, <2>7 DEF IInv
<1> QED
  BY <1>4, <1>5

(* What was under way is dropped. *)
LEMMA DroppedSteps ==
  ASSUME IInv, Crash \/ RefuseAwaited
  PROVE  IInv'
<1>1. Next /\ TypeOK
  BY DEF Next, IInv
<1>2. /\ UNCHANGED <<staged, last, sent, key>>
      /\ commands' = <<>> /\ pc' \in {"start", "failing", "ended"}
  BY DEF Crash, RefuseAwaited
<1>3. lines' = <<>>
  <2>1. CASE Crash
    BY <2>1 DEF Crash
  <2>2. CASE RefuseAwaited
    <3>1. commands # <<>> /\ Head(commands).awaited /\ UNCHANGED lines
      BY <2>2 DEF RefuseAwaited, textVars
    <3>2. pc \in Awaiting
      <4>1. LastCommand = Head(commands)
        <5>1. 1 \in 1..Len(commands) /\ Head(commands) = commands[1]
          BY <1>1, <3>1, TakenFirst DEF TypeOK
        <5>2. 1 = Len(commands)
          BY <3>1, <5>1 DEF IInv, OnlyLastIsAwaited
        <5> QED
          BY <5>1, <5>2 DEF LastCommand
      <4> QED
        BY <3>1, <4>1 DEF IInv, OnlyLastIsAwaited
    <3> QED
      BY <3>1, <3>2 DEF IInv, EncodeIsAhead, Awaiting
  <2> QED
    BY <2>1, <2>2
<1>4. EncodeIsAhead' /\ StagedOnce' /\ EndHasTheLastWord' /\ SetsAreThrottled'
  BY <1>2, <1>3 DEF IInv, EncodeIsAhead, StagedOnce, EndHasTheLastWord, SetsAreThrottled
<1>5. /\ commands' \in Seq([percent : Absent..Full, awaited : BOOLEAN])
      /\ TicksRise' /\ OnlyLastIsAwaited'
  <2>1. commands' \in Seq([percent : Absent..Full, awaited : BOOLEAN]) /\ Len(commands') = 0
    BY <1>2, EmptySeq
  <2> QED
    BY <1>2, <2>1 DEF TicksRise, OnlyLastIsAwaited, Awaiting
<1> QED
  BY <1>1, <1>4, <1>5, TypeOKStep DEF IInv

(* Redis executes a tick, or refuses it. *)
LEMMA TickStep ==
  ASSUME IInv, commands # <<>>, ~Head(commands).awaited, Execute \/ RefuseTick
  PROVE  IInv'
<1>1. Next /\ TypeOK
  BY DEF Next, IInv
<1>2. /\ commands' = Tail(commands) /\ UNCHANGED <<pc, staged, last, sent, lines>>
      /\ key' = key \/ key' = Head(commands).percent
  BY DEF Execute, RefuseTick, textVars
<1>3. /\ commands' \in Seq([percent : Absent..Full, awaited : BOOLEAN])
      /\ Head(commands) = commands[1] /\ 1 \in 1..Len(commands)
      /\ TicksRise'
      /\ \A i \in 1..Len(commands') : commands'[i].awaited => i = Len(commands')
      /\ \A i \in 1..Len(commands') :
           i + 1 \in 1..Len(commands) /\ commands'[i] = commands[i + 1]
      /\ commands' # <<>> /\ LastCommand'.awaited <=> LastCommand.awaited
      /\ commands' # <<>> => LastCommand' = LastCommand
  BY <1>2, Removed
<1>4. Head(commands).percent <= 99
  BY <1>3 DEF IInv, TicksRise
<1>5. OnlyLastIsAwaited'
  <2>1. pc' \in Awaiting <=> commands' # <<>> /\ LastCommand'.awaited
    BY <1>2, <1>3 DEF IInv, OnlyLastIsAwaited
  <2> QED
    BY <1>2, <1>3, <2>1 DEF IInv, OnlyLastIsAwaited, Awaiting
<1>6. EncodeIsAhead'
  <2>1. pc = "encoding" => /\ key <= last
                           /\ \A i \in 1..Len(commands) : commands[i].percent <= last
    BY DEF IInv, EncodeIsAhead
  <2>2. pc = "encoding" => key' <= last
    BY <1>2, <1>3, <2>1
  <2>3. pc = "encoding" => \A i \in 1..Len(commands') : commands'[i].percent <= last
    BY <1>3, <2>1
  <2> QED
    BY <1>2, <2>2, <2>3 DEF IInv, EncodeIsAhead
<1>7. StagedOnce' /\ EndHasTheLastWord' /\ SetsAreThrottled'
  <2>1. pc \notin {"enqueuing", "completed", "failed"}
    BY DEF IInv, StagedOnce, EndHasTheLastWord
  <2>2. key' >= Full => key >= Full
    BY <1>1, <1>2, <1>3, <1>4, QueueIsTyped DEF Full
  <2> QED
    BY <1>2, <2>1, <2>2 DEF IInv, StagedOnce, EndHasTheLastWord, SetsAreThrottled
<1> QED
  BY <1>1, <1>3, <1>5, <1>6, <1>7, TypeOKStep DEF IInv

(* Who waits for the last command has its answer. *)
LEMMA AnswerStep ==
  ASSUME IInv, commands # <<>>, Head(commands).awaited, Execute
  PROVE  IInv'
<1>1. Next /\ TypeOK
  BY DEF Next, IInv
<1>2. /\ commands' = Tail(commands) /\ key' = Head(commands).percent
      /\ UNCHANGED <<staged, lines>>
      /\ \/ pc = "set0" /\ pc' = "encoding" /\ last' = 0 /\ sent' = 0
         \/ pc = "set100" /\ pc' = "enqueuing" /\ UNCHANGED <<last, sent>>
         \/ pc = "clearing" /\ pc' = "failed" /\ UNCHANGED <<last, sent>>
  BY DEF Execute, StartEncode, Answered
<1>3. /\ commands' = <<>> /\ LastCommand = Head(commands)
      /\ commands' \in Seq([percent : Absent..Full, awaited : BOOLEAN])
      /\ TicksRise'
  BY <1>2, Removed
<1>4. lines' = <<>>
  BY <1>2 DEF IInv, EncodeIsAhead
<1>5. /\ pc = "set0" => key' = 0 /\ ~staged
      /\ pc = "set100" => key' = Full /\ staged
      /\ pc = "clearing" => key' = Absent
  BY <1>2, <1>3 DEF IInv, OnlyLastIsAwaited, StagedOnce
<1>6. 1..Len(commands') = {}
  <2>1. Len(commands') = 0
    BY <1>3, EmptySeq
  <2> QED
    BY <2>1
<1>7. pc' \notin Awaiting
  BY <1>2 DEF Awaiting
<1>8. OnlyLastIsAwaited'
  BY <1>3, <1>6, <1>7 DEF OnlyLastIsAwaited, Awaiting
<1>9. EncodeIsAhead'
  <2>1. pc' = "encoding" => key' = 0 /\ last' = 0
    BY <1>2, <1>5
  <2>2. pc' = "encoding" => key' <= last'
    BY <2>1
  <2> QED
    BY <1>4, <1>6, <2>2 DEF EncodeIsAhead
<1>10. StagedOnce' /\ EndHasTheLastWord' /\ SetsAreThrottled'
  BY <1>2, <1>3, <1>5 DEF IInv, StagedOnce, EndHasTheLastWord, SetsAreThrottled, Full, Absent
<1> QED
  BY <1>1, <1>2, <1>3, <1>5, <1>8, <1>9, <1>10, TypeOKStep DEF IInv

LEMMA ProgressStep == IInv /\ [Next]_vars => IInv'
<1> SUFFICES ASSUME IInv, [Next]_vars PROVE IInv'
  OBVIOUS
<1>1. CASE UNCHANGED vars
  BY <1>1 DEF vars, textVars, IInv, TypeOK, TicksRise, OnlyLastIsAwaited, LastCommand,
     EncodeIsAhead, StagedOnce, EndHasTheLastWord, SetsAreThrottled
<1>2. CASE Write \/ Read \/ EndEncode \/ Return \/ Expire
  BY <1>2, QuietActions
<1>3. CASE Start \/ Push \/ Throw \/ Reject \/ ListenerClears \/ ListenerThrows
  BY <1>3, QuietActions, AwaitedActions
<1>4. CASE OnLine
  BY <1>4, OnLineStep
<1>5. CASE Crash \/ RefuseAwaited
  BY <1>5, DroppedSteps
<1>6. CASE Execute \/ RefuseTick
  <2>1. commands # <<>> /\ (RefuseTick => ~Head(commands).awaited)
    BY <1>6 DEF Execute, RefuseTick
  <2> QED
    BY <1>6, <2>1, TickStep, AnswerStep
<1> QED
  BY <1>1, <1>2, <1>3, <1>4, <1>5, <1>6 DEF Next

LEMMA ProgressInvariant == Spec => []IInv
BY ProgressInit, ProgressStep, PTL DEF Spec

-------------------------------------------------------------------------------
(* Every variable keeps to its values: no percentage but 0 to 100 reaches  *)
(* Redis, however far ffmpeg goes past the duration it was probed with      *)
(* (ffmpeg_transcoder.ts:127-130).                                          *)
THEOREM PercentagesStayInRange == Spec => []TypeOK
<1>1. IInv => TypeOK
  BY DEF IInv
<1> QED
  BY <1>1, ProgressInvariant, PTL

(* The 100 of a success and the DEL of a failure are what Redis is left    *)
(* with (process_transcode.ts:128, fail_transcode.ts:40).                   *)
THEOREM TheEndHasTheLastWord == Spec => []EndHasTheLastWord
<1>1. IInv => EndHasTheLastWord
  BY DEF IInv
<1> QED
  BY <1>1, ProgressInvariant, PTL

(* An encode sends no more SETs than it gains percents, whatever ffmpeg    *)
(* writes (process_transcode.ts:90-92).                                     *)
THEOREM TicksAreThrottled == Spec => []SetsAreThrottled
<1>1. IInv => SetsAreThrottled
  BY DEF IInv
<1> QED
  BY <1>1, ProgressInvariant, PTL

(* The percentage falls only when an encode starts over or the key goes,   *)
(* for any number of lines, any digits and any number of attempts.          *)
THEOREM PercentageNeverFalls == Spec => ProgressNeverFalls
<1>1. IInv /\ [Next]_vars
        => [key' < key => key' = Absent \/ (key' = 0 /\ pc = "set0")]_vars
  <2> SUFFICES ASSUME IInv, Next, key' < key
               PROVE  key' = Absent \/ (key' = 0 /\ pc = "set0")
    OBVIOUS
  <2>1. TypeOK /\ key \in Int
    BY QueueIsTyped DEF IInv
  <2>2. CASE ~Execute
    <3>1. key' = key \/ key' = Absent
      BY <2>2 DEF Next, Start, Write, Read, OnLine, EndEncode, Push, Return, Throw,
         Reject, ListenerClears, ListenerThrows,
         Crash, RefuseTick, RefuseAwaited, Expire
    <3> QED
      BY <2>1, <3>1
  <2>3. CASE Execute
    <3>1. commands # <<>> /\ key' = Head(commands).percent
      BY <2>3 DEF Execute
    <3>2. Head(commands) = commands[1] /\ 1 \in 1..Len(commands)
      BY <2>1, <3>1, TakenFirst DEF TypeOK
    <3>3. CASE Head(commands).awaited
      <4>1. LastCommand = Head(commands) /\ pc \in Awaiting
        BY <3>1, <3>2, <3>3 DEF LastCommand, IInv, OnlyLastIsAwaited
      <4>2. pc # "set100"
        <5>1. key <= 100 /\ (pc = "set100" => key' = 100)
          BY <2>1, <3>1, <4>1 DEF IInv, OnlyLastIsAwaited, TypeOK, Full, Absent
        <5> QED
          BY <2>1, <5>1
      <4> QED
        BY <3>1, <4>1, <4>2 DEF IInv, OnlyLastIsAwaited, Awaiting
    <3>4. CASE ~Head(commands).awaited
      <4>1. key < key'
        BY <3>1, <3>2, <3>4 DEF IInv, TicksRise
      <4>2. key' \in Int
        BY <2>1, <3>1, <3>2, QueueIsTyped
      <4> QED
        BY <2>1, <4>1, <4>2
    <3> QED
      BY <3>3, <3>4
  <2> QED
    BY <2>2, <2>3
<1> QED
  BY <1>1, ProgressInvariant, PTL DEF Spec, ProgressNeverFalls
-------------------------------------------------------------------------------
(* No report is lost between two chunks: the text that was not read yet    *)
(* holds, line by line, every report that was not taken into account.       *)

Unread == lines \o buffer \o pipe
OneLine(text) == \A k \in 1..Len(text) : text[k] # NL
EndsALine(text) == text # <<>> => text[Len(text)] = NL

(* From i on, the text has this line and its end. *)
HasLine(text, i, line) ==
  /\ i \in 1..Len(text) /\ i + Len(line) <= Len(text)
  /\ i > 1 => text[i - 1] = NL
  /\ text[i + Len(line)] = NL
  /\ \A k \in 1..Len(line) : text[i + k - 1] = line[k]

TextIsWhole ==
  /\ lines \in Seq(Nat) /\ buffer \in Seq(Nat) /\ pipe \in Seq(Nat)
  /\ written \in Seq(Lines)
  /\ OneLine(buffer) /\ EndsALine(lines) /\ EndsALine(pipe)
  /\ pipe = <<>> => buffer = <<>>
  /\ pc # "encoding" => pipe = <<>> /\ lines = <<>>

NothingIsLost ==
  pc = "encoding" =>
    /\ \A line \in Seq(Nat), i \in Nat :
         OneLine(line) /\ HasLine(Unread, i, line) => line \in Range(written)
    /\ \A line \in Range(written) :
         Matches(line) /\ probed =>
           PercentOf(line) <= last \/ \E i \in Nat : HasLine(Unread, i, line)
    /\ last \in {0} \union Reported /\ (~probed => last = 0)

LEMMA LinesAreText ==
  ASSUME NEW line \in Lines
  PROVE  line \in Seq(Nat) /\ OneLine(line)
<1>1. CASE \E d \in Digits : line = <<TimeKey, d>>
  BY <1>1, DigitsAreDigits DEF OneLine, TimeKey, NL
<1>2. CASE \E d, e \in Digits : line = <<TimeKey, d, e>>
  BY <1>2, DigitsAreDigits DEF OneLine, TimeKey, NL
<1>3. CASE line = <<TimeKey, Words>>
  BY <1>3 DEF OneLine, TimeKey, Words, NL
<1>4. CASE line = <<Words>>
  BY <1>4 DEF OneLine, TimeKey, Words, NL
<1> QED
  BY <1>1, <1>2, <1>3, <1>4 DEF Lines

LEMMA Joined ==
  ASSUME NEW s \in Seq(Nat), NEW t \in Seq(Nat)
  PROVE  /\ s \o t \in Seq(Nat) /\ Len(s \o t) = Len(s) + Len(t)
         /\ Len(s) \in Nat /\ Len(t) \in Nat
         /\ \A k \in 1..Len(s) : (s \o t)[k] = s[k]
         /\ \A k \in 1..Len(t) : (s \o t)[Len(s) + k] = t[k]
<1>1. Len(s) \in Nat /\ Len(t) \in Nat
  BY LenProperties
<1>2. /\ s \o t \in Seq(Nat) /\ Len(s \o t) = Len(s) + Len(t)
      /\ \A i \in 1..(Len(s) + Len(t)) :
           (s \o t)[i] = IF i <= Len(s) THEN s[i] ELSE t[i - Len(s)]
  BY ConcatProperties
<1>3. ASSUME NEW k \in 1..Len(s) PROVE (s \o t)[k] = s[k]
  BY <1>1, <1>2
<1>4. ASSUME NEW k \in 1..Len(t) PROVE (s \o t)[Len(s) + k] = t[k]
  <2>1. Len(s) + k \in 1..(Len(s) + Len(t)) /\ ~(Len(s) + k <= Len(s))
        /\ (Len(s) + k) - Len(s) = k
    BY <1>1
  <2> QED
    BY <1>2, <2>1
<1> QED
  BY <1>1, <1>2, <1>3, <1>4

LEMMA Regrouped ==
  ASSUME NEW s \in Seq(Nat), NEW t \in Seq(Nat), NEW u \in Seq(Nat)
  PROVE  s \o (t \o u) = (s \o t) \o u
BY ConcatAssociative

(* A line added at the end of a text. *)
LEMMA LineAtTheEnd ==
  ASSUME NEW text \in Seq(Nat), NEW line \in Seq(Nat), OneLine(line), EndsALine(text),
         NEW after, after = text \o Append(line, NL)
  PROVE  /\ after \in Seq(Nat) /\ EndsALine(after) /\ after # <<>>
         /\ HasLine(after, Len(text) + 1, line)
         /\ \A other \in Seq(Nat), i \in Nat :
              /\ HasLine(text, i, other) => HasLine(after, i, other)
              /\ OneLine(other) /\ HasLine(after, i, other)
                   => other = line \/ HasLine(text, i, other)
<1> DEFINE ended == Append(line, NL)
<1>1. /\ ended \in Seq(Nat) /\ Len(ended) = Len(line) + 1
      /\ \A k \in 1..Len(line) : ended[k] = line[k]
      /\ ended[Len(line) + 1] = NL
      /\ Len(line) \in Nat /\ Len(text) \in Nat
  BY AppendProperties, LenProperties DEF NL
<1> HIDE DEF ended
<1>2. /\ after \in Seq(Nat) /\ Len(after) = Len(text) + Len(line) + 1
      /\ \A k \in 1..Len(text) : after[k] = text[k]
      /\ \A k \in 1..(Len(line) + 1) : after[Len(text) + k] = ended[k]
  <2>1. after = text \o ended
    BY DEF ended
  <2>2. /\ after \in Seq(Nat) /\ Len(after) = Len(text) + Len(ended)
        /\ \A k \in 1..Len(text) : after[k] = text[k]
        /\ \A k \in 1..Len(ended) : after[Len(text) + k] = ended[k]
    <3> ended \in Seq(Nat)
      BY <1>1
    <3> QED
      BY ONLY <2>1, Joined, ended \in Seq(Nat), text \in Seq(Nat)
  <2>3. Len(ended) = Len(line) + 1 /\ Len(text) + (Len(line) + 1) = Len(text) + Len(line) + 1
    BY <1>1
  <2> QED
    BY <2>2, <2>3
<1>3. /\ \A k \in 1..Len(line) : after[Len(text) + k] = line[k]
      /\ after[Len(text) + Len(line) + 1] = NL
  BY <1>1, <1>2
<1>4. after # <<>> /\ EndsALine(after)
  <2>1. Len(<<>>) = 0
    BY EmptySeq
  <2> QED
    BY <1>1, <1>2, <1>3, <2>1 DEF EndsALine
<1>5. Len(text) > 0 => text[Len(text)] = NL
  <2>1. Len(<<>>) = 0
    BY EmptySeq
  <2> QED
    BY <2>1 DEF EndsALine
<1>6. HasLine(after, Len(text) + 1, line)
  <2> DEFINE i == Len(text) + 1
  <2>1. i \in 1..Len(after) /\ i + Len(line) <= Len(after)
        /\ i + Len(line) = Len(text) + Len(line) + 1
    BY <1>1, <1>2
  <2>2. i > 1 => after[i - 1] = NL
    <3>1. i > 1 => Len(text) \in 1..Len(text) /\ i - 1 = Len(text)
      BY <1>1
    <3> QED
      BY <1>1, <1>2, <1>5, <3>1
  <2>3. \A k \in 1..Len(line) : after[i + k - 1] = line[k]
    <3>1. \A k \in 1..Len(line) : i + k - 1 = Len(text) + k
      BY <1>1
    <3> QED
      BY <1>3, <3>1
  <2> QED
    BY <1>3, <2>1, <2>2, <2>3 DEF HasLine
<1>7. ASSUME NEW other \in Seq(Nat), NEW i \in Nat, HasLine(text, i, other)
      PROVE  HasLine(after, i, other)
  <2>1. Len(other) \in Nat
    BY LenProperties
  <2> QED
    BY <1>1, <1>2, <1>7, <2>1 DEF HasLine
<1>8. ASSUME NEW other \in Seq(Nat), NEW i \in Nat, OneLine(other), HasLine(after, i, other)
      PROVE  other = line \/ HasLine(text, i, other)
  <2>1. Len(other) \in Nat
    BY LenProperties
  <2>2. CASE i + Len(other) <= Len(text)
    BY <1>1, <1>2, <1>8, <2>1, <2>2 DEF HasLine
  <2>3. CASE i + Len(other) > Len(text)
    <3>1. i + Len(other) = Len(text) + Len(line) + 1
      <4>1. \A k \in 1..Len(line) : after[Len(text) + k] # NL
        BY <1>3 DEF OneLine
      <4>2. i + Len(other) <= Len(text) + Len(line) + 1 /\ after[i + Len(other)] = NL
        <5>1. i + Len(other) <= Len(after) /\ after[i + Len(other)] = NL
          BY <1>8 DEF HasLine
        <5> QED
          BY <1>2, <5>1
      <4>3. Len(text) \in Nat /\ Len(line) \in Nat /\ Len(other) \in Nat /\ i \in Nat
        BY <1>1, <2>1
      <4>4. ~(i + Len(other) < Len(text) + Len(line) + 1)
        <5> SUFFICES ASSUME i + Len(other) < Len(text) + Len(line) + 1 PROVE FALSE
          OBVIOUS
        <5> DEFINE k == i + Len(other) - Len(text)
        <5>1. k \in Int /\ Len(text) + k = i + Len(other)
          BY <4>3
        <5> HIDE DEF k
        <5>2. k >= 1 /\ k <= Len(line)
          BY <2>3, <4>3, <5>1
        <5>3. k \in 1..Len(line)
          BY <4>3, <5>1, <5>2
        <5> QED
          BY <4>1, <4>2, <5>1, <5>3
      <4> DEFINE a == i + Len(other)  b == Len(text) + Len(line) + 1
      <4>5. a \in Int /\ b \in Int /\ a <= b /\ ~(a < b)
        BY <4>2, <4>3, <4>4
      <4> HIDE DEF a, b
      <4>6. a = b
        BY ONLY <4>5
      <4> QED
        BY <4>6 DEF a, b
    <3> DEFINE t == Len(text)  l == Len(line)  o == Len(other)
    <3>2. /\ t \in Nat /\ l \in Nat /\ o \in Nat /\ i \in Nat /\ 1 <= i
          /\ i + o = t + l + 1
      BY <1>1, <1>8, <2>1, <3>1 DEF HasLine
    <3> HIDE DEF t, l, o
    <3>3. i = t + 1
      <4>1. ~(i <= t)
        <5> SUFFICES ASSUME i <= t PROVE FALSE
          OBVIOUS
        <5> DEFINE k == t - i + 1
        <5>1. k \in Int /\ 1 <= k /\ k <= o /\ i + k - 1 = t
          BY <3>2
        <5>2. after[i + k - 1] = other[k] /\ k \in 1..Len(other)
          <6>1. k \in 1..o
            BY <3>2, <5>1
          <6> HIDE DEF k
          <6> QED
            BY <1>8, <6>1 DEF HasLine, o
        <5>3. t \in 1..Len(text) /\ after[t] = text[t]
          <6>1. t \in 1..t
            BY <3>2
          <6> QED
            BY <1>2, <6>1 DEF t
        <5>4. text[t] = NL
          <6>1. t > 0
            BY <3>2
          <6> QED
            BY <1>5, <6>1 DEF t
        <5> HIDE DEF k
        <5> QED
          BY <1>8, <5>1, <5>2, <5>3, <5>4 DEF OneLine
      <4>2. ~(i > t + 1)
        <5> SUFFICES ASSUME i > t + 1 PROVE FALSE
          OBVIOUS
        <5> DEFINE k == i - 1 - t
        <5>1. k \in Int /\ 1 <= k /\ k <= l /\ t + k = i - 1 /\ i > 1
          BY <3>2
        <5> HIDE DEF k
        <5>2. k \in 1..Len(line) /\ after[t + k] = line[k]
          <6>1. k \in 1..l
            BY <3>2, <5>1
          <6> QED
            BY <1>3, <6>1 DEF l, t
        <5>3. after[i - 1] = NL
          BY <1>8, <5>1 DEF HasLine
        <5> QED
          BY <5>1, <5>2, <5>3 DEF OneLine
      <4> QED
        BY <3>2, <4>1, <4>2
    <3>4. o = l
      BY <3>2, <3>3
    <3>5. \A k \in 1..Len(other) : other[k] = line[k]
      <4> SUFFICES ASSUME NEW k \in 1..Len(other) PROVE other[k] = line[k]
        OBVIOUS
      <4>1. after[i + k - 1] = other[k]
        BY <1>8 DEF HasLine
      <4>2. i + k - 1 = t + k
        BY <2>1, <3>2, <3>3
      <4>3. after[t + k] = line[k]
        BY <1>3, <3>4 DEF t, l, o
      <4> QED
        BY <4>1, <4>2, <4>3
    <3> QED
      BY <3>4, <3>5, SeqEqual DEF l, o
  <2> QED
    BY <1>1, <2>1, <2>2, <2>3
<1> QED
  BY <1>2, <1>4, <1>6, <1>7, <1>8

(* A line taken from the front of a text. *)
LEMMA LineAtTheFront ==
  ASSUME NEW line \in Seq(Nat), OneLine(line), NEW rest \in Seq(Nat),
         NEW text, text = Append(line, NL) \o rest
  PROVE  /\ HasLine(text, 1, line)
         /\ \A other \in Seq(Nat), i \in Nat :
              /\ HasLine(rest, i, other) => HasLine(text, Len(line) + 1 + i, other)
              /\ OneLine(other) /\ HasLine(text, i, other)
                   => other = line \/ \E j \in Nat : HasLine(rest, j, other)
<1> DEFINE ended == Append(line, NL)
<1>1. /\ ended \in Seq(Nat) /\ Len(ended) = Len(line) + 1
      /\ \A k \in 1..Len(line) : ended[k] = line[k]
      /\ ended[Len(line) + 1] = NL
      /\ Len(line) \in Nat /\ Len(rest) \in Nat
  BY AppendProperties, LenProperties DEF NL
<1> HIDE DEF ended
<1>2. /\ Len(text) = Len(line) + 1 + Len(rest)
      /\ \A k \in 1..Len(line) : text[k] = line[k]
      /\ text[Len(line) + 1] = NL
      /\ \A k \in 1..Len(rest) : text[Len(line) + 1 + k] = rest[k]
  <2>1. text = ended \o rest
    BY DEF ended
  <2>2. /\ Len(text) = Len(ended) + Len(rest)
        /\ \A k \in 1..Len(ended) : text[k] = ended[k]
        /\ \A k \in 1..Len(rest) : text[Len(ended) + k] = rest[k]
    <3> ended \in Seq(Nat)
      BY <1>1
    <3> QED
      BY ONLY <2>1, Joined, ended \in Seq(Nat), rest \in Seq(Nat)
  <2>3. \A k \in 1..(Len(line) + 1) : text[k] = ended[k]
    BY <1>1, <2>2
  <2>4. Len(line) + 1 \in 1..(Len(line) + 1) /\ \A k \in 1..Len(line) : k \in 1..(Len(line) + 1)
    BY <1>1
  <2> QED
    BY <1>1, <2>2, <2>3, <2>4
<1>3. HasLine(text, 1, line)
  BY <1>1, <1>2 DEF HasLine
<1>4. ASSUME NEW other \in Seq(Nat), NEW i \in Nat, HasLine(rest, i, other)
      PROVE  HasLine(text, Len(line) + 1 + i, other)
  <2>1. Len(other) \in Nat /\ i \in 1..Len(rest) /\ i + Len(other) <= Len(rest)
    BY <1>4, LenProperties DEF HasLine
  <2> DEFINE p == Len(line) + 1 + i
  <2>2. p \in 1..Len(text) /\ p + Len(other) <= Len(text)
    BY <1>1, <1>2, <2>1
  <2>3. p > 1 => text[p - 1] = NL
    <3>1. CASE i = 1
      BY <1>1, <1>2, <3>1
    <3>2. CASE i > 1
      <4>1. rest[i - 1] = NL /\ i - 1 \in 1..Len(rest) /\ p - 1 = Len(line) + 1 + (i - 1)
        BY <1>1, <1>4, <2>1, <3>2 DEF HasLine
      <4>2. text[Len(line) + 1 + (i - 1)] = rest[i - 1]
        BY <1>2, <4>1
      <4> QED
        BY <4>1, <4>2
    <3> QED
      BY <2>1, <3>1, <3>2
  <2>4. text[p + Len(other)] = NL
    <3>0. rest[i + Len(other)] = NL
      BY <1>4 DEF HasLine
    <3>1. i + Len(other) \in 1..Len(rest)
          /\ p + Len(other) = Len(line) + 1 + (i + Len(other))
      BY <1>1, <2>1
    <3>2. text[Len(line) + 1 + (i + Len(other))] = rest[i + Len(other)]
      BY <1>2, <3>1
    <3> QED
      BY <3>0, <3>1, <3>2
  <2>5. \A k \in 1..Len(other) : text[p + k - 1] = other[k]
    <3> SUFFICES ASSUME NEW k \in 1..Len(other) PROVE text[p + k - 1] = other[k]
      OBVIOUS
    <3>0. rest[i + k - 1] = other[k]
      BY <1>4 DEF HasLine
    <3>1. i + k - 1 \in 1..Len(rest) /\ p + k - 1 = Len(line) + 1 + (i + k - 1)
      BY <1>1, <2>1
    <3>2. text[Len(line) + 1 + (i + k - 1)] = rest[i + k - 1]
      BY <1>2, <3>1
    <3> QED
      BY <3>0, <3>1, <3>2
  <2> QED
    BY <2>2, <2>3, <2>4, <2>5 DEF HasLine
<1>5. ASSUME NEW other \in Seq(Nat), NEW i \in Nat, OneLine(other), HasLine(text, i, other)
      PROVE  other = line \/ \E j \in Nat : HasLine(rest, j, other)
  <2>1. Len(other) \in Nat /\ i \in 1..Len(text) /\ i + Len(other) <= Len(text)
    BY <1>5, LenProperties DEF HasLine
  <2>2. CASE i <= Len(line) + 1
    <3>1. i = 1
      <4> SUFFICES ASSUME i > 1 PROVE FALSE
        BY <2>1
      <4>1. text[i - 1] = NL /\ i - 1 \in 1..Len(line)
        BY <1>1, <1>5, <2>2 DEF HasLine
      <4>2. text[i - 1] = line[i - 1]
        BY <1>2, <4>1
      <4> QED
        BY <4>1, <4>2 DEF OneLine
    <3>2. Len(other) >= Len(line)
      <4> SUFFICES ASSUME Len(other) < Len(line) PROVE FALSE
        BY <1>1, <2>1
      <4>1. Len(other) + 1 \in 1..Len(line) /\ text[Len(other) + 1] = NL
        BY <1>1, <1>5, <2>1, <3>1 DEF HasLine
      <4>2. text[Len(other) + 1] = line[Len(other) + 1]
        BY <1>2, <4>1
      <4> QED
        BY <4>1, <4>2 DEF OneLine
    <3>3. Len(other) <= Len(line)
      <4> SUFFICES ASSUME Len(other) > Len(line) PROVE FALSE
        BY <1>1, <2>1
      <4>1. Len(line) + 1 \in 1..Len(other) /\ i + (Len(line) + 1) - 1 = Len(line) + 1
        BY <1>1, <2>1, <3>1
      <4>2. text[Len(line) + 1] = other[Len(line) + 1]
        BY <1>5, <4>1 DEF HasLine
      <4> QED
        BY <1>2, <1>5, <4>1, <4>2 DEF OneLine
    <3>4. \A k \in 1..Len(other) : other[k] = line[k]
      <4> SUFFICES ASSUME NEW k \in 1..Len(other) PROVE other[k] = line[k]
        OBVIOUS
      <4>1. text[i + k - 1] = other[k] /\ i + k - 1 = k /\ k \in 1..Len(line)
        BY <1>1, <1>5, <2>1, <3>1, <3>3 DEF HasLine
      <4>2. text[k] = line[k]
        BY <1>2, <4>1
      <4> QED
        BY <4>1, <4>2
    <3> QED
      BY <1>1, <2>1, <3>2, <3>3, <3>4, SeqEqual
  <2>3. CASE i > Len(line) + 1
    <3> DEFINE j == i - (Len(line) + 1)
    <3>1. /\ j \in 1..Len(rest) /\ j + Len(other) <= Len(rest) /\ j \in Nat
          /\ i = Len(line) + 1 + j
      BY <1>1, <1>2, <2>1, <2>3
    <3> HIDE DEF j
    <3>2. j > 1 => rest[j - 1] = NL
      <4> SUFFICES ASSUME j > 1 PROVE rest[j - 1] = NL
        OBVIOUS
      <4>1. j - 1 \in 1..Len(rest) /\ i - 1 = Len(line) + 1 + (j - 1) /\ i > 1
        BY <1>1, <3>1
      <4>2. text[i - 1] = NL
        BY <1>5, <4>1 DEF HasLine
      <4>3. text[Len(line) + 1 + (j - 1)] = rest[j - 1]
        BY <1>2, <4>1
      <4> QED
        BY <4>1, <4>2, <4>3
    <3>3. rest[j + Len(other)] = NL
      <4>1. j + Len(other) \in 1..Len(rest) /\ i + Len(other) = Len(line) + 1 + (j + Len(other))
        BY <1>1, <2>1, <3>1
      <4>2. text[i + Len(other)] = NL
        BY <1>5 DEF HasLine
      <4>3. text[Len(line) + 1 + (j + Len(other))] = rest[j + Len(other)]
        BY <1>2, <4>1
      <4> QED
        BY <4>1, <4>2, <4>3
    <3>4. \A k \in 1..Len(other) : rest[j + k - 1] = other[k]
      <4> SUFFICES ASSUME NEW k \in 1..Len(other) PROVE rest[j + k - 1] = other[k]
        OBVIOUS
      <4>1. j + k - 1 \in 1..Len(rest) /\ i + k - 1 = Len(line) + 1 + (j + k - 1)
        BY <1>1, <2>1, <3>1
      <4>2. text[i + k - 1] = other[k]
        BY <1>5 DEF HasLine
      <4>3. text[Len(line) + 1 + (j + k - 1)] = rest[j + k - 1]
        BY <1>2, <4>1
      <4> QED
        BY <4>1, <4>2, <4>3
    <3>5. HasLine(rest, j, other)
      BY <3>1, <3>2, <3>3, <3>4 DEF HasLine
    <3> QED
      BY <3>1, <3>5
  <2> QED
    BY <1>1, <2>1, <2>2, <2>3
<1> QED
  BY <1>3, <1>4, <1>5

LEMMA HeadIsAwaited ==
  ASSUME IInv, commands # <<>>, Head(commands).awaited
  PROVE  pc \in Awaiting
<1>1. 1 \in 1..Len(commands) /\ Head(commands) = commands[1]
  BY TakenFirst DEF IInv, TypeOK
<1>2. 1 = Len(commands)
  BY <1>1 DEF IInv, OnlyLastIsAwaited
<1>3. LastCommand = Head(commands)
  BY <1>1, <1>2 DEF LastCommand
<1> QED
  BY <1>3 DEF IInv, OnlyLastIsAwaited

(* The text under way is a text of lines. *)
LEMMA UnreadIsText ==
  ASSUME TextIsWhole
  PROVE  Unread \in Seq(Nat) /\ lines \o buffer \in Seq(Nat) /\ EndsALine(Unread)
<1>1. lines \in Seq(Nat) /\ buffer \in Seq(Nat) /\ pipe \in Seq(Nat)
  BY DEF TextIsWhole
<1>2. lines \o buffer \in Seq(Nat)
  BY ONLY <1>1, Joined
<1>3. Unread \in Seq(Nat)
  BY ONLY <1>1, <1>2, Joined DEF Unread
<1>4. CASE pipe = <<>>
  <2>1. buffer = <<>>
    BY <1>4 DEF TextIsWhole
  <2>2. lines \o buffer = lines
    BY ONLY <1>1, <2>1, ConcatEmptySeq
  <2>3. (lines \o buffer) \o pipe = lines
    BY ONLY <1>1, <1>4, <2>2, ConcatEmptySeq
  <2> QED
    BY <1>2, <1>3, <2>3 DEF Unread, TextIsWhole
<1>5. CASE pipe # <<>>
  <2> DEFINE front == lines \o buffer
  <2>1. front \in Seq(Nat) /\ Len(pipe) \in Nat \ {0} /\ pipe[Len(pipe)] = NL
    BY <1>1, <1>2, <1>5, EmptySeq DEF TextIsWhole, EndsALine
  <2> HIDE DEF front
  <2>2. /\ Len(front \o pipe) = Len(front) + Len(pipe)
        /\ \A k \in 1..Len(pipe) : (front \o pipe)[Len(front) + k] = pipe[k]
    BY ONLY <1>1, <2>1, Joined
  <2>3. (front \o pipe)[Len(front) + Len(pipe)] = pipe[Len(pipe)]
    BY <2>1, <2>2
  <2>4. EndsALine(front \o pipe)
    BY <2>1, <2>2, <2>3 DEF EndsALine
  <2> QED
    BY <1>2, <1>3, <2>4 DEF Unread, front
<1> QED
  BY <1>4, <1>5

(* ffmpeg writes a line. *)
LEMMA WrittenText ==
  ASSUME TextIsWhole, NothingIsLost, Write
  PROVE  TextIsWhole' /\ NothingIsLost'
<1>1. PICK line \in Lines : /\ written' = Append(written, line)
                            /\ pipe' = pipe \o Append(line, NL)
  BY DEF Write
<1>2. line \in Seq(Nat) /\ OneLine(line)
  BY LinesAreText
<1>3. pc = "encoding" /\ UNCHANGED <<probed, pc, buffer, lines, last>>
  BY DEF Write
<1>4. lines \in Seq(Nat) /\ buffer \in Seq(Nat) /\ pipe \in Seq(Nat)
      /\ EndsALine(pipe) /\ written \in Seq(Lines)
  BY DEF TextIsWhole
<1>5. pipe' \in Seq(Nat) /\ EndsALine(pipe') /\ pipe' # <<>>
  BY <1>1, <1>2, <1>4, LineAtTheEnd
<1>6. written' \in Seq(Lines) /\ Range(written') = Range(written) \union {line}
  <2>1. /\ written' \in Seq(Lines) /\ Len(written') = Len(written) + 1
        /\ Len(written) \in Nat
        /\ \A k \in 1..Len(written) : written'[k] = written[k]
        /\ written'[Len(written) + 1] = line
    BY <1>1, <1>4, AppendProperties, LenProperties
  <2>2. /\ Range(written') = {written'[k] : k \in 1..Len(written')}
        /\ Range(written) = {written[k] : k \in 1..Len(written)}
    BY <1>4, <2>1, RangeEquality
  <2>3. 1..Len(written') = (1..Len(written)) \union {Len(written) + 1}
    BY <2>1
  <2> QED
    BY <2>1, <2>2, <2>3
<1>7. TextIsWhole'
  BY <1>3, <1>5, <1>6 DEF TextIsWhole, OneLine, EndsALine
<1>8. Unread' = Unread \o Append(line, NL)
  <2> DEFINE ended == Append(line, NL)  front == lines \o buffer
  <2>1. ended \in Seq(Nat) /\ front \in Seq(Nat)
    BY <1>2, AppendProperties, UnreadIsText DEF NL
  <2>2. pipe' = pipe \o ended /\ Unread' = front \o pipe' /\ Unread = front \o pipe
    BY <1>1, <1>3 DEF Unread
  <2> HIDE DEF ended, front
  <2>3. front \o (pipe \o ended) = (front \o pipe) \o ended
    BY <1>4, <2>1, Regrouped
  <2> QED
    BY <2>2, <2>3 DEF ended
<1>9. /\ HasLine(Unread', Len(Unread) + 1, line) /\ Len(Unread) + 1 \in Nat
      /\ \A other \in Seq(Nat), i \in Nat :
           /\ HasLine(Unread, i, other) => HasLine(Unread', i, other)
           /\ OneLine(other) /\ HasLine(Unread', i, other)
                => other = line \/ HasLine(Unread, i, other)
  <2>1. Unread \in Seq(Nat) /\ EndsALine(Unread) /\ Len(Unread) \in Nat
    BY UnreadIsText, LenProperties
  <2> DEFINE text == Unread  after == Unread'
  <2>2. text \in Seq(Nat) /\ EndsALine(text) /\ after = text \o Append(line, NL)
    BY <1>8, <2>1
  <2> HIDE DEF text, after
  <2>3. /\ HasLine(after, Len(text) + 1, line)
        /\ \A other \in Seq(Nat), i \in Nat :
             /\ HasLine(text, i, other) => HasLine(after, i, other)
             /\ OneLine(other) /\ HasLine(after, i, other)
                  => other = line \/ HasLine(text, i, other)
    BY <1>2, <2>2, LineAtTheEnd
  <2> QED
    BY <2>1, <2>3 DEF text, after
<1>10. ASSUME NEW other \in Seq(Nat), NEW i \in Nat, OneLine(other), HasLine(Unread', i, other)
       PROVE  other \in Range(written')
  BY <1>3, <1>6, <1>9, <1>10 DEF NothingIsLost
<1>11. ASSUME NEW other \in Range(written'), Matches(other), probed
       PROVE  PercentOf(other) <= last \/ \E i \in Nat : HasLine(Unread', i, other)
  <2>1. CASE other = line
    BY <1>9, <2>1
  <2>2. CASE other \in Range(written)
    <3>1. other \in Seq(Nat)
      BY <1>4, <2>2, RangeOfSeq, LinesAreText
    <3> QED
      BY <1>3, <1>9, <1>11, <2>2, <3>1 DEF NothingIsLost
  <2> QED
    BY <1>6, <1>11, <2>1, <2>2
<1>12. last \in {0} \union Reported' /\ (~probed => last = 0)
  BY <1>3, <1>6 DEF NothingIsLost, Reported
<1> QED
  BY <1>3, <1>7, <1>10, <1>11, <1>12 DEF NothingIsLost

(* Node cuts a chunk off. *)
LEMMA ReadText ==
  ASSUME TextIsWhole, NothingIsLost, Read
  PROVE  TextIsWhole' /\ NothingIsLost'
<1> DEFINE Chunk(n) == buffer \o SubSeq(pipe, 1, n)
<1>1. PICK n \in 1..Len(pipe) :
        /\ \E end \in 0..Len(Chunk(n)) :
             /\ LastEndsAt(Chunk(n), end)
             /\ lines' = SubSeq(Chunk(n), 1, end)
             /\ buffer' = SubSeq(Chunk(n), end + 1, Len(Chunk(n)))
        /\ pipe' = SubSeq(pipe, n + 1, Len(pipe))
  BY DEF Read, Kept
<1> DEFINE text == Chunk(n)
<1>2. PICK end \in 0..Len(text) : /\ LastEndsAt(text, end)
                                  /\ lines' = SubSeq(text, 1, end)
                                  /\ buffer' = SubSeq(text, end + 1, Len(text))
  BY <1>1
<1>3. pc = "encoding" /\ lines = <<>> /\ UNCHANGED <<probed, pc, written, last>>
  BY DEF Read
<1>4. lines \in Seq(Nat) /\ buffer \in Seq(Nat) /\ pipe \in Seq(Nat) /\ EndsALine(pipe)
      /\ Len(pipe) \in Nat
  BY LenProperties DEF TextIsWhole
<1> DEFINE chunk == SubSeq(pipe, 1, n)
<1>5. /\ chunk \in Seq(Nat) /\ Len(chunk) = n /\ chunk[n] = pipe[n]
      /\ pipe' \in Seq(Nat) /\ Len(pipe') = Len(pipe) - n
      /\ n < Len(pipe) => pipe'[Len(pipe) - n] = pipe[Len(pipe)]
      /\ chunk \o pipe' = pipe
  <2>1. \A k \in 1..Len(pipe) : pipe[k] \in Nat
    BY <1>4, ElementOfSeq
  <2>2. /\ chunk \in Seq(Nat) /\ Len(chunk) = IF 1 <= n THEN n - 1 + 1 ELSE 0
        /\ \A k \in 1..(n - 1 + 1) : chunk[k] = pipe[1 + k - 1]
    BY <1>4, <2>1, SubSeqProperties
  <2>3. /\ pipe' \in Seq(Nat)
        /\ Len(pipe') = IF n + 1 <= Len(pipe) THEN Len(pipe) - (n + 1) + 1 ELSE 0
        /\ \A k \in 1..(Len(pipe) - (n + 1) + 1) : pipe'[k] = pipe[n + 1 + k - 1]
    BY <1>1, <1>4, <2>1, SubSeqProperties
  <2>4. chunk \o pipe' = pipe
    <3>1. SubSeq(pipe, 1, n) \o SubSeq(pipe, n + 1, Len(pipe)) = SubSeq(pipe, 1, Len(pipe))
      <4>1. 1 \in 1..(Len(pipe) + 1) /\ n \in (1 - 1)..Len(pipe)
            /\ Len(pipe) \in n..Len(pipe)
        BY <1>4
      <4> QED
        BY <1>4, <4>1, ConcatAdjacentSubSeq
    <3> QED
      BY <1>1, <1>4, <3>1, SubSeqFull
  <2>5. Len(chunk) = n /\ chunk[n] = pipe[n] /\ Len(pipe') = Len(pipe) - n
    BY <1>4, <2>2, <2>3
  <2>6. n < Len(pipe) => pipe'[Len(pipe) - n] = pipe[Len(pipe)]
    BY <1>4, <2>3
  <2> QED
    BY <2>2, <2>3, <2>4, <2>5, <2>6
<1> HIDE DEF chunk
<1>6. /\ text \in Seq(Nat) /\ Len(text) = Len(buffer) + n /\ text[Len(text)] = pipe[n]
      /\ Len(buffer) \in Nat /\ Len(text) \in Nat
  <2>1. text = buffer \o chunk
    BY DEF chunk
  <2>2. chunk \in Seq(Nat)
    BY <1>5
  <2>3. /\ buffer \o chunk \in Seq(Nat) /\ Len(buffer) \in Nat
        /\ Len(buffer \o chunk) = Len(buffer) + Len(chunk)
        /\ \A k \in 1..Len(chunk) : (buffer \o chunk)[Len(buffer) + k] = chunk[k]
    BY <1>4, <2>2, Joined
  <2>4. n \in 1..Len(chunk) /\ Len(chunk) = n /\ chunk[n] = pipe[n]
    BY <1>4, <1>5
  <2>5. (buffer \o chunk)[Len(buffer) + n] = pipe[n]
    BY <2>3, <2>4
  <2> HIDE DEF text
  <2> QED
    BY <1>4, <2>1, <2>3, <2>4, <2>5
<1> DEFINE whole == text
<1>7. whole = buffer \o chunk
  BY DEF chunk
<1> HIDE DEF whole
<1>8. /\ lines' \in Seq(Nat) /\ buffer' \in Seq(Nat)
      /\ Len(lines') = end /\ Len(buffer') = Len(whole) - end
      /\ end > 0 => lines'[end] = whole[end]
      /\ \A k \in 1..(Len(whole) - end) : buffer'[k] = whole[end + k]
      /\ lines' \o buffer' = whole
  <2>1. whole \in Seq(Nat) /\ Len(whole) \in Nat /\ end \in 0..Len(whole)
        /\ lines' = SubSeq(whole, 1, end) /\ buffer' = SubSeq(whole, end + 1, Len(whole))
    BY <1>2, <1>6 DEF whole
  <2>2. 1 \in 1..(Len(whole) + 1) /\ end \in (1 - 1)..Len(whole)
        /\ Len(whole) \in end..Len(whole)
    BY <2>1
  <2>3. \A k \in 1..Len(whole) : whole[k] \in Nat
    BY <2>1, ElementOfSeq
  <2>4. /\ lines' \in Seq(Nat) /\ Len(lines') = IF 1 <= end THEN end - 1 + 1 ELSE 0
        /\ \A k \in 1..(end - 1 + 1) : lines'[k] = whole[1 + k - 1]
    BY <2>1, <2>3, SubSeqProperties
  <2>5. /\ buffer' \in Seq(Nat)
        /\ Len(buffer') = IF end + 1 <= Len(whole) THEN Len(whole) - (end + 1) + 1 ELSE 0
        /\ \A k \in 1..(Len(whole) - (end + 1) + 1) : buffer'[k] = whole[end + 1 + k - 1]
    BY <2>1, <2>3, SubSeqProperties
  <2>6. lines' \o buffer' = whole
    <3>1. SubSeq(whole, 1, end) \o SubSeq(whole, end + 1, Len(whole)) = SubSeq(whole, 1, Len(whole))
      BY <2>2, <2>1, ConcatAdjacentSubSeq
    <3> QED
      BY <2>1, <3>1, SubSeqFull
  <2>7. Len(lines') = end /\ (end > 0 => lines'[end] = whole[end])
    BY <2>1, <2>4
  <2>8. Len(buffer') = Len(whole) - end
    BY <2>1, <2>5
  <2>9. \A k \in 1..(Len(whole) - end) : buffer'[k] = whole[end + k]
    BY <2>1, <2>5
  <2> QED
    BY <2>4, <2>5, <2>6, <2>7, <2>8, <2>9
<1>9. /\ whole \in Seq(Nat) /\ Len(whole) \in Nat /\ end \in 0..Len(whole)
      /\ whole[Len(whole)] = pipe[n] /\ Len(whole) = Len(buffer) + n /\ Len(buffer) \in Nat
      /\ end > 0 => whole[end] = NL
      /\ \A k \in (end + 1)..Len(whole) : whole[k] # NL
  BY <1>2, <1>6 DEF LastEndsAt, whole
<1>10. OneLine(buffer')
  <2> SUFFICES ASSUME NEW k \in 1..Len(buffer') PROVE buffer'[k] # NL
    BY DEF OneLine
  <2>1. k \in 1..(Len(whole) - end) /\ end + k \in (end + 1)..Len(whole)
    BY <1>8, <1>9
  <2> QED
    BY <1>8, <1>9, <2>1
<1>11. EndsALine(lines')
  <2>1. lines' # <<>> => end > 0
    BY <1>8, <1>9, EmptySeq
  <2> QED
    BY <1>8, <1>9, <2>1 DEF EndsALine
<1>12. pipe # <<>> /\ pipe[Len(pipe)] = NL
  <2>1. Len(<<>>) = 0
    BY EmptySeq
  <2> QED
    BY <1>4, <2>1 DEF EndsALine
<1>13. EndsALine(pipe')
  <2>1. pipe' # <<>> => n < Len(pipe)
    BY <1>4, <1>5, EmptySeq
  <2> QED
    BY <1>5, <1>12, <2>1 DEF EndsALine
<1>14. ASSUME pipe' = <<>> PROVE buffer' = <<>>
  <2>1. Len(pipe') = 0
    BY <1>14, EmptySeq
  <2>2. n = Len(pipe)
    BY <1>4, <1>5, <2>1
  <2>3. whole[Len(whole)] = NL /\ Len(whole) > 0
    BY <1>9, <1>12, <2>2
  <2>4. end = Len(whole)
    BY <1>9, <2>3
  <2>5. Len(buffer') = 0
    BY <1>8, <1>9, <2>4
  <2> QED
    BY <1>8, <2>5, EmptySeq
<1>15. TextIsWhole'
  <2>1. written' \in Seq(Lines) /\ pc' = "encoding"
    BY <1>3 DEF TextIsWhole
  <2> QED
    BY <1>5, <1>8, <1>10, <1>11, <1>13, <1>14, <2>1 DEF TextIsWhole, OneLine, EndsALine
<1>16. Unread' = Unread
  <2>1. Unread = buffer \o pipe
    BY <1>3, <1>4, ConcatEmptySeq DEF Unread
  <2>2. Unread' = (buffer \o chunk) \o pipe'
    BY <1>7, <1>8 DEF Unread
  <2>3. (buffer \o chunk) \o pipe' = buffer \o (chunk \o pipe')
    BY <1>4, <1>5, Regrouped
  <2> QED
    BY <1>5, <2>1, <2>2, <2>3
<1>17. NothingIsLost'
  BY <1>3, <1>16 DEF NothingIsLost, Reported
<1> QED
  BY <1>15, <1>17

(* A line is taken from the text. *)
LEMMA LineTaken ==
  ASSUME IInv, TextIsWhole, NothingIsLost, OnLine
  PROVE  TextIsWhole' /\ NothingIsLost'
<1>1. PICK end \in 1..Len(lines) :
        /\ FirstEndsAt(lines, end)
        /\ lines' = SubSeq(lines, end + 1, Len(lines))
        /\ LET line == SubSeq(lines, 1, end - 1)
               percent == PercentOf(line) IN
           IF Matches(line) /\ probed /\ Gained(percent)
           THEN last' = percent /\ sent' = sent + 1 /\ Send(percent, FALSE)
           ELSE UNCHANGED <<last, sent, commands>>
  BY DEF OnLine
<1> DEFINE line == SubSeq(lines, 1, end - 1)
<1>2. IF Matches(line) /\ probed /\ Gained(PercentOf(line))
      THEN last' = PercentOf(line) ELSE UNCHANGED last
  BY <1>1
<1>3. pc = "encoding" /\ UNCHANGED <<probed, pc, written, pipe, buffer>>
  <2>1. lines # <<>>
    BY TickOrNothing
  <2> QED
    BY <2>1 DEF OnLine, IInv, EncodeIsAhead
<1>4. lines \in Seq(Nat) /\ buffer \in Seq(Nat) /\ pipe \in Seq(Nat) /\ Len(lines) \in Nat
  BY LenProperties DEF TextIsWhole
<1>5. lines[end] = NL /\ \A k \in 1..(end - 1) : lines[k] # NL
  BY <1>1 DEF FirstEndsAt
<1>6. /\ line \in Seq(Nat) /\ OneLine(line)
      /\ lines' \in Seq(Nat) /\ EndsALine(lines')
      /\ Append(line, NL) \o lines' = lines
  <2>1. \A k \in 1..Len(lines) : lines[k] \in Nat
    BY <1>4, ElementOfSeq
  <2>2. end - 1 \in Nat /\ end \in Nat
    BY <1>4
  <2>3. /\ line \in Seq(Nat) /\ Len(line) = IF 1 <= end - 1 THEN (end - 1) - 1 + 1 ELSE 0
        /\ \A k \in 1..((end - 1) - 1 + 1) : line[k] = lines[1 + k - 1]
    <3>1. \A k \in 1..(end - 1) : lines[k] \in Nat
      BY <1>4, <2>1
    <3> QED
      BY <2>2, <3>1, SubSeqProperties
  <2>4. OneLine(line)
    <3> SUFFICES ASSUME NEW k \in 1..Len(line) PROVE line[k] # NL
      BY DEF OneLine
    <3>1. k \in 1..((end - 1) - 1 + 1) /\ k \in 1..(end - 1) /\ 1 + k - 1 = k
      BY <2>2, <2>3
    <3>2. line[k] = lines[k]
      BY <2>3, <3>1
    <3> HIDE DEF line
    <3> QED
      BY <1>5, <3>1, <3>2
  <2>5. /\ lines' \in Seq(Nat)
        /\ Len(lines') = IF end + 1 <= Len(lines) THEN Len(lines) - (end + 1) + 1 ELSE 0
        /\ \A k \in 1..(Len(lines) - (end + 1) + 1) : lines'[k] = lines[end + 1 + k - 1]
    BY <1>1, <1>4, <2>1, <2>2, SubSeqProperties
  <2>6. EndsALine(lines')
    <3>1. lines' # <<>> => end < Len(lines)
      BY <1>4, <2>2, <2>5, EmptySeq
    <3>2. lines[Len(lines)] = NL
      <4>1. lines # <<>>
        BY TickOrNothing
      <4> QED
        BY <4>1 DEF TextIsWhole, EndsALine
    <3>3. end < Len(lines) => lines'[Len(lines')] = lines[Len(lines)]
      <4> SUFFICES ASSUME end < Len(lines) PROVE lines'[Len(lines')] = lines[Len(lines)]
        OBVIOUS
      <4> DEFINE k == Len(lines) - (end + 1) + 1
      <4>1. Len(lines') = k
        BY <1>4, <2>2, <2>5
      <4>2. k \in 1..(Len(lines) - (end + 1) + 1) /\ end + 1 + k - 1 = Len(lines)
        BY <1>4, <2>2
      <4> HIDE DEF k
      <4>3. lines'[k] = lines[end + 1 + k - 1]
        BY <2>5, <4>2
      <4> QED
        BY <4>1, <4>2, <4>3
    <3> QED
      BY <3>1, <3>2, <3>3 DEF EndsALine
  <2>7. Append(line, NL) \o lines' = lines
    <3>1. SubSeq(lines, 1, end) = line \o <<NL>>
      <4>1. 1 \in 1..Len(lines) /\ end \in 1..Len(lines)
        BY <1>4, <2>2
      <4> QED
        BY <1>4, <1>5, <4>1, SubSeqRecursiveSecond
    <3>2. Append(line, NL) = line \o <<NL>>
      <4>1. NL \in Nat
        BY DEF NL
      <4> HIDE DEF line
      <4> QED
        BY <2>3, <4>1, AppendIsConcat
    <3>3. SubSeq(lines, 1, end) \o lines' = SubSeq(lines, 1, Len(lines))
      <4>1. 1 \in 1..(Len(lines) + 1) /\ end \in (1 - 1)..Len(lines)
            /\ Len(lines) \in end..Len(lines)
        BY <1>4, <2>2
      <4> QED
        BY <1>1, <1>4, <4>1, ConcatAdjacentSubSeq
    <3>4. SubSeq(lines, 1, Len(lines)) = lines
      BY <1>4, SubSeqFull
    <3> QED
      BY <3>1, <3>2, <3>3, <3>4
  <2> QED
    BY <2>3, <2>4, <2>5, <2>6, <2>7
<1> HIDE DEF line
<1>7. TextIsWhole'
  BY <1>3, <1>6 DEF TextIsWhole, OneLine, EndsALine
<1> DEFINE rest == Unread'  text == Unread
<1>8. rest \in Seq(Nat) /\ text = Append(line, NL) \o rest
  <2> DEFINE ended == Append(line, NL)
  <2>1. ended \in Seq(Nat)
    BY <1>6, AppendProperties DEF NL
  <2>2. ended \o lines' = lines
    BY <1>6
  <2> HIDE DEF ended
  <2> DEFINE left == lines'  front == left \o buffer
  <2>3. left \in Seq(Nat) /\ buffer \in Seq(Nat) /\ pipe \in Seq(Nat)
    BY <1>4, <1>6
  <2>4. rest = front \o pipe /\ text = (lines \o buffer) \o pipe
    BY <1>3 DEF Unread
  <2>5. ended \o left = lines /\ front = left \o buffer
    BY <2>2
  <2> HIDE DEF left, front
  <2>6. front \in Seq(Nat)
    BY <2>3, <2>5, Joined
  <2>7. front \o pipe \in Seq(Nat)
    BY <2>3, <2>6, Joined
  <2>8. ended \o (left \o buffer) = (ended \o left) \o buffer
    BY <2>1, <2>3, Regrouped
  <2>9. ended \o (front \o pipe) = (ended \o front) \o pipe
    BY <2>1, <2>3, <2>6, Regrouped
  <2> QED
    BY <2>4, <2>5, <2>7, <2>8, <2>9 DEF ended
<1> HIDE DEF rest, text
<1>9. /\ HasLine(text, 1, line)
      /\ \A other \in Seq(Nat), i \in Nat :
           /\ HasLine(rest, i, other) => HasLine(text, Len(line) + 1 + i, other)
           /\ OneLine(other) /\ HasLine(text, i, other)
                => other = line \/ \E j \in Nat : HasLine(rest, j, other)
  BY <1>6, <1>8, LineAtTheFront
<1>10. /\ \A other \in Seq(Nat), i \in Nat :
            OneLine(other) /\ HasLine(text, i, other) => other \in Range(written)
       /\ \A other \in Range(written) :
            Matches(other) /\ probed =>
              PercentOf(other) <= last \/ \E i \in Nat : HasLine(text, i, other)
       /\ last \in {0} \union Reported /\ (~probed => last = 0)
  BY <1>3 DEF NothingIsLost, text
<1>11. line \in Range(written)
  BY <1>6, <1>9, <1>10
<1>12. last' >= last /\ (Matches(line) /\ probed => PercentOf(line) <= last')
       /\ last \in Int /\ last' \in Int
  <2>1. last \in Int
    BY DEF IInv, TypeOK
  <2>2. CASE Matches(line) /\ probed
    <3>1. PercentOf(line) \in Int
      <4>1. PercentOf(line) \in 0..99
        BY <2>2, PercentIsBounded
      <4>2. 0..99 \subseteq Int
        OBVIOUS
      <4> QED
        BY <4>1, <4>2, Zenon
    <3> QED
      BY <1>2, <2>1, <2>2, <3>1 DEF Gained
  <2>3. CASE ~(Matches(line) /\ probed)
    BY <1>2, <2>1, <2>3
  <2> QED
    BY <2>2, <2>3
<1>13. ASSUME NEW other \in Seq(Nat), NEW i \in Nat, OneLine(other), HasLine(rest, i, other)
       PROVE  other \in Range(written)
  <2>1. Len(line) + 1 + i \in Nat
    BY <1>6, LenProperties
  <2> QED
    BY <1>9, <1>10, <1>13, <2>1
<1>14. ASSUME NEW other \in Range(written), Matches(other), probed
       PROVE  PercentOf(other) <= last' \/ \E i \in Nat : HasLine(rest, i, other)
  <2>1. other \in Seq(Nat) /\ OneLine(other)
    <3>1. written \in Seq(Lines)
      BY DEF TextIsWhole
    <3>2. other \in Lines
      BY <3>1, RangeOfSeq
    <3> QED
      BY <3>2, LinesAreText
  <2>2. CASE PercentOf(other) <= last
    <3>1. PercentOf(other) \in Int
      <4>1. PercentOf(other) \in 0..99
        BY <1>14, PercentIsBounded
      <4>2. 0..99 \subseteq Int
        OBVIOUS
      <4> QED
        BY <4>1, <4>2, Zenon
    <3> QED
      BY <1>12, <2>2, <3>1
  <2>3. CASE \E i \in Nat : HasLine(text, i, other)
    <3>1. other = line \/ \E j \in Nat : HasLine(rest, j, other)
      BY <1>9, <2>1, <2>3
    <3> QED
      BY <1>12, <1>14, <3>1
  <2> QED
    BY <1>10, <1>14, <2>2, <2>3
<1>15. last' \in {0} \union Reported /\ (~probed => last' = 0)
  BY <1>2, <1>10, <1>11 DEF Reported
<1>16. NothingIsLost'
  <2>1. Reported' = Reported /\ Range(written)' = Range(written)
    BY <1>3 DEF Reported
  <2> QED
    BY <1>3, <1>13, <1>14, <1>15, <2>1 DEF NothingIsLost, rest
<1> QED
  BY <1>7, <1>16

(* Nothing is under way where no encode runs. *)
LEMMA NoText ==
  /\ <<>> \in Seq(Nat) /\ <<>> \in Seq(Lines) /\ Len(<<>>) = 0 /\ <<>> \o <<>> \o <<>> = <<>>
  /\ Range(<<>>) = {} /\ OneLine(<<>>) /\ EndsALine(<<>>)
  /\ \A i, line : ~HasLine(<<>>, i, line)
<1>1. <<>> \in Seq(Nat) /\ <<>> \in Seq(Lines) /\ Len(<<>>) = 0
  BY EmptySeq
<1>2. <<>> \o <<>> \o <<>> = <<>>
  BY <1>1, ConcatEmptySeq
<1>3. Range(<<>>) = {}
  <2>1. Range(<<>>) = {<<>>[k] : k \in 1..Len(<<>>)}
    BY <1>1, RangeEquality
  <2> QED
    BY <1>1, <2>1
<1> QED
  BY <1>1, <1>2, <1>3 DEF OneLine, EndsALine, HasLine

LEMMA TextInit == Init => TextIsWhole /\ NothingIsLost
BY NoText DEF Init, TextIsWhole, NothingIsLost

(* The steps that leave the text alone, or drop it. *)
LEMMA TextDropped ==
  ASSUME TextIsWhole, Crash
  PROVE  TextIsWhole' /\ NothingIsLost'
<1>1. written' = <<>> /\ pipe' = <<>> /\ buffer' = <<>> /\ lines' = <<>> /\ pc' # "encoding"
  BY DEF Crash
<1> QED
  BY <1>1, NoText DEF TextIsWhole, NothingIsLost, OneLine, EndsALine

LEMMA TextStarted ==
  ASSUME TextIsWhole, Execute, StartEncode
  PROVE  TextIsWhole' /\ NothingIsLost'
<1>1. /\ written' = <<>> /\ pipe' = <<>> /\ buffer' = <<>> /\ lines' = <<>>
      /\ last' = 0
  BY DEF StartEncode, Execute, TextIsWhole
<1>2. Unread' = <<>>
  BY <1>1, NoText DEF Unread
<1>3. Range(written') = {}
  BY <1>1, NoText
<1>4. TextIsWhole'
  BY <1>1, NoText DEF TextIsWhole, OneLine, EndsALine
<1>5. NothingIsLost'
  BY <1>1, <1>2, <1>3, NoText DEF NothingIsLost
<1> QED
  BY <1>4, <1>5

LEMMA TextKept ==
  ASSUME TextIsWhole, NothingIsLost,
         UNCHANGED <<textVars, last, probed>>,
         pc' = pc \/ (pc' # "encoding" /\ (pc = "encoding" => Closed))
  PROVE  TextIsWhole' /\ NothingIsLost'
<1>1. UNCHANGED <<written, pipe, buffer, lines, last, probed>>
  BY DEF textVars
<1>2. TextIsWhole'
  BY <1>1 DEF TextIsWhole, OneLine, EndsALine, Closed
<1>3. NothingIsLost'
  <2>1. UNCHANGED <<Unread, Reported, Range(written)>>
    BY <1>1 DEF Unread, Reported
  <2> QED
    BY <1>1, <2>1 DEF NothingIsLost
<1> QED
  BY <1>2, <1>3

LEMMA TextStep ==
  ASSUME IInv, TextIsWhole, NothingIsLost, [Next]_vars
  PROVE  TextIsWhole' /\ NothingIsLost'
<1>1. CASE Write
  BY <1>1, WrittenText
<1>2. CASE Read
  BY <1>2, ReadText
<1>3. CASE OnLine
  BY <1>3, LineTaken
<1>4. CASE Crash
  BY <1>4, TextDropped
<1>5. CASE Execute
  <2>1. CASE StartEncode
    BY <1>5, <2>1, TextStarted
  <2>2. CASE ~StartEncode
    <3>1. UNCHANGED <<textVars, last, probed>>
      BY <1>5, <2>2 DEF Execute, Answered, textVars
    <3>2. pc' = pc \/ (pc' # "encoding" /\ pc # "encoding")
      BY <1>5, <2>2 DEF Execute, Answered
    <3> QED
      BY <3>1, <3>2, TextKept
  <2> QED
    BY <2>1, <2>2
<1>6. CASE RefuseAwaited
  <2>1. pc # "encoding"
    <3>1. pc \in Awaiting
      BY <1>6, HeadIsAwaited DEF RefuseAwaited
    <3> QED
      BY <3>1 DEF Awaiting
  <2>2. UNCHANGED <<textVars, last, probed>> /\ pc' # "encoding"
    BY <1>6 DEF RefuseAwaited
  <2> QED
    BY <2>1, <2>2, TextKept
<1>7. CASE \/ Start \/ EndEncode \/ Push \/ Return \/ Throw \/ Reject \/ ListenerClears
           \/ ListenerThrows \/ RefuseTick \/ Expire \/ UNCHANGED vars
  <2>1. UNCHANGED <<textVars, last, probed>>
    BY <1>7 DEF Start, EndEncode, Push, Return, Throw, Reject, ListenerClears,
                ListenerThrows, RefuseTick, Expire, vars
  <2>2. pc' = pc \/ (pc' # "encoding" /\ (pc = "encoding" => Closed))
    BY <1>7 DEF Start, EndEncode, Push, Return, Throw, Reject, ListenerClears,
                ListenerThrows, RefuseTick, Expire, vars, AttemptFails, FailsOver, RunsAgain
  <2> QED
    BY <2>1, <2>2, TextKept
<1> QED
  BY <1>1, <1>2, <1>3, <1>4, <1>5, <1>6, <1>7 DEF Next

(* Where the text has been gone through, the last report sent is the most *)
(* of them all.                                                            *)
LEMMA ClosedIsDone ==
  ASSUME IInv, TextIsWhole, NothingIsLost
  PROVE  TicksSurviveChunks
<1> SUFFICES ASSUME Closed
             PROVE  last = IF probed THEN Max(Reported \union {0}) ELSE 0
  BY DEF TicksSurviveChunks
<1>1. Unread = <<>>
  <2>1. lines = <<>> /\ pipe = <<>> /\ buffer = <<>>
    BY DEF Closed, TextIsWhole
  <2> QED
    BY <2>1, NoText DEF Unread
<1>2. /\ \A line \in Range(written) : Matches(line) /\ probed => PercentOf(line) <= last
      /\ last \in {0} \union Reported /\ (~probed => last = 0)
  BY <1>1, NoText DEF NothingIsLost, Closed
<1>3. CASE ~probed
  BY <1>2, <1>3
<1>4. CASE probed
  <2> DEFINE percents == Reported \union {0}
  <2>1. last \in percents /\ last \in Int /\ 0 <= last
    BY <1>2 DEF IInv, TypeOK
  <2>2. \A p \in percents : p \in Int /\ p <= last
    <3> SUFFICES ASSUME NEW p \in Reported PROVE p \in Int /\ p <= last
      BY <2>1
    <3>1. PICK line \in Range(written) : Matches(line) /\ p = PercentOf(line)
      BY DEF Reported
    <3> QED
      BY <1>2, <1>4, <3>1, PercentIsBounded
  <2> HIDE DEF percents
  <2>3. \A p \in percents : (\A q \in percents : p >= q) => p = last
    BY <2>1, <2>2
  <2>4. \A q \in percents : last >= q
    BY <2>1, <2>2
  <2>5. Max(percents) = last
    BY <2>1, <2>3, <2>4 DEF Max
  <2> QED
    BY <1>4, <2>5 DEF percents
<1> QED
  BY <1>3, <1>4

(* However the chunks cut the lines, no report of ffmpeg is lost and none  *)
(* is made up: once its output has been gone through, what was sent last   *)
(* is the most it reported (ffmpeg_transcoder.ts:121-123).                  *)
THEOREM ReportsSurviveChunks == Spec => []TicksSurviveChunks
<1> DEFINE Inv == IInv /\ TextIsWhole /\ NothingIsLost
<1>1. Init => Inv
  BY ProgressInit, TextInit
<1>2. Inv /\ [Next]_vars => Inv'
  BY ProgressStep, TextStep
<1>3. Inv => TicksSurviveChunks
  BY ClosedIsDone
<1> QED
  BY <1>1, <1>2, <1>3, PTL DEF Spec
===============================================================================
