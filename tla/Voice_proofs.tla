------------------------------ MODULE Voice_proofs ------------------------------
(***************************************************************************)
(* Proofs about Voice, for every queue length and every limit on turns and *)
(* tool calls: the history of the assistant, and half duplex.              *)
(***************************************************************************)
EXTENDS Voice, SequenceTheorems, TLAPS

-----------------------------------------------------------------------------
(* The history *)

History == [user : Nat, call : Nat, output : Nat, reply : Nat]

\* The session between turns, and the copy while a turn has it in hand: the
\* turn's own text has no reply yet, the calls of the step that are still to be
\* executed no output.
SessionInv ==
    /\ history \in History /\ pending \in History
    /\ turns \in Nat /\ calls \in Nat /\ todo \in Nat
    /\ HistoryIsWhole
    /\ pc \in {"respond", "tool"} =>
          /\ pending.user = (IF Resetting THEN 1 ELSE turns + 1)
          /\ pending.user = pending.reply + 1
          /\ pending.call = pending.output + todo
    /\ pc = "respond" => todo = 0
    /\ pc = "tool" => todo # 0

\* What all steps but three do to the session: nothing, or forget the turn.
Quiet == \/ UNCHANGED assistantVars /\ (pc' = pc \/ pc' \notin {"respond", "tool"})
         \/ Forget /\ pc' \notin {"respond", "tool"}

\* (AssistantService.reply) A step that leaves the session alone keeps it whole.
LEMMA QuietStep == SessionInv /\ Quiet => SessionInv'
<1> SUFFICES ASSUME SessionInv, Quiet PROVE SessionInv'
  OBVIOUS
<1>1. CASE UNCHANGED assistantVars /\ (pc' = pc \/ pc' \notin {"respond", "tool"})
  BY <1>1 DEF SessionInv, HistoryIsWhole, History, Resetting, assistantVars
<1>2. CASE Forget /\ pc' \notin {"respond", "tool"}
  BY <1>2 DEF SessionInv, HistoryIsWhole, History, Forget, Empty
<1> QED  BY <1>1, <1>2 DEF Quiet

\* (AssistantService.reply) The turn begins, asks, executes and commits.
LEMMA TurnSteps ==
  ASSUME SessionInv, Transcribe \/ Respond \/ Tool
  PROVE  SessionInv'
<1> USE SessionAssumption
<1>1. CASE Transcribe /\ BeginTurn /\ Go("respond")
  BY <1>1 DEF SessionInv, HistoryIsWhole, History, BeginTurn, Empty, Resetting, Go
<1>2. ASSUME NEW k \in StepCalls, Respond, AskTools(k), Go("tool") PROVE SessionInv'
  BY <1>2 DEF SessionInv, HistoryIsWhole, History, AskTools, Resetting, Respond, At, Go
<1>3. CASE Respond /\ Commit /\ Go("stream")
  BY <1>3 DEF SessionInv, HistoryIsWhole, History, Commit, Empty, Resetting, Respond, At, Go
<1>4. CASE Tool /\ RunTool /\ Go(IF todo = 1 THEN "respond" ELSE "tool")
  BY <1>4 DEF SessionInv, HistoryIsWhole, History, RunTool, Resetting, Tool, At, Go
<1>5. CASE Quiet
  BY <1>5, QuietStep
<1> QED
  BY <1>1, <1>2, <1>3, <1>4, <1>5 DEF Transcribe, Respond, Tool, PlayError, Quiet, Go, Fail

\* (VoiceService) Every other step is quiet.
LEMMA OtherSteps ==
  ASSUME [Next]_vars, ~Transcribe, ~Respond, ~Tool
  PROVE  Quiet
<1>1. CASE UNCHANGED vars
  BY <1>1 DEF vars, taskVars, Quiet
<1>2. CASE Start \/ StartDetector \/ OpenInput \/ OpenOutput \/ Retry \/ CleanInput \/ CleanOutput
  BY <1>2 DEF Start, StartDetector, OpenInput, OpenOutput, Retry, CleanInput, CleanOutput, Go,
      Fail,
              EnterWaitingWake, Quiet
<1>3. CASE Listen \/ Detect \/ FollowupFrame \/ FollowupEnds \/ MicrophoneInactive
  BY <1>3 DEF Listen, Detect, FollowupFrame, FollowupEnds, MicrophoneInactive, Go, Fail,
              EnterWaitingWake, Quiet
<1>4. CASE BeginEffect \/ EffectFails \/ Acknowledged \/ TurnErrorPlayed \/ EmptyPlayed
  BY <1>4 DEF BeginEffect, EffectFails, Acknowledged, TurnErrorPlayed, EmptyPlayed, Go, Fail,
              EnterWaitingWake, taskVars, Quiet
<1>5. CASE OnsetFrame \/ OnsetEnds \/ SpeechFrame \/ SpeechEnds
  BY <1>5 DEF OnsetFrame, OnsetEnds, SpeechFrame, SpeechEnds, NoUtterance, Go, Fail,
              EnterWaitingWake, taskVars, Quiet
<1>6. CASE Chunk \/ Written \/ StreamEnds \/ TimeoutOutside \/ SpeakerFails \/ Drain \/ Abort \/ GuardEnds
  BY <1>6 DEF Chunk, Written, StreamEnds, TimeoutOutside, SpeakerFails, Drain, Abort, GuardEnds,
              AbortThen, PlayError, Go, Fail, EnterWaitingWake, Quiet
<1>7. CASE UnwindSpeech \/ Unwind \/ Stop \/ Stopping
  BY <1>7 DEF UnwindSpeech, Unwind, Stop, Stopping, StopSpeech, Join, CloseInput, CloseOutput,
              taskVars, Quiet
<1>8. CASE Hear \/ Hand \/ Receive \/ TimerDue \/ DeadlinePasses \/ Plug
  BY <1>8 DEF Hear, Hand, Receive, Beside, TimerDue, DeadlinePasses, Plug, taskVars, Quiet
<1> QED
  BY <1>1, <1>2, <1>3, <1>4, <1>5, <1>6, <1>7, <1>8 DEF Next, Flow, Turn

\* (AssistantService) The session starts empty, and every step keeps it whole.
LEMMA SessionInit == Init => SessionInv
BY SessionAssumption DEF Init, AssistantInit, SessionInv, HistoryIsWhole, History, Empty

\* (AssistantService) Beginning, asking, executing, committing, or leaving it alone.
LEMMA SessionKept == SessionInv /\ [Next]_vars => SessionInv'
BY TurnSteps, OtherSteps, QuietStep

\* (AssistantService.reply) Whatever a turn does and wherever it is cut short, the
\* session consists of whole turns.
THEOREM HistoryWhole == Spec => []HistoryIsWhole
<1>1. SessionInv => HistoryIsWhole
  BY DEF SessionInv
<1> QED  BY <1>1, SessionInit, SessionKept, PTL DEF Spec

-----------------------------------------------------------------------------
(* Half duplex: the queue *)

Message == [frame : Frame, current : BOOLEAN]

\* Nothing of the speech is queued; while frames are accepted, none is under way.
QueueInv ==
    /\ queue \in Seq(Frame) /\ posted \in Seq(Message) /\ flight \in Frame \cup {"none"}
    /\ accepting \in BOOLEAN
    /\ \A i \in 1..Len(queue) : queue[i] # "echo"
    /\ accepting => /\ flight # "echo"
                    /\ \A i \in 1..Len(posted) : posted[i].current => posted[i].frame # "echo"

\* The steps of the flow and of stop() on the queue.
Untouched == UNCHANGED <<accepting, queue, flight, posted>>
Shut == accepting' = FALSE /\ DiscardPending /\ UNCHANGED flight
Reopened == accepting' = TRUE /\ flight # "echo" /\ DiscardPending /\ UNCHANGED flight

\* (LocalAudioInput._enqueue_from_loop) A frame that is let into the queue is none of the speech.
LEMMA ReceiveStep == QueueInv /\ Enqueue => QueueInv'
<1> SUFFICES ASSUME QueueInv, Enqueue PROVE QueueInv'
  OBVIOUS
<1>1. posted # <<>> /\ posted \in Seq(Message) /\ posted' = Tail(posted)
  BY DEF Enqueue, QueueInv
<1>2. /\ posted' \in Seq(Message) /\ Len(posted') = Len(posted) - 1
      /\ \A i \in 1..Len(posted') : posted'[i] = posted[i + 1] /\ i + 1 \in 1..Len(posted)
      /\ posted[1] \in Message /\ 1 \in 1..Len(posted)
  BY <1>1
<1>3. accepting => \A i \in 1..Len(posted') : posted'[i].current => posted'[i].frame # "echo"
  BY <1>2 DEF QueueInv
<1> DEFINE short == IF Len(queue) = QueueFrames THEN Tail(queue) ELSE queue
<1>4. /\ short \in Seq(Frame)
      /\ \A i \in 1..Len(short) : short[i] # "echo"
  <2>1. CASE Len(queue) = QueueFrames
    <3>1. queue # <<>> /\ queue \in Seq(Frame)
      BY <2>1, QueueAssumption DEF QueueInv
    <3>2. /\ Tail(queue) \in Seq(Frame)
          /\ \A i \in 1..Len(Tail(queue)) : Tail(queue)[i] = queue[i + 1] /\ i + 1 \in 1..Len(queue)
      BY <3>1
    <3> QED  BY <2>1, <3>2 DEF QueueInv
  <2>2. CASE Len(queue) # QueueFrames
    BY <2>2 DEF QueueInv
  <2> QED  BY <2>1, <2>2
<1>5. /\ queue' \in Seq(Frame)
      /\ \A i \in 1..Len(queue') : queue'[i] # "echo"
  <2>1. CASE ~posted[1].current \/ ~accepting
    BY <2>1 DEF Enqueue, QueueInv
  <2>2. CASE posted[1].current /\ accepting
    <3>1. posted[1].frame \in Frame /\ posted[1].frame # "echo"
      BY <1>2, <2>2 DEF QueueInv, Message
    <3>2. queue' = Append(short, posted[1].frame)
      BY <2>2 DEF Enqueue
    <3> HIDE DEF short
    <3>3. /\ queue' \in Seq(Frame) /\ Len(queue') = Len(short) + 1
          /\ \A i \in 1..Len(short) : queue'[i] = short[i]
          /\ queue'[Len(short) + 1] = posted[1].frame
      BY <1>4, <3>1, <3>2
    <3>4. Len(short) \in Nat
      BY <1>4
    <3> QED  BY <1>4, <3>1, <3>3, <3>4
  <2> QED  BY <2>1, <2>2 DEF QueueInv
<1> QED  BY <1>2, <1>3, <1>5 DEF Enqueue, QueueInv

\* (LocalAudioInput._callback) A frame of the speech is taken and posted only while none is accepted.
LEMMA CallbackStep ==
  ASSUME QueueInv, Hand \/ Hear, output = "speech" => ~accepting
  PROVE  QueueInv'
<1>1. CASE Hear
  BY <1>1 DEF Hear, Capture, QueueInv, Frame
<1>2. CASE Hand
  <2>1. /\ posted \in Seq(Message) /\ flight \in Frame
        /\ posted' = Append(posted, [frame |-> flight, current |-> TRUE])
    BY <1>2 DEF Hand, Post, QueueInv
  <2>2. [frame |-> flight, current |-> TRUE] \in Message
    BY <2>1 DEF Message
  <2>3. /\ posted' \in Seq(Message) /\ Len(posted') = Len(posted) + 1 /\ Len(posted) \in Nat
        /\ \A i \in 1..Len(posted) : posted'[i] = posted[i]
        /\ posted'[Len(posted) + 1] = [frame |-> flight, current |-> TRUE]
    BY <2>1, <2>2
  <2>4. accepting => \A i \in 1..Len(posted') : posted'[i].current => posted'[i].frame # "echo"
    BY <2>3 DEF QueueInv
  <2> QED  BY <1>2, <2>3, <2>4 DEF Hand, Post, QueueInv
<1> QED  BY <1>1, <1>2

\* (read, discard_pending, set_accepting) What is taken, discarded or let in.
LEMMA QueueSteps ==
  ASSUME QueueInv, Untouched \/ Shut \/ Reopened \/ Take
  PROVE  QueueInv'
<1>1. CASE Untouched
  BY <1>1 DEF Untouched, QueueInv
<1>2. CASE Shut \/ Reopened
  <2>1. posted \in Seq(Message) /\ DOMAIN posted = 1..Len(posted) /\ Len(posted) \in Nat
    BY DEF QueueInv
  <2>2. posted' = [i \in 1..Len(posted) |-> [posted[i] EXCEPT !.current = FALSE]]
    BY <1>2, <2>1 DEF Shut, Reopened, DiscardPending
  <2>3. \A i \in 1..Len(posted) : posted[i] \in Message
    BY <2>1
  <2>4. \A i \in 1..Len(posted) : /\ [posted[i] EXCEPT !.current = FALSE] \in Message
                                  /\ [posted[i] EXCEPT !.current = FALSE].current = FALSE
    BY <2>3, Zenon DEF Message
  <2>5. posted' \in Seq(Message) /\ Len(posted') = Len(posted)
    BY <2>1, <2>2, <2>4
  <2>6. \A i \in 1..Len(posted') : posted'[i].current = FALSE
    BY <2>2, <2>4, <2>5
  <2>7. queue' \in Seq(Frame) /\ \A i \in 1..Len(queue') : queue'[i] # "echo"
    <3>1. queue' = <<>>
      BY <1>2 DEF Shut, Reopened, DiscardPending
    <3>2. <<>> \in Seq(Frame) /\ Len(<<>>) = 0
      OBVIOUS
    <3> QED  BY <3>1, <3>2
  <2>8. flight' \in Frame \cup {"none"} /\ accepting' \in BOOLEAN /\ (accepting' => flight' # "echo")
    BY <1>2 DEF Shut, Reopened, QueueInv
  <2> QED  BY <2>5, <2>6, <2>7, <2>8 DEF QueueInv
<1>3. CASE Take
  <2>1. queue # <<>> /\ queue \in Seq(Frame) /\ queue' = Tail(queue)
    BY <1>3 DEF Take, QueueInv
  <2>2. /\ queue' \in Seq(Frame)
        /\ \A i \in 1..Len(queue') : queue'[i] = queue[i + 1] /\ i + 1 \in 1..Len(queue)
    BY <2>1
  <2> QED  BY <1>3, <2>2 DEF Take, threadVars, QueueInv
<1> QED  BY <1>1, <1>2, <1>3

-----------------------------------------------------------------------------
(* Half duplex: the flow *)

Talking == {"stream", "write", "drain", "abort"}
Deaf == {"ack", "transcribe", "respond", "tool", "guard", "error"} \cup Talking
Cleaning == {"cleanInput", "cleanOutput"}

\* Where the microphone is closed to the queue, where sound may be on its way,
\* and that no such path leads back to a microphone that is opened.
FlowInv ==
    /\ pc \in Deaf => ~accepting
    /\ output \in {"effect", "speech"} => ~accepting
    /\ output = "speech" => pc \in Talking \cup {"over"}
    /\ output = "effect" => pc \in {"ack", "error", "over"} \cup Cleaning
    /\ flight = "echo" => pc \in Talking \cup {"guard", "error", "over"} \cup Cleaning
    /\ output = "effect" \/ flight = "echo" => (pc \in Cleaning => failing = "fatal")
    /\ life = "new" => pc = "over" /\ output \notin {"effect", "speech"} /\ flight # "echo"

\* The flow and its queue together: what a step of either does.
DuplexInv == QueueInv /\ FlowInv
Step == (Untouched \/ Shut \/ Reopened \/ Take) /\ FlowInv'

\* (start, _start_components, _supervise) The devices come, fail and come again.
LEMMA DeviceSteps ==
  ASSUME FlowInv, Start \/ StartDetector \/ OpenInput \/ OpenOutput \/ Retry \/ CleanInput \/ CleanOutput
  PROVE  Step
<1> USE DEF Step, FlowInv, Talking, Deaf, Cleaning, Untouched, Shut, Reopened
<1>1. CASE Start
  BY <1>1 DEF Start, Go, deviceVars, audioVars, threadVars
<1>2. CASE StartDetector
  BY <1>2 DEF StartDetector, At, Go, Fail, audioVars, threadVars
<1>3. CASE OpenInput
  BY <1>3 DEF OpenInput, At, Go, Fail, Opened, audioVars, threadVars
<1>4. CASE OpenOutput
  BY <1>4 DEF OpenOutput, At, Go, Fail, EnterWaitingWake, Started, Discard, deviceVars,
      audioVars, threadVars
<1>5. CASE Retry
  BY <1>5 DEF Retry, At, Go, deviceVars, audioVars, threadVars
<1>6. CASE CleanInput
  BY <1>6 DEF CleanInput, At, Go, Closed, audioVars, threadVars
<1>7. CASE CleanOutput
  BY <1>7 DEF CleanOutput, At, StopPlayback, Started, audioVars, threadVars
<1> QED  BY <1>1, <1>2, <1>3, <1>4, <1>5, <1>6, <1>7

\* (_run, _run_turn, RmsRecorder.record) Listening and recording.
LEMMA ListenSteps ==
  ASSUME FlowInv, \/ Listen \/ Detect \/ FollowupFrame \/ FollowupEnds \/ MicrophoneInactive
                  \/ OnsetFrame \/ OnsetEnds \/ SpeechFrame \/ SpeechEnds
  PROVE  Step
<1> USE DEF Step, FlowInv, Talking, Deaf, Cleaning, Untouched, Shut, Reopened
<1>1. CASE Listen
  BY <1>1 DEF Listen, At, Go, Take, deviceVars, threadVars
<1>2. CASE Detect
  BY <1>2 DEF Detect, At, Go, Fail, Discard, deviceVars, audioVars, threadVars
<1>3. CASE FollowupFrame
  BY <1>3 DEF FollowupFrame, At, Go, Take, deviceVars, threadVars
<1>4. CASE FollowupEnds
  BY <1>4 DEF FollowupEnds, At, Go, EnterWaitingWake, Discard, deviceVars
<1>5. CASE MicrophoneInactive
  BY <1>5 DEF MicrophoneInactive, Fail, deviceVars, audioVars, threadVars
<1>6. CASE OnsetFrame
  BY <1>6 DEF OnsetFrame, At, Go, Take, deviceVars, threadVars
<1>7. CASE OnsetEnds
  BY <1>7 DEF OnsetEnds, At, Go, NoUtterance, EnterWaitingWake, Discard, deviceVars, audioVars,
      threadVars
<1>8. CASE SpeechFrame
  BY <1>8 DEF SpeechFrame, At, Take, taskVars, deviceVars, threadVars
<1>9. CASE SpeechEnds
  BY <1>9 DEF SpeechEnds, At, Go, NoUtterance, EnterWaitingWake, Discard, deviceVars, audioVars,
      threadVars
<1> QED  BY <1>1, <1>2, <1>3, <1>4, <1>5, <1>6, <1>7, <1>8, <1>9

\* (play_effect, _run_turn) The effects, the transcription and the reply.
LEMMA ReplySteps ==
  ASSUME FlowInv, \/ BeginEffect \/ EffectFails \/ Acknowledged \/ TurnErrorPlayed \/ EmptyPlayed
                  \/ Transcribe \/ Respond \/ Tool
  PROVE  Step
<1> USE DEF Step, FlowInv, Talking, Deaf, Cleaning, Untouched, Shut, Reopened
<1>1. CASE BeginEffect
  BY <1>1 DEF BeginEffect, Fail, taskVars, audioVars, threadVars
<1>2. CASE EffectFails
  BY <1>2 DEF EffectFails, Fail, deviceVars, audioVars, threadVars
<1>3. CASE Acknowledged
  BY <1>3 DEF Acknowledged, At, Go, EffectPlayed, Brief, Discard
<1>4. CASE TurnErrorPlayed
  BY <1>4 DEF TurnErrorPlayed, At, Go, EffectPlayed, Brief, EnterWaitingWake, Discard
<1>5. CASE EmptyPlayed
  BY <1>5 DEF EmptyPlayed, At, Go, EffectPlayed, Brief, EnterWaitingWake, Discard
<1>6. CASE Transcribe
  BY <1>6 DEF Transcribe, At, Go, PlayError, Discard, deviceVars, audioVars, threadVars
<1>7. CASE Respond
  BY <1>7 DEF Respond, At, Go, PlayError, Discard, deviceVars, audioVars, threadVars
<1>8. CASE Tool
  BY <1>8 DEF Tool, At, Go, Fail, PlayError, Discard, deviceVars, audioVars, threadVars
<1> QED  BY <1>1, <1>2, <1>3, <1>4, <1>5, <1>6, <1>7, <1>8

\* (play_speech, _after_successful_playback) Speech is played, drained or cut off.
LEMMA SpeechSteps ==
  ASSUME FlowInv, \/ Chunk \/ Written \/ StreamEnds \/ TimeoutOutside \/ SpeakerFails
                  \/ Drain \/ Abort \/ GuardEnds
  PROVE  Step
<1> USE DEF Step, FlowInv, Talking, Deaf, Cleaning, Untouched, Shut, Reopened
<1>1. CASE Chunk
  BY <1>1 DEF Chunk, At, Go, audioVars, threadVars
<1>2. CASE Written
  BY <1>2 DEF Written, At, Go, deviceVars, audioVars, threadVars
<1>3. CASE StreamEnds
  BY <1>3 DEF StreamEnds, At, AbortThen, Go, deviceVars, audioVars, threadVars
<1>4. CASE TimeoutOutside
  BY <1>4 DEF TimeoutOutside, At, AbortThen, Go, deviceVars, audioVars, threadVars
<1>5. CASE SpeakerFails
  BY <1>5 DEF SpeakerFails, AbortThen, Go, deviceVars, audioVars, threadVars
<1>6. CASE Drain
  BY <1>6 DEF Drain, At, Go, Silenced, Discard
<1>7. CASE Abort
  BY <1>7 DEF Abort, At, Go, Fail, Silenced, PlayError, Discard, audioVars, threadVars
<1>8. CASE GuardEnds
  BY <1>8 DEF GuardEnds, At, Go, Brief, EnterWaitingWake, Discard, deviceVars
<1> QED  BY <1>1, <1>2, <1>3, <1>4, <1>5, <1>6, <1>7, <1>8

\* (stop, CancelledError, the clocks and the devices) What happens beside the flow.
LEMMA StopSteps ==
  ASSUME FlowInv, \/ UnwindSpeech \/ Unwind \/ Stop \/ Stopping \/ TimerDue \/ DeadlinePasses
                  \/ Plug \/ UNCHANGED vars
  PROVE  Step
<1> USE DEF Step, FlowInv, Talking, Deaf, Cleaning, Untouched, Shut, Reopened
<1>1. CASE UnwindSpeech
  BY <1>1 DEF UnwindSpeech, deviceVars, audioVars, threadVars
<1>2. CASE Unwind
  BY <1>2 DEF Unwind, deviceVars, audioVars, threadVars
<1>3. CASE Stop
  BY <1>3 DEF Stop, Discard, deviceVars
<1>4. CASE StopSpeech
  BY <1>4 DEF StopSpeech, Silenced, taskVars, audioVars, threadVars
<1>5. CASE Join
  BY <1>5 DEF Join, taskVars, deviceVars, audioVars, threadVars
<1>6. CASE CloseInput
  BY <1>6 DEF CloseInput, Closed, taskVars, audioVars, threadVars
<1>7. CASE CloseOutput
  BY <1>7 DEF CloseOutput, StopPlayback, taskVars, audioVars, threadVars
<1>8. CASE TimerDue \/ DeadlinePasses
  BY <1>8 DEF TimerDue, DeadlinePasses, taskVars, deviceVars, audioVars, threadVars
<1>9. CASE Plug
  BY <1>9 DEF Plug, taskVars, deviceVars, threadVars
<1>10. CASE UNCHANGED vars
  BY <1>10 DEF vars, taskVars, deviceVars, audioVars, threadVars
<1> QED  BY <1>1, <1>2, <1>3, <1>4, <1>5, <1>6, <1>7, <1>8, <1>9, <1>10 DEF Stopping

\* (VoiceService, LocalAudioInput) A step is one of the flow or of stop(), or the callback's, or
\* the loop's that takes a frame in.
LEMMA Kinds == FlowInv /\ [Next]_vars => Step \/ Hear \/ Hand \/ Receive
BY DeviceSteps, ListenSteps, ReplySteps, SpeechSteps, StopSteps DEF Next, Flow, Turn

\* (LocalAudioInput) At first nothing is captured.
LEMMA DuplexInit == Init => DuplexInv
<1> SUFFICES ASSUME Init PROVE DuplexInv
  OBVIOUS
<1>1. QueueInv
  <2>1. <<>> \in Seq(Frame) /\ <<>> \in Seq(Message) /\ Len(<<>>) = 0
    OBVIOUS
  <2>2. queue = <<>> /\ posted = <<>> /\ flight = "none" /\ accepting = FALSE
    BY DEF Init, AudioInit
  <2>3. queue \in Seq(Frame) /\ posted \in Seq(Message) /\ \A i \in 1..Len(queue) : queue[i] # "echo"
    BY <2>1, <2>2
  <2>4. flight \in Frame \cup {"none"} /\ accepting \in BOOLEAN /\ ~accepting
    BY <2>2
  <2> QED  BY <2>3, <2>4 DEF QueueInv
<1>2. FlowInv
  BY DEF Init, AudioInit, FlowInv, Talking, Deaf, Cleaning
<1> QED  BY <1>1, <1>2 DEF DuplexInv

\* (VoiceService, LocalAudioInput) Flow, callback and loop keep to half duplex together.
LEMMA DuplexKept == DuplexInv /\ [Next]_vars => DuplexInv'
<1> SUFFICES ASSUME DuplexInv, [Next]_vars PROVE DuplexInv'
  OBVIOUS
<1> USE DEF DuplexInv
<1>1. CASE Step
  BY <1>1, QueueSteps DEF Step
<1>2. CASE Hear \/ Hand
  <2>1. FlowInv'
    BY <1>2 DEF Hear, Hand, Capture, Post, Beside, taskVars, deviceVars, FlowInv, Talking, Deaf,
                Cleaning
  <2> QED  BY <1>2, <2>1, CallbackStep DEF FlowInv
<1>3. CASE Receive
  <2>1. FlowInv'
    BY <1>3 DEF Receive, Enqueue, Beside, taskVars, deviceVars, FlowInv
  <2> QED  BY <1>3, <2>1, ReceiveStep DEF Receive
<1> QED  BY <1>1, <1>2, <1>3, Kinds

\* (VoiceService, PlaybackCoordinator, LocalAudioInput) While something is played no frame is
\* accepted, and no frame of the speech ever reaches the queue.
THEOREM HalfDuplexHolds == Spec => []HalfDuplex
<1>1. DuplexInv => HalfDuplex
  BY DEF DuplexInv, QueueInv, FlowInv, HalfDuplex
<1> QED  BY <1>1, DuplexInit, DuplexKept, PTL DEF Spec

-----------------------------------------------------------------------------
(* The stop *)

Late == {"aborting", "joining", "closing", "leaving", "down"}

\* What stop() has achieved by its place, and that a cancelled flow only unwinds.
StopInv ==
    /\ life \in Late =>
          /\ ~accepting /\ queue = <<>>
          /\ \/ cancelled \/ pc = "over"
             \/ pc = "abort" /\ after = "cancel"
             \/ pc \in Cleaning /\ failing = "fatal"
    /\ life \in Late \ {"aborting"} => output \in {"none", "idle"}
    /\ life \in {"closing", "leaving", "down"} => pc = "over"
    /\ life \in {"leaving", "down"} => "input" \notin flags
    /\ life = "down" => state = "DISABLED" /\ flags = {} /\ deadline = "none"
    /\ stream => "input" \in flags
    /\ pc = "cleanOutput" => "input" \notin flags
    /\ pc = "over" => ~cancelled

\* (stop, CancelledError) Every step keeps what stop() has achieved; a flow that is cancelled
\* takes no step but to unwind.
LEMMA StopKept == StopInv /\ [Next]_vars => StopInv'
<1> SUFFICES ASSUME StopInv, [Next]_vars PROVE StopInv'
  OBVIOUS
<1> USE DEF StopInv, Late, Cleaning
<1>1. CASE Start \/ StartDetector \/ Retry
  BY <1>1 DEF Start, StartDetector, Retry, At, Go, Fail, deviceVars, turnVars, audioVars
<1>2. CASE OpenInput \/ OpenOutput
  BY <1>2 DEF OpenInput, OpenOutput, At, Go, Fail, Opened, EnterWaitingWake, Started, Discard,
      DiscardPending, turnVars, deviceVars, audioVars
<1>3. CASE CleanInput \/ CleanOutput
  BY <1>3 DEF CleanInput, CleanOutput, At, Go, Closed, DiscardPending, StopPlayback, Started,
      turnVars, audioVars
<1>4. CASE Listen \/ FollowupFrame \/ OnsetFrame \/ SpeechFrame
  BY <1>4 DEF Listen, FollowupFrame, OnsetFrame, SpeechFrame, At, Go, Take, taskVars,
      deviceVars, turnVars
<1>5. CASE Detect \/ FollowupEnds \/ MicrophoneInactive \/ OnsetEnds \/ SpeechEnds
  BY <1>5 DEF Detect, FollowupEnds, MicrophoneInactive, OnsetEnds, SpeechEnds, At, Go, Fail,
      NoUtterance, EnterWaitingWake, Discard, DiscardPending, deviceVars, turnVars, audioVars
<1>6. CASE BeginEffect \/ EffectFails \/ Acknowledged \/ TurnErrorPlayed \/ EmptyPlayed
  BY <1>6 DEF BeginEffect, EffectFails, Acknowledged, TurnErrorPlayed, EmptyPlayed, At, Go,
      Fail, EffectPlayed, EnterWaitingWake, Discard, DiscardPending, taskVars, deviceVars,
      turnVars, audioVars
<1>7. CASE Transcribe \/ Respond \/ Tool
  BY <1>7 DEF Transcribe, Respond, Tool, At, Go, Fail, PlayError, Discard, DiscardPending,
      deviceVars, turnVars, audioVars
<1>8. CASE Chunk \/ Written \/ StreamEnds \/ TimeoutOutside \/ SpeakerFails
  BY <1>8 DEF Chunk, Written, StreamEnds, TimeoutOutside, SpeakerFails, At, Go, AbortThen,
      deviceVars, turnVars, audioVars
<1>9. CASE Drain \/ Abort \/ GuardEnds
  BY <1>9 DEF Drain, Abort, GuardEnds, At, Go, Fail, Silenced, PlayError, EnterWaitingWake,
      Discard, DiscardPending, deviceVars, turnVars, audioVars
<1>10. CASE UnwindSpeech
  BY <1>10 DEF UnwindSpeech, deviceVars, turnVars, audioVars
<1>11. CASE Unwind
  BY <1>11 DEF Unwind, DiscardPending, deviceVars, turnVars, audioVars
<1>12. CASE Stop
  BY <1>12 DEF Stop, Discard, DiscardPending, deviceVars, turnVars, audioVars
<1>13. CASE StopSpeech \/ Join \/ CloseInput \/ CloseOutput
  BY <1>13 DEF StopSpeech, Join, CloseInput, CloseOutput, Silenced, Closed, DiscardPending,
      StopPlayback, taskVars, deviceVars, turnVars, audioVars
<1>14. CASE Hear \/ Hand \/ Receive
  BY <1>14 DEF Hear, Hand, Receive, Capture, Post, Enqueue, Beside, taskVars, deviceVars,
      turnVars
<1>15. CASE TimerDue \/ DeadlinePasses \/ Plug
  BY <1>15 DEF TimerDue, DeadlinePasses, Plug, taskVars, deviceVars, turnVars, audioVars
<1>16. CASE UNCHANGED vars
  BY <1>16 DEF vars, taskVars, deviceVars, turnVars, audioVars
<1> QED
  BY <1>1, <1>2, <1>3, <1>4, <1>5, <1>6, <1>7, <1>8, <1>9, <1>10, <1>11, <1>12, <1>13, <1>14,
      <1>15, <1>16 DEF Next, Flow, Turn, Stopping

-----------------------------------------------------------------------------
(* Listening *)

Idle == {"loop", "detect", "onset", "speech", "transcribe", "respond", "tool", "guard"}
Active == Idle \cup {"ack", "error", "stream", "write", "drain", "abort"}

\* What a turn has at its disposal on every way through it, and what it waits with.
ListenInv ==
    /\ flags \subseteq {"detector", "input", "playback"}
    /\ pc \in Active => /\ stream /\ flags = {"detector", "input", "playback"}
                        /\ playback = "ready" /\ output # "none"
    /\ pc \in Idle => output \in {"idle", "none"}
    /\ pc \in {"loop", "detect", "onset", "speech"} /\ life \notin Late => accepting
    /\ pc = "speaker" => stream /\ "input" \in flags /\ "detector" \in flags
                         /\ (life \notin Late => accepting)
    /\ pc = "microphone" => "detector" \in flags
    /\ pc = "loop" => state \in Waiting
    /\ pc = "detect" => state = "WAITING_WAKE"
    /\ pc \in {"loop", "detect"} =>
          /\ state = "WAITING_WAKE" => armed /\ deadline = "none"
          /\ state = "WAITING_FOLLOWUP" => deadline # "none"
    /\ life \in {"closing", "leaving", "down"} => pc = "over"
    /\ life = "new" => pc = "over"

\* (_run, _run_turn, _start_components) Every way through a turn gives back what it took.
LEMMA ListenKept == ListenInv /\ [Next]_vars => ListenInv'
<1> SUFFICES ASSUME ListenInv, [Next]_vars PROVE ListenInv'
  OBVIOUS
<1> USE DEF ListenInv, Idle, Active, Waiting, Late
<1>1. CASE Start \/ StartDetector \/ Retry
  BY <1>1 DEF Start, StartDetector, Retry, At, Go, Fail, deviceVars, turnVars, audioVars
<1>2. CASE OpenInput \/ OpenOutput
  BY <1>2 DEF OpenInput, OpenOutput, At, Go, Fail, Opened, EnterWaitingWake, Started, Discard,
      DiscardPending, turnVars, deviceVars, audioVars
<1>3. CASE CleanInput \/ CleanOutput
  BY <1>3 DEF CleanInput, CleanOutput, At, Go, Closed, DiscardPending, StopPlayback, Started,
      turnVars, audioVars
<1>4. CASE Listen \/ FollowupFrame \/ OnsetFrame \/ SpeechFrame
  BY <1>4 DEF Listen, FollowupFrame, OnsetFrame, SpeechFrame, At, Go, Take, taskVars,
      deviceVars, turnVars
<1>5. CASE Detect \/ FollowupEnds \/ MicrophoneInactive \/ OnsetEnds \/ SpeechEnds
  BY <1>5 DEF Detect, FollowupEnds, MicrophoneInactive, OnsetEnds, SpeechEnds, At, Go, Fail,
      NoUtterance, StillFollowup, EnterWaitingWake, Discard, DiscardPending, deviceVars,
      turnVars, audioVars
<1>6. CASE BeginEffect \/ EffectFails \/ Acknowledged \/ TurnErrorPlayed \/ EmptyPlayed
  BY <1>6 DEF BeginEffect, EffectFails, Acknowledged, TurnErrorPlayed, EmptyPlayed, At, Go,
      Fail, EffectPlayed, StillFollowup, EnterWaitingWake, Discard, DiscardPending, taskVars,
      deviceVars, turnVars, audioVars
<1>7. CASE Transcribe \/ Respond \/ Tool
  BY <1>7 DEF Transcribe, Respond, Tool, At, Go, Fail, PlayError, Discard, DiscardPending,
      deviceVars, turnVars, audioVars
<1>8. CASE Chunk \/ Written \/ StreamEnds \/ TimeoutOutside \/ SpeakerFails
  BY <1>8 DEF Chunk, Written, StreamEnds, TimeoutOutside, SpeakerFails, At, Go, AbortThen,
      deviceVars, turnVars, audioVars
<1>9. CASE Drain \/ Abort \/ GuardEnds
  BY <1>9 DEF Drain, Abort, GuardEnds, At, Go, Fail, Silenced, PlayError, EnterWaitingWake,
      Discard, DiscardPending, deviceVars, turnVars, audioVars
<1>10. CASE UnwindSpeech
  BY <1>10 DEF UnwindSpeech, deviceVars, turnVars, audioVars
<1>11. CASE Unwind
  BY <1>11 DEF Unwind, DiscardPending, deviceVars, turnVars, audioVars
<1>12. CASE Stop
  BY <1>12 DEF Stop, Discard, DiscardPending, deviceVars, turnVars, audioVars
<1>13. CASE StopSpeech \/ Join \/ CloseInput \/ CloseOutput
  BY <1>13 DEF StopSpeech, Join, CloseInput, CloseOutput, Silenced, Closed, DiscardPending,
      StopPlayback, taskVars, deviceVars, turnVars, audioVars
<1>14. CASE Hear \/ Hand \/ Receive
  BY <1>14 DEF Hear, Hand, Receive, Capture, Post, Enqueue, Beside, taskVars, deviceVars,
      turnVars
<1>15. CASE TimerDue \/ DeadlinePasses \/ Plug
  BY <1>15 DEF TimerDue, DeadlinePasses, Plug, taskVars, deviceVars, turnVars, audioVars
<1>16. CASE UNCHANGED vars
  BY <1>16 DEF vars, taskVars, deviceVars, turnVars, audioVars
<1> QED
  BY <1>1, <1>2, <1>3, <1>4, <1>5, <1>6, <1>7, <1>8, <1>9, <1>10, <1>11, <1>12, <1>13, <1>14,
      <1>15, <1>16 DEF Next, Flow, Turn, Stopping
\* (_enter_waiting_wake, _return_after_empty_recording, _after_successful_playback) A flow that waits
\* for the user can hear him and answer.
THEOREM ListensWaiting == Spec => []ListensWhenWaiting
<1>1. Init => ListenInv
  BY DEF Init, ListenInv, Idle, Active, Late
<1>2. ListenInv => ListensWhenWaiting
  BY DEF ListenInv, Idle, Active, Late, ListensWhenWaiting
<1> QED  BY <1>1, <1>2, ListenKept, PTL DEF Spec

\* Who may play is known to the service as started, and a stream is open only for one
\* who may play, or whose abort has failed.
SpeakerInv == /\ playback = "ready" => "playback" \in flags
              /\ output # "none" => playback \in {"ready", "stuck"}

\* (PlaybackCoordinator.start, stop) The speaker is opened, used and closed.
LEMMA SpeakerKept == ListenInv /\ SpeakerInv /\ [Next]_vars => SpeakerInv'
<1> SUFFICES ASSUME ListenInv, SpeakerInv, [Next]_vars PROVE SpeakerInv'
  OBVIOUS
<1> USE DEF SpeakerInv
<1>1. CASE UNCHANGED deviceVars
  BY <1>1 DEF deviceVars
<1>2. CASE StartDetector \/ OpenInput \/ OpenOutput \/ CleanInput \/ CleanOutput
  BY <1>2 DEF StartDetector, OpenInput, OpenOutput, CleanInput, CleanOutput, StopPlayback,
      deviceVars
<1>3. CASE BeginEffect \/ Acknowledged \/ TurnErrorPlayed \/ EmptyPlayed
  BY <1>3 DEF BeginEffect, Acknowledged, TurnErrorPlayed, EmptyPlayed, EffectPlayed
<1>4. CASE Chunk
  BY <1>4 DEF Chunk, At, ListenInv, Active
<1>5. CASE Drain \/ Abort \/ StopSpeech
  BY <1>5 DEF Drain, Abort, StopSpeech, Silenced
<1>6. CASE CloseInput \/ CloseOutput
  BY <1>6 DEF CloseInput, CloseOutput, StopPlayback
<1>7. CASE Start \/ Retry \/ Listen \/ Detect \/ FollowupFrame \/ FollowupEnds \/ MicrophoneInactive
  BY <1>1, <1>7 DEF Start, Retry, Listen, Detect, FollowupFrame, FollowupEnds,
      MicrophoneInactive
<1>8. CASE EffectFails \/ OnsetFrame \/ OnsetEnds \/ SpeechFrame \/ SpeechEnds \/ Transcribe
           \/ Respond \/ Tool \/ Written \/ StreamEnds \/ TimeoutOutside \/ SpeakerFails
           \/ GuardEnds
  BY <1>1, <1>8 DEF EffectFails, OnsetFrame, OnsetEnds, SpeechFrame, SpeechEnds, Transcribe,
      Respond, Tool, Written, StreamEnds, TimeoutOutside, SpeakerFails, GuardEnds
<1>9. CASE UnwindSpeech \/ Unwind \/ Stop \/ Join
  BY <1>1, <1>9 DEF UnwindSpeech, Unwind, Stop, Join
<1>10. CASE Hear \/ Hand \/ Receive \/ TimerDue \/ DeadlinePasses \/ Plug \/ UNCHANGED vars
  BY <1>1, <1>10 DEF Hear, Hand, Receive, Beside, TimerDue, DeadlinePasses, Plug, vars
<1> QED
  BY <1>2, <1>3, <1>4, <1>5, <1>6, <1>7, <1>8, <1>9, <1>10 DEF Next, Flow, Turn, Stopping

\* (stop) Whatever stop() interrupted, when it is done its task is over, nothing sounds, no
\* frame comes in, and the speaker is closed unless an abort had failed. Nothing is said of a
\* microphone that a cancelled thread opened late.
THEOREM DisabledQuiet == Spec => []DisabledIsQuiet
<1>1. Init => StopInv /\ ListenInv /\ SpeakerInv
  BY DEF Init, AudioInit, StopInv, Late, Cleaning, ListenInv, Idle, Active, SpeakerInv
<1>2. StopInv /\ ListenInv /\ SpeakerInv => DisabledIsQuiet
  BY DEF StopInv, Late, SpeakerInv, DisabledIsQuiet
<1> QED  BY <1>1, <1>2, StopKept, ListenKept, SpeakerKept, PTL DEF Spec

-----------------------------------------------------------------------------
(* Types *)

\* TypeOK without the session and the queue: what the flow is at, its flags, its data.
FlowStates ==
    /\ life \in {"new", "starting", "on"} \cup Late
    /\ state \in States /\ pc \in Places /\ failing \in {"retry", "fatal"}
    /\ pc \in {"ack", "onset", "speech"} => state = "RECORDING"
    /\ pc \in {"transcribe", "respond", "tool"} => state = "PROCESSING"
    /\ pc \in {"stream", "write", "drain", "guard"} => state = "SPEAKING"
    /\ pc \in {"loop", "detect"} => state \in Waiting
    /\ life \in {"new", "closing", "leaving", "down"} => pc = "over"
FlowFlags == /\ cancelled \in BOOLEAN /\ armed \in BOOLEAN /\ due \in BOOLEAN
             /\ stream \in BOOLEAN /\ capturing \in BOOLEAN
FlowData ==
    /\ flags \subseteq {"detector", "input", "playback"}
    /\ playback \in {"new", "ready", "stuck", "stopped"}
    /\ output \in {"none", "idle", "effect", "speech"}
    /\ trigger \in {"WAKE_WORD", "FOLLOWUP"} /\ after \in {"turn", "empty", "fatal", "cancel"}
    /\ deadline \in {"none", "open", "passed"} /\ plugged \subseteq Devices

\* (VoiceService._transition) The published state is the one of the await.
LEMMA StatesKept == FlowStates /\ [Next]_vars => FlowStates'
<1> SUFFICES ASSUME FlowStates, [Next]_vars PROVE FlowStates'
  OBVIOUS
<1> USE DEF FlowStates, Late, States, Places, Waiting
<1>1. CASE Start \/ StartDetector \/ Retry
  BY <1>1 DEF Start, StartDetector, Retry, At, Go, Fail, deviceVars, turnVars, audioVars
<1>2. CASE OpenInput \/ OpenOutput
  BY <1>2 DEF OpenInput, OpenOutput, At, Go, Fail, Opened, EnterWaitingWake, Started, Discard,
      DiscardPending, turnVars, deviceVars, audioVars
<1>3. CASE CleanInput \/ CleanOutput
  BY <1>3 DEF CleanInput, CleanOutput, At, Go, Closed, DiscardPending, StopPlayback, Started,
      turnVars, audioVars
<1>4. CASE Listen \/ FollowupFrame \/ OnsetFrame \/ SpeechFrame
  BY <1>4 DEF Listen, FollowupFrame, OnsetFrame, SpeechFrame, At, Go, Take, taskVars,
      deviceVars, turnVars
<1>5. CASE Detect \/ FollowupEnds \/ MicrophoneInactive \/ OnsetEnds \/ SpeechEnds
  BY <1>5 DEF Detect, FollowupEnds, MicrophoneInactive, OnsetEnds, SpeechEnds, At, Go, Fail,
      NoUtterance, StillFollowup, EnterWaitingWake, Discard, DiscardPending, deviceVars,
      turnVars, audioVars
<1>6. CASE BeginEffect \/ EffectFails \/ Acknowledged \/ TurnErrorPlayed \/ EmptyPlayed
  BY <1>6 DEF BeginEffect, EffectFails, Acknowledged, TurnErrorPlayed, EmptyPlayed, At, Go,
      Fail, EffectPlayed, StillFollowup, EnterWaitingWake, Discard, DiscardPending, taskVars,
      deviceVars, turnVars, audioVars
<1>7. CASE Transcribe \/ Respond \/ Tool
  BY <1>7 DEF Transcribe, Respond, Tool, At, Go, Fail, PlayError, Discard, DiscardPending,
      deviceVars, turnVars, audioVars
<1>8. CASE Chunk \/ Written \/ StreamEnds \/ TimeoutOutside \/ SpeakerFails
  BY <1>8 DEF Chunk, Written, StreamEnds, TimeoutOutside, SpeakerFails, At, Go, AbortThen,
      deviceVars, turnVars, audioVars
<1>9. CASE Drain \/ Abort \/ GuardEnds
  BY <1>9 DEF Drain, Abort, GuardEnds, At, Go, Fail, Silenced, PlayError, EnterWaitingWake,
      Discard, DiscardPending, deviceVars, turnVars, audioVars
<1>10. CASE UnwindSpeech
  BY <1>10 DEF UnwindSpeech, deviceVars, turnVars, audioVars
<1>11. CASE Unwind
  BY <1>11 DEF Unwind, DiscardPending, deviceVars, turnVars, audioVars
<1>12. CASE Stop
  BY <1>12 DEF Stop, Discard, DiscardPending, deviceVars, turnVars, audioVars
<1>13. CASE StopSpeech \/ Join \/ CloseInput \/ CloseOutput
  BY <1>13 DEF StopSpeech, Join, CloseInput, CloseOutput, Silenced, Closed, DiscardPending,
      StopPlayback, taskVars, deviceVars, turnVars, audioVars
<1>14. CASE Hear \/ Hand \/ Receive
  BY <1>14 DEF Hear, Hand, Receive, Capture, Post, Enqueue, Beside, taskVars, deviceVars,
      turnVars
<1>15. CASE TimerDue \/ DeadlinePasses \/ Plug
  BY <1>15 DEF TimerDue, DeadlinePasses, Plug, taskVars, deviceVars, turnVars, audioVars
<1>16. CASE UNCHANGED vars
  BY <1>16 DEF vars, taskVars, deviceVars, turnVars, audioVars
<1> QED
  BY <1>1, <1>2, <1>3, <1>4, <1>5, <1>6, <1>7, <1>8, <1>9, <1>10, <1>11, <1>12, <1>13, <1>14,
      <1>15, <1>16 DEF Next, Flow, Turn, Stopping

\* (VoiceService) The flags stay flags.
LEMMA FlagsKept == FlowFlags /\ [Next]_vars => FlowFlags'
<1> SUFFICES ASSUME FlowFlags, [Next]_vars PROVE FlowFlags'
  OBVIOUS
<1> USE DEF FlowFlags
<1>1. CASE Start \/ StartDetector \/ Retry
  BY <1>1 DEF Start, StartDetector, Retry, At, Go, Fail, deviceVars, turnVars, audioVars
<1>2. CASE OpenInput \/ OpenOutput
  BY <1>2 DEF OpenInput, OpenOutput, At, Go, Fail, Opened, EnterWaitingWake, Started, Discard,
      DiscardPending, turnVars, deviceVars, audioVars
<1>3. CASE CleanInput \/ CleanOutput
  BY <1>3 DEF CleanInput, CleanOutput, At, Go, Closed, DiscardPending, StopPlayback, Started,
      turnVars, audioVars
<1>4. CASE Listen \/ FollowupFrame \/ OnsetFrame \/ SpeechFrame
  BY <1>4 DEF Listen, FollowupFrame, OnsetFrame, SpeechFrame, At, Go, Take, taskVars,
      deviceVars, turnVars
<1>5. CASE Detect \/ FollowupEnds \/ MicrophoneInactive \/ OnsetEnds \/ SpeechEnds
  BY <1>5 DEF Detect, FollowupEnds, MicrophoneInactive, OnsetEnds, SpeechEnds, At, Go, Fail,
      NoUtterance, StillFollowup, EnterWaitingWake, Discard, DiscardPending, deviceVars,
      turnVars, audioVars
<1>6. CASE BeginEffect \/ EffectFails \/ Acknowledged \/ TurnErrorPlayed \/ EmptyPlayed
  BY <1>6 DEF BeginEffect, EffectFails, Acknowledged, TurnErrorPlayed, EmptyPlayed, At, Go,
      Fail, EffectPlayed, StillFollowup, EnterWaitingWake, Discard, DiscardPending, taskVars,
      deviceVars, turnVars, audioVars
<1>7. CASE Transcribe \/ Respond \/ Tool
  BY <1>7 DEF Transcribe, Respond, Tool, At, Go, Fail, PlayError, Discard, DiscardPending,
      deviceVars, turnVars, audioVars
<1>8. CASE Chunk \/ Written \/ StreamEnds \/ TimeoutOutside \/ SpeakerFails
  BY <1>8 DEF Chunk, Written, StreamEnds, TimeoutOutside, SpeakerFails, At, Go, AbortThen,
      deviceVars, turnVars, audioVars
<1>9. CASE Drain \/ Abort \/ GuardEnds
  BY <1>9 DEF Drain, Abort, GuardEnds, At, Go, Fail, Silenced, PlayError, EnterWaitingWake,
      Discard, DiscardPending, deviceVars, turnVars, audioVars
<1>10. CASE UnwindSpeech
  BY <1>10 DEF UnwindSpeech, deviceVars, turnVars, audioVars
<1>11. CASE Unwind
  BY <1>11 DEF Unwind, DiscardPending, deviceVars, turnVars, audioVars
<1>12. CASE Stop
  BY <1>12 DEF Stop, Discard, DiscardPending, deviceVars, turnVars, audioVars
<1>13. CASE StopSpeech \/ Join \/ CloseInput \/ CloseOutput
  BY <1>13 DEF StopSpeech, Join, CloseInput, CloseOutput, Silenced, Closed, DiscardPending,
      StopPlayback, taskVars, deviceVars, turnVars, audioVars
<1>14. CASE Hear \/ Hand \/ Receive
  BY <1>14 DEF Hear, Hand, Receive, Capture, Post, Enqueue, Beside, taskVars, deviceVars,
      turnVars
<1>15. CASE TimerDue \/ DeadlinePasses \/ Plug
  BY <1>15 DEF TimerDue, DeadlinePasses, Plug, taskVars, deviceVars, turnVars, audioVars
<1>16. CASE UNCHANGED vars
  BY <1>16 DEF vars, taskVars, deviceVars, turnVars, audioVars
<1> QED
  BY <1>1, <1>2, <1>3, <1>4, <1>5, <1>6, <1>7, <1>8, <1>9, <1>10, <1>11, <1>12, <1>13, <1>14,
      <1>15, <1>16 DEF Next, Flow, Turn, Stopping

\* (VoiceService) The devices and the turn keep their types.
LEMMA DataKept == FlowData /\ [Next]_vars => FlowData'
<1> SUFFICES ASSUME FlowData, [Next]_vars PROVE FlowData'
  OBVIOUS
<1> USE DEF FlowData, Devices
<1>1. CASE Start \/ StartDetector \/ Retry
  BY <1>1 DEF Start, StartDetector, Retry, At, Go, Fail, deviceVars, turnVars, audioVars
<1>2. CASE OpenInput \/ OpenOutput
  BY <1>2 DEF OpenInput, OpenOutput, At, Go, Fail, Opened, EnterWaitingWake, Started, Discard,
      DiscardPending, turnVars, deviceVars, audioVars
<1>3. CASE CleanInput \/ CleanOutput
  BY <1>3 DEF CleanInput, CleanOutput, At, Go, Closed, DiscardPending, StopPlayback, Started,
      turnVars, audioVars
<1>4. CASE Listen \/ FollowupFrame \/ OnsetFrame \/ SpeechFrame
  BY <1>4 DEF Listen, FollowupFrame, OnsetFrame, SpeechFrame, At, Go, Take, taskVars,
      deviceVars, turnVars
<1>5. CASE Detect \/ FollowupEnds \/ MicrophoneInactive \/ OnsetEnds \/ SpeechEnds
  BY <1>5 DEF Detect, FollowupEnds, MicrophoneInactive, OnsetEnds, SpeechEnds, At, Go, Fail,
      NoUtterance, StillFollowup, EnterWaitingWake, Discard, DiscardPending, deviceVars,
      turnVars, audioVars
<1>6. CASE BeginEffect \/ EffectFails \/ Acknowledged \/ TurnErrorPlayed \/ EmptyPlayed
  BY <1>6 DEF BeginEffect, EffectFails, Acknowledged, TurnErrorPlayed, EmptyPlayed, At, Go,
      Fail, EffectPlayed, StillFollowup, EnterWaitingWake, Discard, DiscardPending, taskVars,
      deviceVars, turnVars, audioVars
<1>7. CASE Transcribe \/ Respond \/ Tool
  BY <1>7 DEF Transcribe, Respond, Tool, At, Go, Fail, PlayError, Discard, DiscardPending,
      deviceVars, turnVars, audioVars
<1>8. CASE Chunk \/ Written \/ StreamEnds \/ TimeoutOutside \/ SpeakerFails
  BY <1>8 DEF Chunk, Written, StreamEnds, TimeoutOutside, SpeakerFails, At, Go, AbortThen,
      deviceVars, turnVars, audioVars
<1>9. CASE Drain \/ Abort \/ GuardEnds
  BY <1>9 DEF Drain, Abort, GuardEnds, At, Go, Fail, Silenced, PlayError, EnterWaitingWake,
      Discard, DiscardPending, deviceVars, turnVars, audioVars
<1>10. CASE UnwindSpeech
  BY <1>10 DEF UnwindSpeech, deviceVars, turnVars, audioVars
<1>11. CASE Unwind
  BY <1>11 DEF Unwind, DiscardPending, deviceVars, turnVars, audioVars
<1>12. CASE Stop
  BY <1>12 DEF Stop, Discard, DiscardPending, deviceVars, turnVars, audioVars
<1>13. CASE StopSpeech \/ Join \/ CloseInput \/ CloseOutput
  BY <1>13 DEF StopSpeech, Join, CloseInput, CloseOutput, Silenced, Closed, DiscardPending,
      StopPlayback, taskVars, deviceVars, turnVars, audioVars
<1>14. CASE Hear \/ Hand \/ Receive
  BY <1>14 DEF Hear, Hand, Receive, Capture, Post, Enqueue, Beside, taskVars, deviceVars,
      turnVars
<1>15. CASE TimerDue \/ DeadlinePasses \/ Plug
  BY <1>15 DEF TimerDue, DeadlinePasses, Plug, taskVars, deviceVars, turnVars, audioVars
<1>16. CASE UNCHANGED vars
  BY <1>16 DEF vars, taskVars, deviceVars, turnVars, audioVars
<1> QED
  BY <1>1, <1>2, <1>3, <1>4, <1>5, <1>6, <1>7, <1>8, <1>9, <1>10, <1>11, <1>12, <1>13, <1>14,
      <1>15, <1>16 DEF Next, Flow, Turn, Stopping
\* (LocalAudioInput._enqueue_from_loop) The queue drops its oldest frame rather than grow.
LEMMA BoundsKept ==
  ASSUME DuplexInv, Len(queue) <= QueueFrames, Len(posted) <= PostedMax, [Next]_vars
  PROVE  Len(queue)' <= QueueFrames /\ Len(posted)' <= PostedMax
<1>1. queue \in Seq(Frame) /\ posted \in Seq(Message) /\ QueueFrames \in Nat \ {0} /\ PostedMax \in Nat \ {0}
  BY QueueAssumption DEF DuplexInv, QueueInv
<1>2. CASE Untouched \/ Hear
  BY <1>2 DEF Untouched, Hear, Capture
<1>3. CASE Shut \/ Reopened
  <2>1. queue' = <<>> /\ posted' = [i \in 1..Len(posted) |-> [posted[i] EXCEPT !.current = FALSE]]
    BY <1>1, <1>3 DEF Shut, Reopened, DiscardPending
  <2> QED  BY <1>1, <2>1
<1>4. CASE Take
  BY <1>1, <1>4 DEF Take, threadVars
<1>5. CASE Hand
  BY <1>1, <1>5 DEF Hand, Post
<1>6. CASE Receive
  <2>1. posted # <<>> /\ posted' = Tail(posted)
    BY <1>6 DEF Receive, Enqueue
  <2>2. CASE queue' = queue
    BY <1>1, <2>1, <2>2
  <2>3. CASE queue' = Append(IF Len(queue) = QueueFrames THEN Tail(queue) ELSE queue, posted[1].frame)
    <3>1. CASE Len(queue) = QueueFrames
      BY <1>1, <2>1, <2>3, <3>1
    <3>2. CASE Len(queue) # QueueFrames
      BY <1>1, <2>1, <2>3, <3>2
    <3> QED  BY <3>1, <3>2
  <2> QED  BY <1>6, <2>2, <2>3 DEF Receive, Enqueue
<1> QED  BY <1>2, <1>3, <1>4, <1>5, <1>6, Kinds DEF Step, DuplexInv

\* (VoiceService._transition, LocalAudioInput, AssistantService) Every variable keeps its type, the queue
\* its bound, and the published state is the one of the await.
THEOREM Typing == Spec => []TypeOK
<1> DEFINE Bounded == Len(queue) <= QueueFrames /\ Len(posted) <= PostedMax
           I == FlowStates /\ FlowFlags /\ FlowData /\ SessionInv /\ DuplexInv /\ Bounded
<1>1. Init => FlowStates /\ FlowFlags /\ FlowData
  BY DEF Init, AudioInit, FlowStates, FlowFlags, FlowData, Late, States, Places, Waiting
<1>2. Init => Bounded
  <2>1. Len(<<>>) = 0
    OBVIOUS
  <2> QED  BY <2>1, QueueAssumption DEF Init, AudioInit
<1>3. I /\ [Next]_vars => I'
  BY StatesKept, FlagsKept, DataKept, SessionKept, DuplexKept, BoundsKept
<1>4. I => TypeOK
  BY DEF FlowStates, FlowFlags, FlowData, Late, SessionInv, History, DuplexInv, QueueInv,
      Message, TypeOK
<1> QED  BY <1>1, <1>2, <1>3, <1>4, SessionInit, DuplexInit, PTL DEF Spec
=============================================================================
