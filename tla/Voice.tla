--------------------------------- MODULE Voice ---------------------------------
(***************************************************************************)
(* VoiceService with PlaybackCoordinator, LocalPcmOutput and RmsRecorder   *)
(* (src/smart_desk/modules/voice), over the microphone of AudioInput and   *)
(* the session of Assistant.                                               *)
(*                                                                         *)
(* One flow, pc, goes from the start of the devices through the turns. It  *)
(* is run by start() first and by the task voice-main from then on. Every  *)
(* value of pc but "over" is an await, where a cancellation may reach it;  *)
(* stop() runs beside it (life). _stopping is life beyond "on". What the   *)
(* model of the wake word, the level of a frame and OpenAI decide is left  *)
(* open; what a recording keeps is abstracted to whether speech has begun. *)
(***************************************************************************)
EXTENDS AudioInput, Assistant

VARIABLES
    life,               \* start() and stop(), called once each by the lifecycle
    state,              \* _state
    pc, cancelled,      \* the flow, and a cancellation it has not seen
    failing,            \* "retry" if the error is in RECOVERABLE_DEVICE_ERRORS, else "fatal"
    flags,              \* _detector_started, _input_started, _playback_started
    playback, output,   \* PlaybackCoordinator, and what LocalPcmOutput is doing
    armed,              \* the wake word detector is not _disarmed
    trigger, deadline,  \* of the turn; _followup_deadline
    due,                \* the timer of the recording or of the TTS stream has run out
    after,              \* what follows an effect or an abort
    plugged             \* devices that work

taskVars == <<pc, cancelled, failing>>
deviceVars == <<flags, playback, output>>
turnVars == <<trigger, due, after>>
vars == <<life, state, taskVars, deviceVars, armed, turnVars, deadline, plugged,
          audioVars, assistantVars>>

At(p) == pc = p /\ ~cancelled
Devices == {"microphone", "speaker"}
Waiting == {"WAITING_WAKE", "WAITING_FOLLOWUP"}

-----------------------------------------------------------------------------
(* Pieces of steps *)

Go(p) == pc' = p /\ UNCHANGED <<cancelled, failing>>
Fail(how) == pc' = "cleanInput" /\ failing' = how /\ UNCHANGED cancelled

\* _enter_waiting_wake, which always clears the follow-up here.
EnterWaitingWake ==
    /\ deadline' = "none"
    /\ Discard(TRUE)
    /\ armed' = TRUE
    /\ state' = "WAITING_WAKE"
    /\ Go("loop")

\* _recover_turn_error and _recover_empty_transcript up to the effect.
PlayError(k) == /\ Discard(FALSE)
                /\ after' = k
                /\ Go("error")
                /\ UNCHANGED <<trigger, due>>

\* PlaybackCoordinator.stop() swallowed by _cleanup_call. An abort that fails leaves
\* the coordinator started and stopping, and its stream open.
StopPlayback ==
    IF "playback" \notin flags THEN UNCHANGED <<playback, output>>
    ELSE \/ playback' = "stopped" /\ output' = "none"
         \/ /\ "speaker" \notin plugged /\ output \in {"effect", "speech"}
            /\ playback' = "stuck" /\ output' = "idle"

-----------------------------------------------------------------------------
(* start() and _start_components *)

Start == /\ life = "new" /\ life' = "starting"
         /\ Go("detector")
         /\ UNCHANGED <<state, deviceVars, armed, turnVars, deadline, plugged, audioVars,
                        assistantVars>>

Started == life' = IF life = "starting" THEN "on" ELSE life

StartDetector ==
    /\ At("detector")
    /\ \/ Go("microphone") /\ flags' = flags \cup {"detector"}
       \/ Fail("fatal") /\ UNCHANGED flags
    /\ UNCHANGED <<life, state, playback, output, armed, turnVars, deadline, plugged,
                   audioVars, assistantVars>>

OpenInput ==
    /\ At("microphone")
    /\ IF "microphone" \in plugged
       THEN Go("speaker") /\ flags' = flags \cup {"input"} /\ Opened
       ELSE Fail("retry") /\ UNCHANGED <<flags, audioVars>>
    /\ UNCHANGED <<life, state, playback, output, armed, turnVars, deadline, plugged,
                   assistantVars>>

OpenOutput ==
    /\ At("speaker")
    /\ \/ /\ "speaker" \in plugged
          /\ playback' = "ready" /\ output' = "idle"
          /\ flags' = flags \cup {"playback"}
          /\ EnterWaitingWake /\ Started
       \/ /\ "speaker" \notin plugged /\ Fail("retry")
          /\ UNCHANGED <<life, state, deviceVars, armed, deadline, audioVars>>
       \/ /\ Fail("fatal")          \* a broken effect file
          /\ UNCHANGED <<life, state, deviceVars, armed, deadline, audioVars>>
    /\ UNCHANGED <<turnVars, plugged, assistantVars>>

-----------------------------------------------------------------------------
(* _supervise: cleanup after an error, retry *)

CleanInput ==
    /\ At("cleanInput")
    /\ IF "input" \in flags THEN Closed ELSE UNCHANGED audioVars
    /\ flags' = flags \ {"input"}
    /\ Go("cleanOutput")
    /\ Forget
    /\ UNCHANGED <<life, state, playback, output, armed, turnVars, deadline, plugged>>

CleanOutput ==
    /\ At("cleanOutput")
    /\ StopPlayback
    /\ flags' = {} /\ armed' = TRUE
    /\ state' = "ERROR"
    /\ pc' = (IF failing = "retry" THEN "retry" ELSE "over")
    /\ failing' = "retry" /\ UNCHANGED cancelled
    /\ Started
    /\ UNCHANGED <<turnVars, deadline, plugged, audioVars, assistantVars>>

Retry ==
    /\ At("retry")
    /\ Go("detector")
    /\ UNCHANGED <<life, state, deviceVars, armed, turnVars, deadline, plugged, audioVars,
                   assistantVars>>

-----------------------------------------------------------------------------
(* _run: wake word and follow-up *)

Listen ==
    /\ At("loop") /\ state = "WAITING_WAKE"
    /\ Take
    /\ Go("detect")
    /\ UNCHANGED <<life, state, deviceVars, armed, turnVars, deadline, plugged, assistantVars>>

\* The inference thread answers; with the wake word _run_turn begins.
Detect ==
    /\ At("detect")
    /\ \/ /\ Go("loop")
          /\ UNCHANGED <<state, armed, trigger, audioVars>>
       \/ /\ armed
          /\ armed' = FALSE
          /\ state' = "RECORDING" /\ trigger' = "WAKE_WORD"
          /\ Discard(FALSE)
          /\ Go("ack")
       \/ Fail("fatal") /\ UNCHANGED <<state, armed, trigger, audioVars>>
    /\ UNCHANGED <<life, deviceVars, due, after, deadline, plugged, assistantVars>>

FollowupFrame ==
    /\ At("loop") /\ state = "WAITING_FOLLOWUP" /\ deadline = "open"
    /\ Take
    /\ \/ Go("loop") /\ UNCHANGED <<state, turnVars>>
       \/ /\ Go("onset") /\ state' = "RECORDING"
          /\ trigger' = "FOLLOWUP" /\ due' = FALSE
          /\ UNCHANGED after
    /\ UNCHANGED <<life, deviceVars, armed, deadline, plugged, assistantVars>>

FollowupEnds ==
    /\ At("loop") /\ state = "WAITING_FOLLOWUP" /\ deadline = "passed"
    /\ EnterWaitingWake
    /\ UNCHANGED <<life, deviceVars, turnVars, plugged, assistantVars>>

\* read() times out and finds the stream inactive or the callback silent.
MicrophoneInactive ==
    /\ pc \in {"loop", "onset", "speech"} /\ ~cancelled
    /\ queue = <<>> /\ ~capturing
    /\ Fail("retry") /\ due' = FALSE
    /\ UNCHANGED <<life, state, deviceVars, armed, trigger, after, deadline, plugged, audioVars,
                   assistantVars>>

-----------------------------------------------------------------------------
(* The effects: play_effect *)

\* A frame of speech is not in the callback as long as an effect or the guard lasts.
Brief == flight # "echo"

BeginEffect ==
    /\ pc \in {"ack", "error"} /\ ~cancelled /\ output = "idle"
    /\ IF "speaker" \in plugged THEN output' = "effect" /\ UNCHANGED taskVars
       ELSE Fail("fatal") /\ UNCHANGED output
    /\ UNCHANGED <<life, state, flags, playback, armed, turnVars, deadline, plugged,
                   audioVars, assistantVars>>

\* The device fails while it plays: play_effect does not abort.
EffectFails ==
    /\ pc \in {"ack", "error"} /\ ~cancelled /\ output = "effect"
    /\ "speaker" \notin plugged
    /\ Fail("fatal") /\ after' = "turn"
    /\ UNCHANGED <<life, state, deviceVars, armed, trigger, due, deadline, plugged, audioVars,
                   assistantVars>>

EffectPlayed == output = "effect" /\ "speaker" \in plugged /\ Brief /\ output' = "idle"

Acknowledged ==
    /\ At("ack") /\ EffectPlayed
    /\ Discard(TRUE)
    /\ Go("onset") /\ due' = FALSE
    /\ UNCHANGED <<life, state, flags, playback, armed, trigger, after, deadline, plugged,
                   assistantVars>>

StillFollowup == trigger = "FOLLOWUP" /\ deadline = "open"

TurnErrorPlayed ==
    /\ At("error") /\ after = "turn" /\ EffectPlayed
    /\ EnterWaitingWake
    /\ UNCHANGED <<life, flags, playback, turnVars, plugged, assistantVars>>

\* Mutant of EmptyPlayed: back to the follow-up without opening the microphone.
EmptyPlayedDeaf ==
    /\ At("error") /\ after = "empty" /\ EffectPlayed
    /\ IF StillFollowup
       THEN /\ Discard(accepting)
            /\ state' = "WAITING_FOLLOWUP" /\ Go("loop")
            /\ UNCHANGED <<armed, deadline>>
       ELSE EnterWaitingWake
    /\ after' = "turn"
    /\ UNCHANGED <<life, flags, playback, trigger, due, plugged, assistantVars>>

\* Mutant of EmptyPlayed: an empty utterance gets a new follow-up window.
EmptyPlayedAnew ==
    /\ At("error") /\ after = "empty" /\ EffectPlayed
    /\ IF trigger = "FOLLOWUP"
       THEN /\ Discard(TRUE)
            /\ state' = "WAITING_FOLLOWUP" /\ Go("loop")
            /\ deadline' = "open"
            /\ UNCHANGED armed
       ELSE EnterWaitingWake
    /\ after' = "turn"
    /\ UNCHANGED <<life, flags, playback, trigger, due, plugged, assistantVars>>

EmptyPlayed ==
    /\ At("error") /\ after = "empty" /\ EffectPlayed
    /\ IF StillFollowup
       THEN /\ Discard(TRUE)
            /\ state' = "WAITING_FOLLOWUP" /\ Go("loop")
            /\ UNCHANGED <<armed, deadline>>
       ELSE EnterWaitingWake
    /\ after' = "turn"
    /\ UNCHANGED <<life, flags, playback, trigger, due, plugged, assistantVars>>

-----------------------------------------------------------------------------
(* RmsRecorder.record *)

OnsetDue == IF trigger = "FOLLOWUP" THEN deadline = "passed" ELSE due

OnsetFrame ==
    /\ At("onset") /\ ~OnsetDue
    /\ Take
    /\ \/ Go("onset") /\ UNCHANGED due
       \/ Go("speech") /\ due' = FALSE
    /\ UNCHANGED <<life, state, deviceVars, armed, trigger, after, deadline, plugged,
                   assistantVars>>

\* _return_after_empty_recording
NoUtterance ==
    /\ IF StillFollowup
       THEN /\ state' = "WAITING_FOLLOWUP" /\ Go("loop")
            /\ UNCHANGED <<armed, deadline, audioVars>>
       ELSE EnterWaitingWake
    /\ UNCHANGED assistantVars

OnsetEnds ==
    /\ At("onset") /\ OnsetDue
    /\ NoUtterance
    /\ due' = FALSE
    /\ UNCHANGED <<life, deviceVars, trigger, after, plugged>>

SpeechFrame ==
    /\ At("speech") /\ ~due
    /\ Take
    /\ UNCHANGED <<life, state, taskVars, deviceVars, armed, turnVars, deadline, plugged,
                   assistantVars>>

\* Silence or the longest duration ends the utterance, which may be too short.
SpeechEnds ==
    /\ At("speech")
    /\ \/ NoUtterance
       \/ /\ Discard(FALSE)
          /\ state' = "PROCESSING" /\ Go("transcribe")
          /\ UNCHANGED <<armed, deadline, assistantVars>>
    /\ due' = FALSE
    /\ UNCHANGED <<life, deviceVars, trigger, after, plugged>>

-----------------------------------------------------------------------------
(* _run_turn: transcription and reply *)

Transcribe ==
    /\ At("transcribe")
    /\ \/ Go("respond") /\ BeginTurn /\ UNCHANGED <<turnVars, audioVars>>
       \/ \E k \in {"turn", "empty"} : PlayError(k) /\ UNCHANGED assistantVars
    /\ UNCHANGED <<life, state, deviceVars, armed, deadline, plugged>>

Respond ==
    /\ At("respond")
    /\ \/ /\ \E k \in StepCalls : AskTools(k)
          /\ Go("tool") /\ UNCHANGED <<state, turnVars, audioVars>>
       \/ /\ Commit
          /\ state' = "SPEAKING" /\ Go("stream") /\ due' = FALSE
          /\ UNCHANGED <<trigger, after, audioVars>>
       \/ PlayError("turn") /\ Forget /\ UNCHANGED state
    /\ UNCHANGED <<life, deviceVars, armed, deadline, plugged>>

\* A call beyond the limit is a turn error; a provider that raises is fatal.
Tool ==
    /\ At("tool")
    /\ \/ RunTool /\ Go(IF todo = 1 THEN "respond" ELSE "tool")
          /\ UNCHANGED <<turnVars, audioVars>>
       \/ calls >= MaxToolCalls /\ PlayError("turn") /\ Forget
       \/ Fail("fatal") /\ Forget /\ UNCHANGED <<turnVars, audioVars>>
    /\ UNCHANGED <<life, state, deviceVars, armed, deadline, plugged>>

-----------------------------------------------------------------------------
(* play_speech over OpenAiGateway.synthesize *)

AbortThen(k) == Go("abort") /\ after' = k /\ due' = FALSE /\ UNCHANGED trigger

Chunk ==
    /\ At("stream") /\ ~due
    /\ Go("write")
    /\ output' = IF "speaker" \in plugged THEN "speech" ELSE output
    /\ UNCHANGED <<life, state, flags, playback, armed, turnVars, deadline, plugged,
                   audioVars, assistantVars>>

Written ==
    /\ At("write") /\ ~due /\ "speaker" \in plugged
    /\ Go("stream")
    /\ UNCHANGED <<life, state, deviceVars, armed, turnVars, deadline, plugged, audioVars,
                   assistantVars>>

\* The stream ends, fails or times out inside the generator, or ends on half a sample.
StreamEnds ==
    /\ At("stream")
    /\ \/ ~due /\ Go("drain") /\ UNCHANGED turnVars
       \/ AbortThen("turn")
       \/ ~due /\ AbortThen("fatal")
    /\ UNCHANGED <<life, state, deviceVars, armed, deadline, plugged, audioVars,
                   assistantVars>>

\* The timeout of synthesize() runs out while play_speech writes what it was given:
\* asyncio.timeout cancels the task, and its own except clauses are not on the stack.
TimeoutOutside ==
    /\ At("write") /\ due
    /\ AbortThen("cancel")
    /\ UNCHANGED <<life, state, deviceVars, armed, deadline, plugged, audioVars,
                   assistantVars>>

SpeakerFails ==
    /\ pc \in {"write", "drain"} /\ ~cancelled /\ "speaker" \notin plugged
    /\ AbortThen("fatal")
    /\ UNCHANGED <<life, state, deviceVars, armed, deadline, plugged, audioVars,
                   assistantVars>>

Silenced == output' = IF output = "none" THEN "none" ELSE "idle"

\* The stream was drained, or is empty: _after_successful_playback.
Drain ==
    /\ At("drain") /\ "speaker" \in plugged
    /\ Silenced
    /\ Discard(FALSE)
    /\ Go("guard")
    /\ UNCHANGED <<life, state, flags, playback, armed, turnVars, deadline, plugged,
                   assistantVars>>

\* output.abort() in the except clauses of play_speech. If it raises itself, that
\* error is the one that counts.
Abort ==
    /\ At("abort")
    /\ Silenced
    /\ \/ after = "turn" /\ PlayError("turn")
       \/ /\ after = "cancel" /\ Go("over")
          /\ after' = "turn" /\ UNCHANGED <<trigger, due, audioVars>>
       \/ /\ after = "fatal" \/ (output = "speech" /\ "speaker" \notin plugged)
          /\ Fail("fatal")
          /\ after' = "turn" /\ UNCHANGED <<trigger, due, audioVars>>
    /\ UNCHANGED <<life, state, flags, playback, armed, deadline, plugged, assistantVars>>

\* Mutant of GuardEnds: what came in during the guard is kept.
GuardEndsKeeping ==
    /\ At("guard") /\ Brief
    /\ \/ /\ accepting' = TRUE /\ UNCHANGED <<stream, capturing, queue, threadVars>>
          /\ deadline' = "open"
          /\ state' = "WAITING_FOLLOWUP" /\ Go("loop")
          /\ UNCHANGED armed
       \/ EnterWaitingWake
    /\ UNCHANGED <<life, deviceVars, turnVars, plugged, assistantVars>>

\* post_playback_guard_seconds are over; the reply decides what follows.
GuardEnds ==
    /\ At("guard") /\ Brief
    /\ \/ /\ Discard(TRUE)
          /\ deadline' = "open"
          /\ state' = "WAITING_FOLLOWUP" /\ Go("loop")
          /\ UNCHANGED armed
       \/ EnterWaitingWake
    /\ UNCHANGED <<life, deviceVars, turnVars, plugged, assistantVars>>

Turn == \/ BeginEffect \/ EffectFails \/ Acknowledged \/ TurnErrorPlayed \/ EmptyPlayed
        \/ OnsetFrame \/ OnsetEnds \/ SpeechFrame \/ SpeechEnds
        \/ Transcribe \/ Respond \/ Tool
        \/ Chunk \/ Written \/ StreamEnds \/ TimeoutOutside \/ SpeakerFails \/ Drain \/ Abort
        \/ GuardEnds

-----------------------------------------------------------------------------
(* CancelledError at the await where the flow is *)

UnwindSpeech ==
    /\ cancelled /\ pc \in {"stream", "write", "drain"}
    /\ pc' = "abort" /\ cancelled' = FALSE /\ after' = "cancel" /\ due' = FALSE
    /\ UNCHANGED <<life, state, failing, deviceVars, armed, trigger, deadline, plugged,
                   audioVars, assistantVars>>

\* No thread is waited for: a stream opened late, or one whose close was never
\* called, goes on capturing.
Unwind ==
    /\ cancelled /\ pc \notin {"stream", "write", "drain"}
    /\ pc' = "over" /\ cancelled' = FALSE
    /\ Forget
    /\ after' = "turn" /\ due' = FALSE
    /\ \/ UNCHANGED audioVars
       \/ /\ pc = "microphone" /\ "microphone" \in plugged
          /\ capturing' = TRUE
          /\ UNCHANGED <<stream, accepting, queue, threadVars>>
       \/ /\ pc = "cleanInput" /\ "input" \in flags
          /\ stream' = FALSE /\ accepting' = FALSE /\ DiscardPending
          /\ UNCHANGED <<capturing, flight>>
    /\ UNCHANGED <<life, state, failing, deviceVars, armed, trigger, deadline, plugged>>

Flow == \/ StartDetector \/ OpenInput \/ OpenOutput \/ CleanInput \/ CleanOutput \/ Retry
        \/ Listen \/ Detect \/ FollowupFrame \/ FollowupEnds \/ MicrophoneInactive
        \/ Turn \/ UnwindSpeech \/ Unwind

-----------------------------------------------------------------------------
(* stop() *)

Stop ==
    /\ life = "on" /\ life' = "aborting"
    /\ Discard(FALSE)
    /\ cancelled' = (pc # "over")
    /\ UNCHANGED <<state, pc, failing, deviceVars, armed, turnVars, deadline, plugged,
                   assistantVars>>

\* playback.stop_speech(), whose errors are logged
StopSpeech ==
    /\ life = "aborting" /\ life' = "joining"
    /\ Silenced
    /\ UNCHANGED <<state, taskVars, flags, playback, armed, turnVars, deadline, plugged,
                   audioVars, assistantVars>>

\* Mutant of Join: the task is cancelled and not awaited.
JoinNobody ==
    /\ life = "joining" /\ life' = "closing"
    /\ UNCHANGED <<state, taskVars, deviceVars, armed, turnVars, deadline, plugged, audioVars,
                   assistantVars>>
Join ==
    /\ life = "joining" /\ pc = "over" /\ life' = "closing"
    /\ UNCHANGED <<state, taskVars, deviceVars, armed, turnVars, deadline, plugged, audioVars,
                   assistantVars>>

CloseInput ==
    /\ life = "closing" /\ life' = "leaving"
    /\ IF "input" \in flags THEN Closed ELSE UNCHANGED audioVars
    /\ flags' = flags \ {"input"}
    /\ UNCHANGED <<state, taskVars, playback, output, armed, turnVars, deadline, plugged,
                   assistantVars>>

CloseOutput ==
    /\ life = "leaving" /\ life' = "down"
    /\ StopPlayback
    /\ flags' = {} /\ armed' = TRUE
    /\ deadline' = "none"
    /\ state' = "DISABLED"
    /\ UNCHANGED <<taskVars, turnVars, plugged, audioVars, assistantVars>>

Stopping == StopSpeech \/ Join \/ CloseInput \/ CloseOutput

-----------------------------------------------------------------------------
(* The callback thread, clocks and devices *)

Beside == <<life, state, taskVars, deviceVars, armed, turnVars, deadline, plugged,
            assistantVars>>
Hear == Capture(IF output = "speech" THEN "echo" ELSE "room") /\ UNCHANGED Beside
Hand == Post /\ UNCHANGED Beside
Receive == Enqueue /\ UNCHANGED Beside

\* The deadlines of record() before speech, by the trigger, and during it.
RecordingTimed == pc \in {"onset", "speech"}
\* asyncio.timeout around the provider's stream of speech.
StreamTimed == pc \in {"stream", "write"}
TimerDue == /\ RecordingTimed \/ StreamTimed
            /\ ~due
            /\ due' = TRUE
            /\ UNCHANGED <<life, state, taskVars, deviceVars, armed, trigger, after, deadline,
                           plugged, audioVars, assistantVars>>
DeadlinePasses == /\ deadline = "open" /\ deadline' = "passed"
                  /\ UNCHANGED <<life, state, taskVars, deviceVars, armed, turnVars, plugged,
                                 audioVars, assistantVars>>
\* A stream does not survive its microphone.
Plug == /\ \E d \in Devices : plugged' \in {plugged \cup {d}, plugged \ {d}} \ {plugged}
        /\ capturing' = (capturing /\ "microphone" \in plugged')
        /\ UNCHANGED <<life, state, taskVars, deviceVars, armed, turnVars, deadline,
                       stream, accepting, queue, threadVars, assistantVars>>

-----------------------------------------------------------------------------
Init ==
    /\ life = "new" /\ state = "DISABLED"
    /\ pc = "over" /\ cancelled = FALSE /\ failing = "retry"
    /\ flags = {} /\ playback = "new" /\ output = "none"
    /\ armed = TRUE
    /\ trigger = "WAKE_WORD" /\ due = FALSE /\ after = "turn"
    /\ deadline = "none"
    /\ plugged \in SUBSET Devices
    /\ AudioInit /\ AssistantInit

Next == \/ Start \/ Flow \/ Stop \/ Stopping
        \/ Hear \/ Hand \/ Receive \/ TimerDue \/ DeadlinePasses \/ Plug

Spec == Init /\ [][Next]_vars

\* Awaits end: threads return, provider calls have timeouts, timers run out and the
\* loop runs what is ready. stop() is carried through.
Fairness == /\ WF_vars(Flow) /\ WF_vars(Stopping)
            /\ WF_vars(Hand) /\ WF_vars(Receive) /\ WF_vars(TimerDue) /\ WF_vars(DeadlinePasses)
FairSpec == Spec /\ Fairness

-----------------------------------------------------------------------------
States == {"DISABLED", "WAITING_WAKE", "RECORDING", "PROCESSING", "SPEAKING",
           "WAITING_FOLLOWUP", "ERROR"}
Places == {"over", "detector", "microphone", "speaker", "cleanInput", "cleanOutput", "retry",
           "loop", "detect", "ack", "onset", "speech", "transcribe", "respond", "tool",
           "error", "stream", "write", "drain", "abort", "guard"}

\* The state has its type, the queue of the microphone its bound (LocalAudioInput._enqueue_from_loop), and
\* the published state is the one of the await the flow is at (VoiceService._transition).
TypeOK ==
    /\ life \in {"new", "starting", "on", "aborting", "joining", "closing", "leaving", "down"}
    /\ state \in States /\ pc \in Places /\ cancelled \in BOOLEAN
    /\ failing \in {"retry", "fatal"}
    /\ flags \subseteq {"detector", "input", "playback"}
    /\ playback \in {"new", "ready", "stuck", "stopped"}
    /\ output \in {"none", "idle", "effect", "speech"}
    /\ armed \in BOOLEAN /\ due \in BOOLEAN
    /\ trigger \in {"WAKE_WORD", "FOLLOWUP"} /\ after \in {"turn", "empty", "fatal", "cancel"}
    /\ deadline \in {"none", "open", "passed"} /\ plugged \subseteq Devices
    /\ stream \in BOOLEAN /\ capturing \in BOOLEAN /\ accepting \in BOOLEAN
    /\ queue \in Seq(Frame) /\ Len(queue) <= QueueFrames
    /\ flight \in Frame \cup {"none"}
    /\ posted \in Seq([frame : Frame, current : BOOLEAN]) /\ Len(posted) <= PostedMax
    /\ {history, pending} \subseteq [user : Nat, call : Nat, output : Nat, reply : Nat]
    /\ turns \in Nat /\ calls \in Nat /\ todo \in Nat
    /\ pc \in {"ack", "onset", "speech"} => state = "RECORDING"
    /\ pc \in {"transcribe", "respond", "tool"} => state = "PROCESSING"
    /\ pc \in {"stream", "write", "drain", "guard"} => state = "SPEAKING"

\* (VoiceService, LocalAudioInput._callback) The microphone is closed to the queue while
\* an effect or speech is played, and no frame that was captured during speech, however
\* late its callback posts it, gets to where the wake word and the recorder read.
HalfDuplex == /\ output \in {"effect", "speech"} => ~accepting
              /\ \A i \in DOMAIN queue : queue[i] # "echo"

\* (_enter_waiting_wake, _recover_empty_transcript, _return_after_empty_recording) Whichever way a turn ended, a flow
\* that waits for the user can hear him and answer: the microphone is open and accepted,
\* the detector armed, the speaker playable, and a follow-up has its deadline.
ListensWhenWaiting ==
    pc = "loop" /\ life = "on" =>
        /\ state \in Waiting
        /\ stream /\ accepting
        /\ flags = {"detector", "input", "playback"}
        /\ playback = "ready" /\ output = "idle"
        /\ state = "WAITING_WAKE" => armed /\ deadline = "none"
        /\ state = "WAITING_FOLLOWUP" => deadline # "none"

\* (stop) Wherever the cancellation found the flow, after stop() its task is over, no
\* sound is played, no frame comes in, and the service believes nothing started. The
\* speaker is closed unless an abort of it had failed; of the microphone only the end of
\* LocalAudioInput is (DevicesClosed is what the devices themselves should be).
DisabledIsQuiet ==
    life = "down" =>
        /\ state = "DISABLED" /\ pc = "over" /\ flags = {} /\ deadline = "none"
        /\ ~stream /\ ~accepting /\ queue = <<>>
        /\ output \in {"none", "idle"} /\ (output = "idle" => playback = "stuck")

\* (LocalAudioInput.start and stop, PlaybackCoordinator.stop) The shutdown releases the
\* devices: no stream of the microphone captures, and none of the speaker is left open.
DevicesClosed == life = "down" => ~capturing /\ output = "none"

\* (_wait_for_followup_candidate, _supervise, stop) Noise and empty utterances do not
\* prolong a follow-up: without another spoken reply it ends. A device that is back ends a
\* retry. And stop() ends.
VoiceReturns ==
    /\ <>[](pc # "guard") => <>[](state # "WAITING_FOLLOWUP")
    /\ <>[](plugged = Devices) => []<>(~(state = "ERROR" /\ pc # "over"))
    /\ life = "aborting" ~> life = "down"

\* (_supervise) A voice-main that has ended while the application runs says so: only
\* ERROR is a state in which nobody serves the user.
DeadVoiceShows == pc = "over" /\ life = "on" => state = "ERROR"
=============================================================================
