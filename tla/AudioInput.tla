------------------------------ MODULE AudioInput ------------------------------
(***************************************************************************)
(* LocalAudioInput (src/smart_desk/modules/voice/audio.py): the PortAudio  *)
(* callback thread takes a frame of PCM, reads the generation and hands    *)
(* both to the event loop, which puts the frame in a bounded queue.        *)
(*                                                                         *)
(* Of a frame only this is kept: "echo" if the speaker was playing speech  *)
(* while it was captured, "room" otherwise. A posted frame is current      *)
(* while its generation is the present one. At most one frame is in the    *)
(* callback, and PostedMax wait for the loop.                              *)
(***************************************************************************)
EXTENDS Naturals, Sequences

CONSTANTS QueueFrames, PostedMax

ASSUME QueueAssumption == QueueFrames \in Nat \ {0} /\ PostedMax \in Nat \ {0}

VARIABLES
    stream,     \* _stream is not None
    capturing,  \* PortAudio runs a stream, and so the callback
    accepting,  \* _accepting
    queue,      \* _queue
    flight,     \* the frame the callback holds and has not posted
    posted      \* what call_soon_threadsafe has handed to the loop

threadVars == <<flight, posted>>
audioVars == <<stream, capturing, accepting, queue, threadVars>>

Frame == {"room", "echo"}

\* The loop runs discard_pending between two steps of the callback.
DiscardPending == /\ queue' = <<>>
                  /\ posted' = [i \in DOMAIN posted |-> [posted[i] EXCEPT !.current = FALSE]]

Capture(f) == /\ capturing /\ flight = "none"
              /\ flight' = f
              /\ UNCHANGED <<stream, capturing, accepting, queue, posted>>

\* The generation is read here, after the PCM was.
Post == /\ flight # "none" /\ Len(posted) < PostedMax
        /\ posted' = Append(posted, [frame |-> flight, current |-> TRUE])
        /\ flight' = "none"
        /\ UNCHANGED <<stream, capturing, accepting, queue>>

\* Mutant of Enqueue: a full queue grows.
EnqueueAlways == /\ posted # <<>>
                 /\ queue' = IF ~posted[1].current \/ ~accepting THEN queue
                             ELSE Append(queue, posted[1].frame)
                 /\ posted' = Tail(posted)
                 /\ UNCHANGED <<stream, capturing, accepting, flight>>

\* A full queue drops its oldest frame.
Enqueue == /\ posted # <<>>
           /\ queue' = IF ~posted[1].current \/ ~accepting THEN queue
                       ELSE Append(IF Len(queue) = QueueFrames THEN Tail(queue) ELSE queue,
                                   posted[1].frame)
           /\ posted' = Tail(posted)
           /\ UNCHANGED <<stream, capturing, accepting, flight>>

\* read() that finds a frame, the loop running no callback in between.
Take == /\ queue # <<>> /\ queue' = Tail(queue)
        /\ UNCHANGED <<stream, capturing, accepting, threadVars>>

\* start() once the stream has been opened and started.
Opened == /\ stream' = TRUE /\ capturing' = TRUE /\ accepting' = TRUE
          /\ DiscardPending
          /\ UNCHANGED flight

\* stop(), whose stream gone is the one it had: PortAudio is stopped and closed.
Closed == /\ stream' = FALSE /\ accepting' = FALSE
          /\ capturing' = (capturing /\ ~stream)
          /\ DiscardPending
          /\ UNCHANGED flight

\* discard_pending() and set_accepting(b)
Discard(b) == /\ accepting' = b
              /\ DiscardPending
              /\ UNCHANGED <<stream, capturing, flight>>

AudioInit == /\ stream = FALSE /\ capturing = FALSE /\ accepting = FALSE
             /\ queue = <<>> /\ flight = "none" /\ posted = <<>>
=============================================================================
