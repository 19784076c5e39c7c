----------------------------- MODULE HeightMonitor -----------------------------
(***************************************************************************)
(* DeskHeightMonitor with the SerialLineSource it owns, SegmentDecoder and *)
(* the row of HeightCacheRepository (src/smart_desk/modules/desk, serial). *)
(*                                                                         *)
(* One runner task reads line after line. Opening, reading and closing the *)
(* port and writing the cache run in worker threads that a cancellation    *)
(* does not stop: the runner waits for them and only then ends. Life is    *)
(* the lifecycle, which awaits start() and stop(). The serial _io_lock has *)
(* no second user here, as stop() joins the runner before it stops the     *)
(* source, and is left out. The database behind the cache is module        *)
(* Storage, the MQTT client modules Runtime and DeskController: here a     *)
(* save and a publish take effect or do not.                               *)
(***************************************************************************)
EXTENDS Naturals

CONSTANTS Frames,       \* what a line of the segment reader may hold
          MeasurementMin, MeasurementMax,   \* in hundredths of a centimetre
          Unknown       \* no height

ASSUME RangeAssumption ==
    /\ MeasurementMin \in Nat \ {0} /\ MeasurementMax \in Nat
    /\ MeasurementMin <= MeasurementMax
    /\ Unknown \notin Nat

\* The display has three digits, the last bit planes of the reader (m8, m9, m10).
\* A digit is Unknown when its mask is no digit; points holds the lit points.
Positions == 1..3
ASSUME FrameAssumption ==
    Frames \subseteq [fresh : BOOLEAN, digits : [Positions -> (0..9) \cup {Unknown}],
                      points : SUBSET Positions]

VARIABLES
    life, running,      \* start() and stop(); _running
    run, cancel,        \* the runner, and whether it has been cancelled
    source, started,    \* SerialStatus, _started
    connection,         \* _connection: "none", "good" or of a device that went away
    ports,              \* handles of the serial port that are open
    pausing,            \* _next_connect_at is not reached
    device,             \* the sensor: "gone", "silent", "talking"
    height, provenance, old,    \* _height_cm, _provenance, age above the limit
    heard,              \* the last height decoded from a line in this life
    cache, retained     \* the row on disk, the message the broker keeps

lifeVars == <<life, running>>
runVars == <<run, cancel>>
portVars == <<connection, ports>>
sourceVars == <<source, started, pausing>>
heightVars == <<height, provenance, old, heard>>
outVars == <<cache, retained>>
vars == <<lifeVars, runVars, portVars, sourceVars, device, heightVars, outVars>>

-----------------------------------------------------------------------------
(* SegmentDecoder.decode *)

Number(d) == 100 * d[1] + 10 * d[2] + d[3]
\* The value of the three digits in hundredths: 724, 72.4 or 7.24.
Scaled(d, points) == Number(d) * (IF points = {1} THEN 1 ELSE IF points = {2} THEN 10 ELSE 100)
InRange(h) == MeasurementMin <= h /\ h <= MeasurementMax

Readable(f) == /\ f.fresh
               /\ \A i \in Positions : f.digits[i] # Unknown
               /\ f.points \in {{}, {1}, {2}}

Decode(f) == IF Readable(f) /\ InRange(Scaled(f.digits, f.points))
             THEN Scaled(f.digits, f.points) ELSE Unknown

-----------------------------------------------------------------------------
(* get_snapshot *)

\* Mutant of Status: a height of the cache counts as an observation.
StatusOfAny ==
    IF ~running THEN "STOPPED"
    ELSE IF source = "ERROR" THEN "ERROR"
    ELSE IF height = Unknown THEN "WAITING"
    ELSE IF old THEN "STALE"
    ELSE IF source = "CONNECTED" THEN "ONLINE" ELSE "ERROR"

Status ==
    IF ~running THEN "STOPPED"
    ELSE IF source = "ERROR" THEN "ERROR"
    ELSE IF height = Unknown THEN "WAITING"
    ELSE IF provenance = "CACHED" THEN "SENSOR_SLEEPING"
    ELSE IF old THEN "STALE"
    ELSE IF source = "CONNECTED" THEN "ONLINE" ELSE "ERROR"

-----------------------------------------------------------------------------
(* start() *)

\* Mutant of Start: the height that was loaded passes for a reading.
StartLive ==
    /\ life = "down"
    /\ life' = "loading"
    /\ \E h \in {cache, Unknown} :
          /\ height' = h
          /\ provenance' = IF h = Unknown THEN "none" ELSE "LIVE"
    /\ old' = FALSE /\ heard' = Unknown
    /\ UNCHANGED <<running, runVars, portVars, sourceVars, device, outVars>>

\* The load, which may find no row or fail.
Start ==
    /\ life = "down"
    /\ life' = "loading"
    /\ \E h \in {cache, Unknown} :
          /\ height' = h
          /\ provenance' = IF h = Unknown THEN "none" ELSE "CACHED"
    /\ old' = FALSE /\ heard' = Unknown
    /\ UNCHANGED <<running, runVars, portVars, sourceVars, device, outVars>>

\* source.start() opens nothing. The task manager may refuse the runner, and
\* then the source is stopped again.
Launch ==
    /\ life = "loading"
    /\ pausing' = FALSE /\ connection' = "none"
    /\ \/ /\ life' = "up" /\ running' = TRUE /\ started' = TRUE
          /\ source' = "DISCONNECTED" /\ run' = "loop"
       \/ /\ life' = "down" /\ source' = "STOPPED"
          /\ UNCHANGED <<running, run, started>>
    /\ UNCHANGED <<cancel, ports, device, heightVars, outVars>>

-----------------------------------------------------------------------------
(* The runner: SerialLineSource.read_line *)

At(p) == run = p /\ ~cancel

\* _wait_for_reconnect and the choice between opening and reading.
ReadLine ==
    /\ At("loop") /\ running
    /\ run' = IF pausing THEN "waiting"
              ELSE IF connection = "none" THEN "opening" ELSE "reading"
    /\ UNCHANGED <<lifeVars, cancel, portVars, sourceVars, device, heightVars, outVars>>

Waited ==
    /\ At("waiting") /\ ~pausing
    /\ run' = IF connection = "none" THEN "opening" ELSE "reading"
    /\ UNCHANGED <<lifeVars, cancel, portVars, sourceVars, device, heightVars, outVars>>

\* _record_error
RecordError == source' = "ERROR" /\ pausing' = TRUE

Open ==
    /\ At("opening")
    /\ run' = "loop"
    /\ \/ /\ device # "gone"
          /\ connection' = "good" /\ ports' = ports + 1
          /\ source' = "CONNECTED" /\ pausing' = FALSE
       \/ device = "gone" /\ RecordError /\ UNCHANGED portVars
    /\ UNCHANGED <<lifeVars, cancel, started, device, heightVars, outVars>>

\* Mutant of OpenLate: nobody owns the late handle.
OpenUnowned ==
    /\ run = "opening" /\ cancel
    /\ run' = "over" /\ cancel' = FALSE
    /\ ports' = IF device = "gone" THEN ports ELSE ports + 1
    /\ UNCHANGED <<lifeVars, sourceVars, connection, device, heightVars, outVars>>

\* The port opens after the runner has been cancelled: it is closed at once.
OpenLate ==
    /\ run = "opening" /\ cancel
    /\ IF device = "gone"
       THEN run' = "over" /\ cancel' = FALSE /\ UNCHANGED ports
       ELSE run' = "dropping" /\ ports' = ports + 1 /\ UNCHANGED cancel
    /\ UNCHANGED <<lifeVars, sourceVars, connection, device, heightVars, outVars>>

Drop ==
    /\ run = "dropping"
    /\ ports' = ports - 1
    /\ run' = "over" /\ cancel' = FALSE
    /\ UNCHANGED <<lifeVars, sourceVars, connection, device, heightVars, outVars>>

\* readline() times out, or gives a line that decodes to nothing: next line.
\* (A line that comes when the source is not CONNECTED is dropped too.)
Skip ==
    /\ At("reading") /\ connection = "good"
    /\ \/ device # "talking"
       \/ \E f \in Frames : Decode(f) = Unknown \/ source # "CONNECTED"
    /\ run' = "loop"
    /\ UNCHANGED <<lifeVars, cancel, portVars, sourceVars, device, heightVars, outVars>>

Hear ==
    /\ At("reading") /\ connection = "good" /\ device = "talking"
    /\ source = "CONNECTED"
    /\ \E f \in Frames : Decode(f) # Unknown /\ height' = Decode(f)
    /\ heard' = height' /\ provenance' = "LIVE" /\ old' = FALSE
    /\ run' = "saving"
    /\ UNCHANGED <<lifeVars, cancel, portVars, sourceVars, device, outVars>>

\* Mutant of ReadFails: the error is recorded and the connection kept.
ReadFailsInPlace ==
    /\ At("reading") /\ connection = "dead"
    /\ run' = "loop" /\ RecordError
    /\ UNCHANGED <<lifeVars, cancel, portVars, started, device, heightVars, outVars>>

\* _mark_disconnected: the connection is given up, then closed, then recorded.
ReadFails ==
    /\ At("reading") /\ connection = "dead"
    /\ connection' = "none" /\ run' = "closing"
    /\ UNCHANGED <<lifeVars, cancel, sourceVars, ports, device, heightVars, outVars>>

ClosePort ==
    /\ run = "closing"
    /\ ports' = ports - 1
    /\ IF cancel
       THEN run' = "over" /\ cancel' = FALSE /\ UNCHANGED <<source, pausing>>
       ELSE run' = "loop" /\ RecordError /\ UNCHANGED cancel
    /\ UNCHANGED <<lifeVars, started, connection, device, heightVars, outVars>>

\* Anything but SerialException and OSError leaves the critical runner dead.
Break ==
    /\ run \in {"opening", "reading"} /\ ~cancel
    /\ run' = "failed"
    /\ UNCHANGED <<lifeVars, cancel, portVars, sourceVars, device, heightVars, outVars>>

-----------------------------------------------------------------------------
(* The runner: _persist_height and _publish_height *)

\* Mutant of Save: the cache is given the height that was shown before.
SaveBefore ==
    /\ run = "saving"
    /\ cache' \in {cache, retained}
    /\ IF cancel THEN run' = "over" /\ cancel' = FALSE
       ELSE run' = "publishing" /\ UNCHANGED cancel
    /\ UNCHANGED <<lifeVars, portVars, sourceVars, device, heightVars, retained>>

\* Best effort; a cancelled save ends with its worker and may have committed.
Save ==
    /\ run = "saving"
    /\ cache' \in {cache, height}
    /\ IF cancel THEN run' = "over" /\ cancel' = FALSE
       ELSE run' = "publishing" /\ UNCHANGED cancel
    /\ UNCHANGED <<lifeVars, portVars, sourceVars, device, heightVars, retained>>

Publish ==
    /\ run = "publishing"
    /\ retained' \in {retained, height}
    /\ IF cancel THEN run' = "over" /\ cancel' = FALSE
       ELSE run' = "loop" /\ UNCHANGED cancel
    /\ UNCHANGED <<lifeVars, portVars, sourceVars, device, heightVars, cache>>

\* CancelledError where no worker thread is waited for.
Unwind ==
    /\ cancel /\ run \in {"loop", "waiting"}
    /\ run' = "over" /\ cancel' = FALSE
    /\ UNCHANGED <<lifeVars, portVars, sourceVars, device, heightVars, outVars>>

\* A read that a cancellation interrupts ends with its thread, whatever it gives.
ReadLate ==
    /\ run = "reading" /\ cancel
    /\ run' = "over" /\ cancel' = FALSE
    /\ UNCHANGED <<lifeVars, portVars, sourceVars, device, heightVars, outVars>>

Runner == \/ ReadLine \/ Waited \/ Open \/ OpenLate \/ Drop \/ Skip \/ Hear \/ ReadFails
          \/ ClosePort \/ Break \/ Save \/ Publish \/ Unwind \/ ReadLate

-----------------------------------------------------------------------------
(* stop() *)

\* Mutant of Stop: a task that is done is cancelled like one that is not.
StopAnyway ==
    /\ life = "up"
    /\ life' = "joining" /\ running' = FALSE
    /\ cancel' = TRUE
    /\ UNCHANGED <<run, portVars, sourceVars, device, heightVars, outVars>>

Stop ==
    /\ life = "up"
    /\ life' = "joining" /\ running' = FALSE
    /\ cancel' = (run # "failed")
    /\ UNCHANGED <<run, portVars, sourceVars, device, heightVars, outVars>>

Join ==
    /\ life = "joining" /\ run \in {"failed", "over"}
    /\ life' = "closing" /\ started' = FALSE
    /\ UNCHANGED <<running, runVars, portVars, source, pausing, device, heightVars, outVars>>

\* SerialLineSource.stop(); an error of close() is only recorded.
StopSource ==
    /\ life = "closing"
    /\ connection' = "none"
    /\ ports' = IF connection = "none" THEN ports ELSE ports - 1
    /\ source' = "STOPPED" /\ pausing' = FALSE
    /\ life' = "down" /\ run' = "none"
    /\ UNCHANGED <<running, cancel, started, device, heightVars, outVars>>

-----------------------------------------------------------------------------
(* Time and the device *)

RetryDue == /\ pausing /\ pausing' = FALSE
            /\ UNCHANGED <<lifeVars, runVars, portVars, source, started, device, heightVars,
                           outVars>>

Age == /\ provenance = "LIVE" /\ ~old /\ old' = TRUE
       /\ UNCHANGED <<lifeVars, runVars, portVars, sourceVars, device, height, provenance,
                      heard, outVars>>

\* The USB device goes, comes back, falls silent, talks. A handle does not
\* survive its device.
Device == /\ device' \in {"gone", "silent", "talking"} \ {device}
          /\ connection' = IF device' = "gone" /\ connection = "good" THEN "dead"
                           ELSE connection
          /\ UNCHANGED <<lifeVars, runVars, ports, sourceVars, heightVars, outVars>>

-----------------------------------------------------------------------------
Init ==
    /\ life = "down" /\ running = FALSE
    /\ run = "none" /\ cancel = FALSE
    /\ source = "STOPPED" /\ started = FALSE /\ pausing = FALSE
    /\ connection = "none" /\ ports = 0
    /\ device = "gone"
    /\ height = Unknown /\ provenance = "none" /\ old = FALSE /\ heard = Unknown
    /\ cache \in {Unknown} \cup {Decode(f) : f \in Frames} /\ retained = cache

Next == \/ Start \/ Launch \/ Runner \/ Stop \/ Join \/ StopSource
        \/ RetryDue \/ Age \/ Device

Spec == Init /\ [][Next]_vars

\* The runner's next step comes: a thread ends, a timeout passes, the loop runs it.
\* Clocks advance. A sensor that keeps talking gives a readable line again and
\* again. stop() is carried to its end.
Fairness == /\ WF_vars(Runner) /\ SF_vars(Hear)
            /\ WF_vars(RetryDue) /\ WF_vars(Age)
            /\ WF_vars(Join \/ StopSource)
FairSpec == Spec /\ Fairness

-----------------------------------------------------------------------------
Values == {Unknown} \cup {Decode(f) : f \in Frames}

\* The state has its type and the parts of it that go together agree
\* (DeskHeightMonitor.start, stop and _run with SerialLineSource): there is a runner
\* while the monitor is up, and only a runner that has not ended can be cancelled.
TypeOK ==
    /\ life \in {"down", "loading", "up", "joining", "closing"} /\ running \in BOOLEAN
    /\ run \in {"none", "loop", "waiting", "opening", "reading", "closing", "dropping",
                "saving", "publishing", "failed", "over"}
    /\ cancel \in BOOLEAN
    /\ source \in {"STOPPED", "DISCONNECTED", "CONNECTED", "ERROR"}
    /\ started \in BOOLEAN /\ pausing \in BOOLEAN
    /\ connection \in {"none", "good", "dead"} /\ ports \in Nat
    /\ device \in {"gone", "silent", "talking"}
    /\ provenance \in {"none", "CACHED", "LIVE"} /\ old \in BOOLEAN
    /\ {height, heard, cache, retained} \subseteq Values
    /\ running <=> life = "up"
    /\ run = "none" <=> life \in {"down", "loading"}
    /\ cancel => life = "joining" /\ run \notin {"none", "failed", "over"}

\* (get_snapshot, start) ONLINE is what motion is allowed on: it means that a line
\* of the sensor gave this very height in this life of the monitor, within the
\* stale limit, over a port that is open or was given up a moment ago. A STALE
\* height was heard in this life too; a cached one never gets there.
OnlineIsFresh ==
    /\ Status \in {"ONLINE", "STALE"} => height = heard /\ heard # Unknown
    /\ Status = "ONLINE" => ~old /\ (connection # "none" \/ run = "closing")

\* (SerialLineSource._open_port, _mark_disconnected, stop) However a start, an unplugged device, a
\* cancellation and a stop interleave with the threads, the serial port is never
\* open twice, no handle is open without somebody who will close it, and none is
\* open once the monitor is down.
PortsClosed ==
    /\ ports <= 1
    /\ ports = 1 <=> connection # "none" \/ run \in {"closing", "dropping"}
    /\ life \in {"down", "loading"} => ports = 0

\* (_run, _persist_height, _publish_height) What the cache and the broker keep is only ever replaced by
\* the height heard last: an older observation never overtakes a newer one, not
\* through a cancelled save either.
OutputsFollow == [][/\ cache' # cache => cache' = heard
                    /\ retained' # retained => retained' = heard]_vars

\* (_run, read_line, get_snapshot, stop) While the sensor keeps talking and its
\* runner has not died, the height gets ONLINE again and again whatever happened
\* before; while it does not talk, ONLINE ends for good; and stop() always ends.
StatusFollowsSensor ==
    /\ <>[](device = "talking" /\ life = "up" /\ run # "failed") => []<>(Status = "ONLINE")
    /\ <>[](device # "talking") => <>[](Status # "ONLINE")
    /\ life \in {"joining", "closing"} ~> life = "down"
=============================================================================
