# A TLA+ specification of SmartDesk

SmartDesk drives a motorised desk. A Python process (one asyncio loop) holds the
movement intent; an ESP32-C3 board switches the two relays of the desk; another
ESP32 reads the height from the desk's own display. They talk over MQTT and a
serial line. The modules here specify those parts, `TLC` checks them on small
instances, and `TLAPS` proves the theorems listed below for every value of the
constants. Paths are relative to the repository; `controller.py` is
`src/smart_desk/modules/desk/controller.py`.

    tlc -workers 2 -config DeskController.cfg MCDeskController     # one run
    tlapm DeskController_proofs.tla                                # one proof module

The module names below are those of `tla/`, the Python paths those under
`src/smart_desk/`.

## 1. The system

| Component | State it keeps | Operations | Talks to |
|---|---|---|---|
| Relay firmware (`firmware/relay-controller`) | two outputs, a one-shot hardware timer, session and height flags, Wi-Fi and MQTT links | `loop()`, `handleHeight`, `handleControl`, `tick`, the timer interrupt | broker: control and height topics in, status out |
| Desk controller (`desk/controller.py`) | `_control` (published state and intent), STOP and shutdown flags, deadlines, the two locks | `set_target`, `increase/decrease_target`, `hold_up/down`, `stop_motion`, `start`, `stop`, the 50 ms runner | relay client, height monitor, API |
| Relay client and wire messages (`desk/relay.py`, `messages.py`, `models.py`) | last relay status | `send_*`, `handle_status` | MQTT client |
| Height monitor, cache, decoder (`desk/height_monitor.py`, `height_cache.py`, `segment.py`) | last reading, status, cache file | run loop, `get_snapshot` | serial source, MQTT client |
| Segment reader firmware (`firmware/segment-reader`) | sampled display lines | sample, print | serial line |
| Serial source (`modules/serial/source.py`) | port, reader thread, status | open, read, reconnect, stop | a thread, the port |
| MQTT client (`modules/mqtt/client.py`) | current connection, subscriptions, start-up event | run/reconnect, publish, subscribe | broker |
| Runtime (`core/runtime.py`, `lifecycle.py`, `task_manager.py`, `bootstrap.py`) | application status, started resources, tasks | start, rollback, stop, critical-task failure | every component |
| SQLite storage and profiles (`storage/sqlite.py`, `profiles/repository.py`) | operation lock, a worker thread and a connection per operation, the file | start with migrations and schema probe, read, write, stop | the file, its callers |
| Dashboard and HTTP API (`api/routes`, `dashboard/service.py`) | none | READY gate, dispatch | desk controller, profiles, WLED |
| Voice and audio (`modules/voice`) | turn state, follow-up deadline, bounded queue with a generation, device flags | start, turns, recovery, retry, stop, audio callback | assistant, audio devices |
| Assistant (`modules/assistant`) | history of turns | respond, tool rounds | OpenAI (external), WLED tools |
| WLED (`modules/wled`) | request lock | get, set | HTTP device |
| Media (`modules/media`, `media_publish.py`) | latest frame, reader thread, child process | start, read, stop | RTSP, ffmpeg |
| Settings, frontend | none that matters | – | – |

What is hard, and where it is written down: `PROJECT.json`, `hazards`, names each
place by line. In short:

* **Interleavings on one loop.** Every `await` in `controller.py` lets another
  request, the runner, or shutdown run. The intent lock spans publishes and
  confirmations; stop tasks are created under it and also outside it.
* **A hardware interrupt** against `loop()` in the firmware.
* **Threads that a cancellation does not stop**: SQLite workers, serial opens and
  reads, the audio callback. The task that waits for one is cancelled, the thread is
  not, and its result arrives later.
* **Stale knowledge.** A retained height, a relay status that was on its way, a
  generation that was replaced while a publish was in flight, a frame captured
  before the microphone was closed.
* **Failure in the middle.** A publish that times out may or may not have handed
  its message over; a STOP may not be confirmed; the runner may die.
* **Time.** Hold watchdog, target limit, wake deadline, the height lease of the
  firmware, `millis()` wrapping.
* **Shutdown**, which cancels the runner where it waits, but not a shielded stop; and
  the roll-back of a start that failed half way.
* **Crashes.** The database file outlives the process; a migration or a transaction
  may be cut anywhere.

What makes each part correct:

* Firmware: one output at a time, a live deadline behind each, no motion without
  two fresh observations, none beyond the limits, none long after the last height.
* Controller: the published state is the intent that is pursued; no intent behind a
  STOP or a shutdown; STOPPED only when confirmed; no intent outlives its deadline;
  requests and shutdown end.
* Runtime: a READY application has everything started, in order, and a critical
  failure takes READY away; a lifespan that is over leaves no task and no connection.
* MQTT client: connected means that this very connection has every topic.
* Height monitor: ONLINE is a fresh reading of an open port and never the cache; the
  port has one owner; the cache and the broker never go back to an older height.
* Storage: an answered operation has taken effect once and as a whole, whatever is
  rolled back, cancelled, interrupted or probed; `stop` drains; a file stays one the
  next start can continue from.
* Voice: the assistant does not hear itself, listens whenever it waits, keeps a
  history of whole turns, and always comes back.

## 2. The modules

| Module | Models |
|---|---|
| `DeadManRelay` | the abstract promise of the relay board: grants that run out |
| `RelayFirmware` | the ESP32-C3 sketch: `control_handler.cpp`, `relay_controller.cpp`, `main.cpp`, `policy.h` |
| `LockQueue` | the FIFO of an `asyncio.Lock` (not part of the repository), as the controller and the storage use it |
| `DeskController` | `controller.py`, with the relay and height snapshots as its environment |
| `HeightMonitor` | `height_monitor.py`, `segment.py`, `height_cache.py`, `serial/source.py` |
| `HeightForDesk` | composition: `HeightMonitor` is the environment `DeskController` assumes |
| `Runtime` | `core/lifecycle.py`, `task_manager.py`, `runtime.py`, the orders of `bootstrap.py`, and the runner of `mqtt/client.py` |
| `ProfileStore` | the abstract promise of the storage |
| `Storage` | `storage/sqlite.py` with the operations of `profiles/repository.py` and the height cache |
| `AudioInput` | `LocalAudioInput` of `voice/audio.py`: callback thread, generation, bounded queue |
| `Assistant` | `assistant/service.py`, `tooling.py`: one turn over the session history |
| `Voice` | `voice/service.py`, `playback.py`, `wakeword.py`, the recorder and output of `audio.py`, the calls of `assistant/openai.py`; composes `AudioInput` and `Assistant` |
| `*_proofs` | the theorems of the module they extend; `LockQueue_proofs` has the lemmas on queues the others cite, `DeskControllerRelay_proofs` continues `DeskController_proofs` |
| `MC*` | the instances for TLC |

### RelayFirmware

`pc` is the place of `loop()`: taking the timeout event (`loop`), the links
(`links`, `connecting`), `mqtt.loop()` with at most one callback (`poll`), `tick()`
(`tick`), the heartbeat (`beat`), the `delay()` of a reversal (`breaking`) and
`failClosed()` after a publish that failed (`failing`). `HandleHeight` is
`handleHeight` with its three outcomes, `HandleMove` is `handleControl` for UP and
DOWN, `HandleStopOrRefused` is a STOP or anything `parseControl` refuses.
`OnTimer` is the interrupt. It may fall between any two steps; it cannot fall inside
`start()` and `stop()`, which disarm the timer first, except during the `delay()`,
where the timer is disarmed. `Tick` is time, `LinkChange` the world.

`elapsed()` compares differences of `millis()` only, so the module keeps the two
differences that are used and takes them modulo `Wrap` where the code does.
Ages stop counting at `Horizon`: below `Wrap`, every age from `Horizon` on looks the
same to `elapsed()`; at or above it, the wrap itself is reached.

The bench build (`SMARTDESK_RELAY_BENCH`) and the JSON text are left out: a payload
is accepted or refused.

### DeskController

Threads are the API requests (`Users`), the runner task (`Runner`) and the lifecycle
(`Life`). All code between two suspension points is one action, as asyncio runs it.
The suspension points, and the values of `pc`:

| `pc` | The thread waits |
|---|---|
| `intent` | for `_intent_lock`, in `intentQ` |
| `stopTask` | for the task of `_stop_motion` to run for the first time |
| `stopSend`, `stopWait` | in `_stop_and_confirm`: for the relay lock and the publish; for a fresh STOP status |
| `wakeSend` | in `_begin_wake`: for the relay lock and the publish |
| `pulseWait`, `pulseSend` | in `_publish_pulse`: for the relay lock; for the publish |
| `settleSend` | in `_enter_settling`: the same, for its STOP |
| `startSend`, `startWait`, `closeSend`, `closeJoin` | in `start` and `stop` |

`_command_lock` is never held across a suspension point, so no thread ever waits for
it, and it is left out. A lock is a FIFO queue whose head holds it; `asyncio.Lock`
hands it over in that order and is taken without suspending when free. `Without` is
a waiter that leaves its place when it is cancelled or done.

Requests run in one action from the lock to their next suspension (`Enter`,
`SetTarget`, `AdjustTarget`, `Hold`). `BeginStop`, `SendStop`, `AwaitStop` with
`FinishStop` and `Continue` are `_stop_and_confirm` and what follows it for a
request (`PursueTarget`, `PursueHold`), for a failure and for the runner. The cycle
actions are the branches of `_run_cycle` by their outcome: `IdleCycle` (startup wake
and the watch on an inactive relay), `WakeCycle`, `AbandonCycle`, `QuietCycle`,
`PulseCycle`, `FineCycle`, `SettleCycle`.

Data that is only compared is kept as the comparison: `fresh` holds the baselines
older than the last relay status, `newer` those older than the last height,
`overdue` the deadlines that have passed, `current` the threads whose captured
generation is still that of `_control`. The deadlines whose outcome is an error the
code may meet at any time (acknowledgement, refresh, settling, startup) may expire in
any cycle. Heights and targets are small naturals; `OperationMin`, `OperationMax`,
`Tolerance` and `FineDistance` are constants.

What `MQTT` does to a publish: it hands the message over and returns; or fails or
times out, having handed it over or not. `wire` is the kind of the last message
handed over. `Report` and `ReportLost` give any status of `Reports` at any time, not
only a truthful one, so no property here rests on an honest relay.
`Observe` and `SensorStep` are what the snapshots of the height monitor can show.

A request that is cancelled from outside is not modelled: the routes watch for no
disconnect and run their handler to its end.

### HeightMonitor and HeightForDesk

`run` is where the runner waits: for the loop to go on (`loop`), the retry delay
(`waiting`), a thread that opens, reads, closes or drops the port (`opening`,
`reading`, `closing`, `dropping`), the cache (`saving`), the publish (`publishing`);
`failed` and `over` are a runner that died and one that ended. `cancel` is a
cancellation that waits for the thread to return, as `_await_thread` does. `ports`
counts open handles, `connection` the one the source knows: that they agree is the
property `PortsClosed`. A frame is three digits and a set of points, and `Decode`
is `SegmentDecoder.decode` on them; `Status` is `get_snapshot`. An age is the flag `old`;
`heard` is a history variable, the last height decoded in this life of the monitor.

`HeightForDesk` maps the status and the height to the variable `height` of
`DeskController`, instantiates that module with everything else held still, and
checks that each change is an `Observe` or a `SensorStep`. With it the environment of
the controller's runs is not a guess.

### Runtime

`pc` is the lifespan: `starting`, `joining` (a failed `MqttClient.start` that waits for
its runner), `rollback` and `failed`, `serving`, `stopping` and `ended`; `cur` is the
resource it awaits, `up` is `started_resources`. `Startup` and `StartNext` choose the
resource with the least order that is not up, `StopOther` and `StopMqtt` the greatest
that is. A task that raised is `broken` until its done callback (`OnDone`) has run,
which is a step of its own on the loop. `link` is the place of `MqttClient._run`:
connecting, subscribing topic by topic, up, the pause before a reconnect, or off.
`BrokerTimeout` is the startup timeout, which may win against an event already set.

### Storage and ProfileStore

A caller is `queued` for `_operation_lock`, or `working`: awaiting its worker through
`_await_completion`. `work[t]` is the worker: its stage, the uncommitted state of its
transaction (`copy`) and its result. `Execute` is `_execute_sync`, `StartSync` is
`_start_sync` with the two migrations and the schema probe behind a savepoint.
`Crash` loses everything but `file`; so does nothing else. `Init` allows every file a
start may find: any version from 0 (new, or never numbered) to 3 (a newer program),
with any of the program's tables and a table of somebody else's; a row can only be
where its table is. A file is `Whole` when `_verify_version_2_schema` accepts it or the
migrations make it one it accepts.

`ProfileStore` says what a caller may rely on: an answer means that the operation took
effect once, between call and answer; a failure means it did not; a cancelled caller
does not know. The mapping hides the lock, the transactions and the workers.

### Voice, AudioInput, Assistant

`pc` is the one flow of `VoiceService`, run first by `start()` and then by the task
`voice-main`; every value but `over` is an await. `life` is `start()` and `stop()`,
`cancelled` a cancellation the flow has not seen. Devices: `detector`, `microphone`,
`speaker`, their clean-up and `retry`. A turn: `detect` or the follow-up in `loop`,
`ack`, `onset`, `speech`, `transcribe`, `respond`, `tool`, `stream`/`write` (chunks of
speech), `drain`, `guard`, and back; `error` plays the error effect, `abort` ends a
failed playback, `after` says what comes then. What the wake word model, the level
of a frame and OpenAI decide is left open at each step; timers are the flags `due`
and `deadline`.

A frame is `echo` when it was captured while speech was played, else `room`. It
passes through three stages, which interleave with the flow: held by the callback
(`flight`), posted to the loop (`posted`, `current` while its generation is), queued
(`queue`). `Assistant` counts the entries of the session history by kind: a turn
works on a copy (`pending`) that `Commit` makes the history.

## 3. The runs

| Run | Question | Result |
|---|---|---|
| `RelayFirmware` | With the interrupt anywhere and links that come and go: types, `TimeoutMeansStopped`, `WithinBoundary`, `TwoObservations`, `MotionWithinLease`; and that the board implements `DeadManRelay`, liveness included | holds |
| `DeskController` | One user with every request, the stops of the user, the runner and the shutdown: `PublicMatchesIntent`, `WakeBeforeMotion`, `StopIsLast`, `StopHoldsOff`, `StoppedIsConfirmed` | holds |
| `DeskControllerLive` | `IntentExpires`, `Answered`, `ShutdownEnds` | holds |
| `DeskControllerStopFirst` | Is a STOP reflected before the commands that wait? | violated |
| `DeskControllerWake` | Does a movement stop before its sensor is woken? | violated |
| `HeightMonitor` | A sensor that talks, falls silent, is unplugged and returns, with starts, stops and cancelled threads: `OnlineIsFresh`, `PortsClosed`, `OutputsFollow`, `StatusFollowsSensor`; and `FeedsDesk` | holds |
| `Runtime` | Resources that fail to start, to run and to stop, a broker that comes and goes: `ReadyMeansUp`, `DependenciesUp`, `NoOrphans`, `ConnectedMeansSubscribed`, `LifespanEnds` | holds |
| `RuntimeReadyRace` | Is an application that calls itself READY without a failed critical task? | violated |
| `Storage` | Any file at the start, cancelled callers, SQL that fails anywhere, a crash anywhere: `LockCoversWorker`, `QuietWhenDown`, `FileIsCarried`, `OperationsEnd`; and that the database implements `ProfileStore` | holds |
| `Voice` | Turns with tools, failures at each stage, devices that come and go, a stop at any await: `HalfDuplex`, `ListensWhenWaiting`, `DisabledIsQuiet`, `HistoryIsWhole`, `VoiceReturns` | holds |
| `VoiceTimeout` | Does a voice task that has ended show ERROR? | violated |
| `VoiceClose` | Does a stop release the microphone and the speaker? | violated |

### Bounds

* Firmware: heights 0..4 around limits 1 and 3 give a height beyond, at and between
  each limit. Three stamps give a baseline, a duplicate, a distinct one and a third
  after it. The hold, lease and arming intervals are 3, 3 and 2 ticks, the break 1, so
  each may run out before, with and after the others; `Horizon` is 9, the sum of the
  intervals, so that no bound is met by the clamp. `Wrap` is 12, above every age that
  is counted: the runs show nothing of a `millis()` that wraps (see section 5).
* Controller: operating range 1..3 with tolerance 0 and fine distance 1 gives a
  height at each boundary, one in the middle, a target reached, near and far. One
  user issues every kind of request, and adjustments that leave the range
  (2 + 1 + 1), which stand for every invalid number; with the runner and the lifecycle there are three threads,
  each with stops of its own that overlap with the others'. More users would only add
  waiters to the two locks; `StopHolds`, `StopComesLast` and the other theorems cover
  any number of them. `DeskControllerStopFirst` needs two users, since a STOP has to
  wait behind a hold; both refuted runs use holds and stops at one height. Liveness has
  one user, one height and one report. No counter is unbounded, so there is no cut of
  the state space; the sets of inputs are the only bound.

* Height: nine lines, a readable one with and one without a point, and one for each
  way in which `decode` refuses. The readable ones differ, so that an older height can
  be told from a newer one.
* Runtime: six resources: the database and one other without a task, MQTT, two with a
  critical task, one whose task is not critical; and two topics, so that a connection
  may drop between two subscriptions.
* Storage: two callers, which is enough for one to wait while the other works and
  the lifecycle stops; one profile and the cache row; a request of each kind. Versions
  0 to 3, each with every combination of the two tables and one of somebody else's.
* Voice: a queue of two frames, with one more waiting for the loop and one in the
  callback; sessions of two turns, so that the reset is reached; one tool call per turn
  allowed and responses that ask for one or two, so that the limit is met and exceeded.
  `VoiceTimeout` and `VoiceClose` need one of each.

### Fairness

* Firmware: time passes and the interrupt controller serves a due timer. `loop()` is
  promised nothing: it may hang in a socket call.
* Controller: weak fairness of each request in progress, the runner, and the steps of
  `start` and `stop` that have begun. The event loop runs what is ready; a publish
  is bounded by `mqtt_publish_timeout_seconds`, a confirmation by its deadline. FIFO
  locks make weak fairness enough. No request, status, reading, shutdown or passing
  of a deadline has to come. `IntentExpires` excepts a dead runner, as the code does
  (see findings and hazards).

* Height: weak fairness of the runner (a thread returns, a timeout passes), of the
  clocks and of `stop`. `Hear` is strongly fair: a sensor that keeps talking gives a
  readable line again and again, though the reads between may find other lines. No
  plugging and no start has to happen.
* Runtime: weak fairness of the lifespan, whose awaits have timeouts, of a
  cancellation on its way, and of done callbacks. No connection has to succeed and no
  task has to fail.
* Storage: weak fairness of the lifecycle's and every caller's own steps. A worker
  ends because SQLite gives up on a lock after its busy timeout. Calls, cancellations
  and crashes need not come.
* Voice: weak fairness of the flow (threads return, provider calls have timeouts, a
  speaker takes or refuses PCM), of `stop`, of the callback and the loop, and of
  timers. The user need not speak, and a device need not return.

## 4. What is proved

`RelayFirmware_proofs` (every set of heights and stamps, every interval):

* `Typing`: `Spec => []TypeOK`, one lemma per part. `TypeOK` bounds the armed
  deadline by `MAX_HOLD_MS`.
* `Inductive`: `Spec => []IInv`, where `IInv` is `TypeOK` with
  `RelayInv` (outputs exclusive, a deadline behind each, a timeout only when off),
  `SessionInv` (what the flags say about the stamps accepted, what `loop()` believes
  of its links) and `MotionInv` (a motion belongs to a believed session, a waiting
  move is still admitted, the boundary). `WithinBoundary` is not inductive alone: a
  move that waits in `delay()` must still be admitted (`Reversing`), which needs that
  nothing but time, the links and the reversal's own end can happen there.
* `TimeoutMeansStoppedHolds`, `WithinBoundaryHolds`, `TwoObservationsHolds` follow.
* `LeaseBound`: under `Horizon < Wrap`, `Spec => []MotionWithinLease`, with the twin
  invariant for the waiting move. The assumption says that no age reaches the period of
  `millis()`; section 5 says what it would take for one to.
* `IsDeadMan`: `Spec => DeadMan!Spec`, by the mapping of outputs and timer.

`DeskController_proofs` (any users, requests, reports, heights, range):

* `Inductive`: `Spec => []IInv`. `IInv` says that `_control` is consistent in itself
  (`Fits`), that no intent stands while the STOP or shutdown flag is up
  (`StopHoldsOff`), and why: whoever is in the middle of a stop has a flag up
  (`FlagBehindStop`), two of them only after shutdown began (`OneStop`), so the one
  who lowers the flag is the last; a transition stop never is a task of its own and
  carries a valid target (`TransitionInline`); a pending startup wake goes with no
  intent and no stop (`StartupAlone`); nothing runs before `start`, and `closing`
  stays up from `stop` on (`LifeFirst`). The argument has two shapes: a step of one
  thread that raises no stop is `Calm` and `Sane` (lemma `CalmStep`); a step that
  raises one resets the intent (`RaiseStop`).
* `StopHolds`: `Spec => []StopHoldsOff`; `PublicMatches`:
  `Spec => []PublicMatchesIntent`, which includes that a pursued target lies in the
  operating range.

`LockQueue_proofs` (every set of threads): what a queue is after one has joined it
(`Joined`) or has left it from any place (`Gone`): nobody in it twice, the others in
their order, the head still the head. All facts about sequences that the two modules
below need are here; they reason with `Waits`, `Ahead` and `Holds` only.

`DeskControllerRelay_proofs` (any users, requests, reports, heights, range), on top of
`IInv`:

* `RelayInvariant`: `Spec => []RInv`. `RelayQueue` says that exactly the threads at a
  publish are in `_relay_io_lock`'s queue, each once. `WakeFirst` says that an intent
  that waits for nothing has had a height newer than its WAKE, and that a pulse that
  counts belongs to such an intent: `WakeBeforeMotion` alone does not survive the step
  in which the lock is granted. `StopTracked` says that while
  STOPPED is shown a status newer than the last STOP requested by anyone has come
  (`LastStopSeen`), and why: a status newer than a thread's own STOP is newer than
  that last one, unless shutdown has begun. `StopLasts` adds to `StopIsLast` the order in the
  queue: no WAKE is behind a STOP that is not out, none is left once it is, because
  whoever installs a WAKE is alone (`Alone`: no stop on its way) and a WAKE that was
  queued earlier goes first. The argument classifies what one step of a thread may do
  (`Keeps`, `Sets`, `Wakes`, `Halts`), once for requests, stops and their ends.
* `WakeComesFirst` (`WakeBeforeMotion`), `StopComesLast` (`StopIsLast`) follow, and the
  action property `StoppedConfirmed` (`StoppedIsConfirmed`): the only step that comes to
  show STOPPED at rest is the end of a stop whose status was good (`StoppedByStop`), and
  by `StopLasts` its STOP is still the last message on the wire.
* `TypeCorrect`: `Spec => []TypeOK`, with `TInv` for the variables the other two
  invariants do not type.
* `LocksNeverCircular`: `Spec => []NoCircularWait`, by `Owned`: nobody goes away with the
  intent lock, and whoever has the relay lock is publishing and waits for no lock. It is
  the safety half of `Answered`; that a publish ends and that the loop goes on is
  fairness, and TLC's.

`HeightMonitor_proofs` (every set of frames, every range): `Inductive`, and from it
`Typing` (`TypeOK`), `OnlineFresh` (`OnlineIsFresh`), `PortsOwned` (`PortsClosed`) and
the action property `OutputsFollowHeard` (`OutputsFollow`). `OnlineIsFresh` is not
inductive: it needs `HeightInv`, that a LIVE height is the one heard last and that a
source only counts as CONNECTED with a connection or while it is being closed, and
`PortInv`, which says who owns the handle at each place of the runner.
`MonitorFeedsDesk` proves the composition (`FeedsDesk`): while the monitor is up, each
change of the height the controller can see is an `Observe` or a `SensorStep`. It
needs `LInv`: a reading is only ever LIVE with a source that has tried to connect,
or an age passing its limit would take ERROR straight to STALE. `InRangeHolds` says that
nothing outside the measurement range is ever shown, cached or published.

`Runtime_proofs` (every set of resources and order, every number of topics):
`Inductive`, `Typing`, `ReadyIsUp`, `InOrder` (`DependenciesUp`), `NothingLeft`
(`NoOrphans`), `Subscribed` (`ConnectedMeansSubscribed`). The core is
`Closed` (what is up is closed under lower orders) with `LifeInv` (what `cur` is at each
place of the lifespan, and that it is next in order) and `TaskInv` (a running task
belongs to a resource that is up or in hand); `Conn` and `Subs` tie the flags of the
MQTT client to the place of its runner.

`Storage_proofs` (any callers, requests, keys, values): `Inductive`, `LockCovers`
(`LockCoversWorker`), `FileCarried` (`FileIsCarried`). `LockInv` says who may have a
worker; `ServeInv` that operations only run on a file that was found whole; `CopyInv`
how an open transaction differs from the file: not in version and tables for a
caller, by exactly one migration for the start. A migration neither spoils a whole file
nor makes another one whole, and it touches none from version 2 on. Two lemmas, `CallerWork` and
`LifeWork`, reduce each step of a worker to the worker's own part of that.

* `QueueInvariant`: `Spec => []QInv`: exactly the threads inside an operation are in the
  queue of `_operation_lock` (`Lock`, `Places`), and nobody is behind a `stop()`
  (`Last`), since `_closing` is up before it asks for the lock. `DrainsOnStop`
  (`QuietWhenDown`) follows: when the lock is `stop`'s, its queue is empty. So does
  `Typing` (`TypeOK`).
* `ImplementsStore`: `Spec => IsProfileStore`, the refinement of `ProfileStore`, whose
  `Init` and every step of `Next`, `Crash` included, are mapped. It needs `SInv` on top
  of `IInv`: until its commit a transaction holds back exactly one step of the store (`Holding`:
  a copy begun equals the file; one operated on differs by `After` and carries the
  `Reply`; one that fails either says so or is a refusal that changes nothing), and
  the lifecycle's own transaction never differs in the rows. The commit is the step
  `Take`, a roll-back with a refusal is `Take` of a refusal, with an error `Fail`.

`Voice_proofs` (every queue length, every limit on turns and calls):

* `HistoryWhole` (`HistoryIsWhole`) by `SessionInv`, which relates the copy of the turn to
  what is still to be executed. Only three steps touch the session; all others are
  `Quiet`.
* `HalfDuplexHolds` (`HalfDuplex`) by `QueueInv` (while frames are accepted, no posted
  frame of the present generation is an echo) and `FlowInv` (at which awaits something
  is played, at which the microphone is closed, until when an echo may be in the
  callback). A step leaves the queue untouched, shuts it, reopens it or takes from it.
* `DisabledQuiet` (`DisabledIsQuiet`) by `StopInv`, what `stop()` has achieved at each of
  its awaits, that a cancelled flow can only go to its end, and `SpeakerInv`, at which
  awaits an output is open and that one is left only by a failed abort. It says that
  the service is quiet, not that the devices are: `DevicesClosed` is false (`VoiceClose`).
* `ListensWaiting` (`ListensWhenWaiting`) by `ListenInv`, what the flow has open at each
  of its awaits.
* `Typing` (`TypeOK`).

Assumptions: those the modules name (`HeightAssumption`, `TimeAssumption`,
`RangeAssumption`, `ThreadAssumption`, `RequestAssumption`, `FrameAssumption`,
`ResourceAssumption`, `CallerAssumption`, `QueueAssumption`, `SessionAssumption`);
TLC evaluates them in every run. The last conjunct of `ThreadAssumption` keeps the
threads apart from the names of the baselines they wait with; it says nothing of the code.

Only model-checked: liveness (`IntentExpires`, `Answered`, `ShutdownEnds`,
`StatusFollowsSensor`, `LifespanEnds`, `OperationsEnd`, `VoiceReturns`, and the fair part
of `IsDeadManRelay`), which `TLAPS` cannot reach. Every invariant and every action
property of the passing runs is a theorem. The five properties that TLC refutes
(`StopOvertakes`, `WakeAfterStop`, `ReadyMeansHealthy`, `DeadVoiceShows`,
`DevicesClosed`) are none.

## 5. Findings

* **A STOP queues (`DeskControllerStopFirst`).** `stop_motion` waits for
  `_intent_lock` like any request; a hold queued before it starts a movement first.
  `docs/architecture/desk-safety.md:145-146` promises the opposite.
* **WAKE without STOP (`DeskControllerWake`).** `_hold` on a stale height goes to
  `_begin_wake` whether or not a movement runs. `_set_target` stops first.
  `docs/architecture/desk-safety.md:74-75` asks for the STOP.
* **READY replaces FAILED (`RuntimeReadyRace`).** When the task of a resource that is up
  raises while a later one is still in `start()`, `_on_done` marks FAILED, and
  `start_application` marks READY at its end without a look at the status
  (`core/lifecycle.py:36`). The application serves without that task.
  `docs/architecture/runtime-and-concurrency.md:165-166` says that such a failure takes
  readiness down.
* **A speech timeout ends the assistant (`VoiceTimeout`).** `synthesize()` holds
  `asyncio.timeout` open across its `yield`. When it runs out while the consumer writes to
  the speaker, the task is cancelled there, where nobody turns the `CancelledError` into
  a `TimeoutError`; `_supervise` re-raises it, the task manager takes it for a shutdown,
  and `voice-main` is gone with the state left at SPEAKING. The default of 30 s includes
  the playback. `docs/architecture/ai-voice-assistant.md:873` promises an error and the
  end of the turn.
* **A microphone nobody closes (`VoiceClose`).** `LocalAudioInput.start` keeps the stream
  in a local until it runs. A `stop()` that cancels `voice-main` while the thread is in
  `stream.start` re-raises (`voice/audio.py:228`) without closing it; the thread ends,
  `_input_started` is still False, and `_cleanup_started_resources` closes nothing.
  `docs/architecture/ai-voice-assistant.md:853` and `:875` promise both devices closed
  at the shutdown. The speaker stays open after an abort that failed, the state `stuck`
  below, which breaks `DevicesClosed` too.

Met on the way, and kept in the models:

* A target within tolerance of a stale height resets the state to IDLE and so wipes
  the ERROR of a STOP that failed, which is why `StopIsLast` makes no claim for IDLE.
* A runner of the controller that dies leaves `_running` up, so a request already queued
  may install an intent nobody watches.
* An abort that fails leaves the playback coordinator started and stopping
  (`voice/playback.py:85-90`), the state `stuck`: it refuses to play, and a later start
  returns at once.
* An output stream whose constructor returns after its caller was cancelled
  (`voice/audio.py:450`) is left to nobody, like the microphone of `VoiceClose`. It
  plays nothing, and is not in the model.
* An older file that is not one of the program's is migrated and numbered 2
  (`storage/sqlite.py:137-142`) before `_verify_version_2_schema` refuses it (`:327`), so
  it gains tables and a version but loses nothing. From version 2 on a foreign file is
  left alone. `FileIsCarried` says exactly this.
* `updateArming` compares unsigned differences of `millis()`, so an unarmed session
  with a distinct height and no other for 2^32 ms (49.7 days) would find that height
  fresh again. `tick()` arms such a session, or `ExpireLease` clears the height, unless
  one pass of `loop()` is longer than the lease less the arming delay (1 s as
  configured), so no run shows it; `LeaseBound` names the assumption.
* A TTS stream of odd length is no recoverable error (`voice/playback.py:115-116`): the
  voice stays in ERROR for good.
* `HalfDuplex` rests on a callback that ends within `post_playback_guard_seconds`; the
  settings allow 0.
* The wake word detector starts before the microphone, and that before the playback;
  `docs/architecture/runtime-and-concurrency.md:31` names another order.

## 6. Plan

Done: the firmware with its abstract relay, the controller, the height monitor with
its composition with the controller, runtime and MQTT runner, storage with its
abstract store, voice with the assistant.

To come:

1. Proofs across modules: the order of the commands on the wire with respect to the
   firmware's session, and what `ProfileStore` promises about the cached height that
   `HeightMonitor` loads.
2. **DeskSystem**: controller, MQTT and firmware composed over a lossy, delaying
   wire: a STOP status that answers this very STOP; the WAKE the firmware's parser
   refuses; a movement ends when the controller is gone.

Not modelled:

* Dispatch of received MQTT messages to handlers and the JSON and pydantic texts of
  messages: conversions. A message is accepted or refused.
* WLED (`modules/wled`): one request lock around HTTP calls; no other state. The tools
  over it (`assistant/wled_tools.py`) are a provider whose effects are outside.
* Media (`modules/media`): a reader thread around the latest frame, and ffmpeg child
  processes; mostly I/O. Its start and stop are those of any resource of `Runtime`.
* Segment reader firmware: hardware timing; its lines are the constant `Frames`.
* Settings: no state; the relations they check are assumptions here.
* Frontend: a view of the snapshots.
* Signal processing of the recorder, the debug history of the voice service and
  logging.
