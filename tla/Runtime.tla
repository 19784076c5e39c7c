-------------------------------- MODULE Runtime --------------------------------
(***************************************************************************)
(* The life of the process: start_application and shutdown_application     *)
(* (core/lifecycle.py), TaskManager, RuntimeState, the resources that      *)
(* bootstrap.py registers, and among them MqttClient (modules/mqtt) with   *)
(* its runner, which starts, reconnects and is cancelled on the same loop. *)
(*                                                                         *)
(* The lifespan task (pc, cur) awaits one resource after the other; tasks  *)
(* fail meanwhile, and the done callback that records a failure runs some  *)
(* time after the task has ended ("broken"). Of the other resources only   *)
(* what the lifecycle sees is kept: start() returns or raises, stop()      *)
(* returns or raises, having joined the resource's task in either case.    *)
(* bootstrap.py gives a resource the same order for start and shutdown.    *)
(* A start that is itself cancelled is left out: uvicorn does not do it.   *)
(***************************************************************************)
EXTENDS Naturals

CONSTANTS Names,        \* the registered resources
          Order,        \* startup_order = shutdown_order of each
          Mqtt,         \* the MQTT client, one of them
          Tasked,       \* the others that keep a task
          Critical,     \* those whose task is critical
          NTopics,      \* topics registered with register_handler
          NoName

ASSUME ResourceAssumption ==
    /\ Order \in [Names -> Nat]
    /\ \A q, r \in Names : q # r => Order[q] # Order[r]
    /\ NoName \notin Names /\ Mqtt \in Names
    /\ Tasked \subseteq Names \ {Mqtt}
    /\ Critical \subseteq Tasked \cup {Mqtt} /\ Mqtt \in Critical
    /\ NTopics \in Nat \ {0}

VARIABLES
    status,             \* RuntimeState: ApplicationStatus
    pc, cur,            \* the lifespan, and the resource it awaits
    up,                 \* started_resources
    tasks,              \* TaskManager._tasks
    failures, closing,  \* _failures by name, _closing
    link, subs, once,   \* the MQTT runner: place, topics subscribed, connected_once
    client, connected,  \* _client is not None, _connected
    event,              \* _startup_event
    cancel              \* the runner has been cancelled and has not seen it yet

lifeVars == <<pc, cur, up>>
taskVars == <<failures, closing>>
linkVars == <<link, subs, once, client, connected, event>>
vars == <<status, lifeVars, tasks, taskVars, linkVars, cancel>>

-----------------------------------------------------------------------------
(* TaskManager *)

Create(r) == tasks' = [tasks EXCEPT ![r] = "running"]

\* _on_done of a task that ended with an exception; on_critical_failure is
\* runtime.mark_failed.
OnDone(r) == /\ tasks[r] = "broken"
             /\ tasks' = [tasks EXCEPT ![r] = "failed"]
             /\ failures' = IF closing THEN failures ELSE failures \cup {r}
             /\ status' = IF r \in Critical /\ ~closing THEN "FAILED" ELSE status
             /\ UNCHANGED <<lifeVars, closing, linkVars, cancel>>

\* The task of another resource raises.
Break(r) == /\ r # Mqtt /\ tasks[r] = "running"
            /\ tasks' = [tasks EXCEPT ![r] = "broken"]
            /\ UNCHANGED <<status, lifeVars, taskVars, linkVars, cancel>>

-----------------------------------------------------------------------------
(* MqttClient._run *)

Running == tasks[Mqtt] = "running"

\* finally: no connection, no client.
Dropped == connected' = FALSE /\ client' = FALSE /\ subs' = 0

\* Mutant of Connect: a reconnect relies on the broker's memory of the topics.
ConnectAsBefore ==
    /\ Running /\ link = "connecting"
    /\ client' = TRUE
    /\ IF once THEN link' = "up" /\ connected' = TRUE
       ELSE link' = "subscribing" /\ UNCHANGED connected
    /\ UNCHANGED <<status, lifeVars, tasks, taskVars, subs, once, event, cancel>>

Connect == /\ Running /\ link = "connecting"
           /\ client' = TRUE
           /\ link' = "subscribing"
           /\ UNCHANGED <<status, lifeVars, tasks, taskVars, subs, once, connected, event,
                          cancel>>

\* _subscribe_all, topic by topic; after the last one the client is connected.
Subscribe == /\ Running /\ link = "subscribing"
             /\ subs' = subs + 1
             /\ \/ /\ subs' = NTopics
                   /\ link' = "up" /\ connected' = TRUE
                   /\ once' = TRUE
                   /\ IF once THEN UNCHANGED event ELSE event' = TRUE
                \/ subs' < NTopics /\ UNCHANGED <<link, connected, once, event>>
             /\ UNCHANGED <<status, lifeVars, tasks, taskVars, client, cancel>>

\* MqttError: the broker refuses, times out or goes away. Before the first
\* connection the runner returns, afterwards it waits and tries again.
Lose == /\ Running /\ link \in {"connecting", "subscribing", "up"}
        /\ Dropped
        /\ IF once THEN link' = "pause" /\ UNCHANGED <<tasks, event>>
           ELSE /\ event' = TRUE
                /\ link' = "off"
                /\ tasks' = [tasks EXCEPT ![Mqtt] = "returned"]
        /\ UNCHANGED <<status, lifeVars, taskVars, once, cancel>>

\* Any other exception goes to the task manager.
Raise == /\ Running /\ link \in {"connecting", "subscribing", "up"}
         /\ Dropped
         /\ link' = "off"
         /\ IF once THEN UNCHANGED event ELSE event' = TRUE
         /\ tasks' = [tasks EXCEPT ![Mqtt] = "broken"]
         /\ UNCHANGED <<status, lifeVars, taskVars, once, cancel>>

Retry == /\ Running /\ link = "pause"
         /\ link' = "connecting"
         /\ UNCHANGED <<status, lifeVars, tasks, taskVars, subs, once, client, connected,
                        event, cancel>>

\* Mutant of Unwind: the runner forgets its connection but not its place.
UnwindInPlace == /\ cancel /\ Running
                 /\ Dropped
                 /\ tasks' = [tasks EXCEPT ![Mqtt] = "cancelled"]
                 /\ cancel' = FALSE
                 /\ UNCHANGED <<status, lifeVars, taskVars, link, once, event>>

\* CancelledError reaches the runner wherever it waits.
Unwind == /\ cancel /\ Running
          /\ Dropped
          /\ link' = "off"
          /\ tasks' = [tasks EXCEPT ![Mqtt] = "cancelled"]
          /\ cancel' = FALSE
          /\ UNCHANGED <<status, lifeVars, taskVars, once, event>>

Runner == ~cancel /\ (Connect \/ Subscribe \/ Lose \/ Raise \/ Retry)

\* _cancel_runner, its first half: a runner that has ended is only awaited.
CancelRunner == cancel' = Running

-----------------------------------------------------------------------------
(* start_application *)

First(r) == r \in Names \ up /\ \A q \in Names \ up : Order[r] <= Order[q]

Startup == /\ pc = "created"
           /\ pc' = "starting"
           /\ status' = "STARTING"
           /\ UNCHANGED <<cur, up, tasks, taskVars, linkVars, cancel>>

StartNext(r) == /\ pc = "starting" /\ cur = NoName /\ First(r)
                /\ cur' = r
                /\ IF r \in Tasked \cup {Mqtt} THEN Create(r) ELSE UNCHANGED tasks
                /\ IF r = Mqtt
                   THEN /\ link' = "connecting" /\ event' = FALSE
                        /\ connected' = FALSE /\ once' = FALSE
                        /\ UNCHANGED <<subs, client>>
                   ELSE UNCHANGED linkVars
                /\ UNCHANGED <<status, pc, up, taskVars, cancel>>

\* The last start() that returns leads to READY without another suspension.
StartReturns == /\ up' = up \cup {cur}
                /\ cur' = NoName
                /\ IF up' = Names THEN pc' = "serving" /\ status' = "READY"
                   ELSE UNCHANGED <<status, pc>>

\* mark_failed, then _stop_started_resources
StartRaises == /\ status' = "FAILED"
               /\ pc' = "rollback"
               /\ cur' = NoName
               /\ UNCHANGED up

\* start() of another resource returns, or raises after its own clean-up.
Settle == /\ pc = "starting" /\ cur \in Names \ {Mqtt}
          /\ \/ StartReturns /\ UNCHANGED tasks
             \/ /\ tasks[cur] # "broken"
                /\ StartRaises
                /\ tasks' = [tasks EXCEPT ![cur] = IF @ = "running" THEN "cancelled" ELSE @]
          /\ UNCHANGED <<taskVars, linkVars, cancel>>

\* MqttClient.start: the startup event in time, and still connected.
AwaitBroker == /\ pc = "starting" /\ cur = Mqtt /\ event
               /\ IF connected THEN StartReturns /\ UNCHANGED cancel
                  ELSE /\ pc' = "joining"
                       /\ CancelRunner
                       /\ UNCHANGED <<status, cur, up>>
               /\ UNCHANGED <<tasks, taskVars, linkVars>>

\* Mutant of BrokerTimeout: the runner is left to try on.
TimeoutOnly == /\ pc = "starting" /\ cur = Mqtt
               /\ pc' = "joining"
               /\ UNCHANGED <<status, cur, up, cancel, tasks, taskVars, linkVars>>

\* asyncio.timeout, which may beat an event that has just been set.
BrokerTimeout == /\ pc = "starting" /\ cur = Mqtt
                 /\ pc' = "joining"
                 /\ CancelRunner
                 /\ UNCHANGED <<status, cur, up, tasks, taskVars, linkVars>>

\* Mutant of JoinRunner: the failed start does not wait for its runner.
JoinNobody == /\ pc = "joining"
              /\ StartRaises
              /\ UNCHANGED <<tasks, taskVars, linkVars, cancel>>

\* gather in _cancel_runner, then MqttStartupError
JoinRunner == /\ pc = "joining" /\ tasks[Mqtt] \notin {"running", "broken"}
              /\ StartRaises
              /\ UNCHANGED <<tasks, taskVars, linkVars, cancel>>

-----------------------------------------------------------------------------
(* _stop_started_resources and shutdown_application *)

Ending == pc \in {"rollback", "stopping"}

\* Mutant of Last: the order of the start.
Foremost(r) == r \in up /\ \A q \in up : Order[r] <= Order[q]
Last(r) == r \in up /\ \A q \in up : Order[q] <= Order[r]

\* Mutant of Shutdown: the status is left for the end.
ShutdownUnmarked == /\ pc = "serving"
                    /\ pc' = "stopping"
                    /\ UNCHANGED <<status, cur, up, tasks, taskVars, linkVars, cancel>>

Shutdown == /\ pc = "serving"
            /\ pc' = "stopping"
            /\ status' = "STOPPING"
            /\ UNCHANGED <<cur, up, tasks, taskVars, linkVars, cancel>>

\* stop() of another resource, which returns or raises: the loop goes on.
StopOther(r) == /\ Ending /\ cur = NoName /\ Last(r) /\ r # Mqtt
                /\ tasks[r] # "broken"
                /\ tasks' = [tasks EXCEPT ![r] = IF @ = "running" THEN "cancelled" ELSE @]
                /\ up' = up \ {r}
                /\ UNCHANGED <<status, pc, cur, taskVars, linkVars, cancel>>

StopMqtt == /\ Ending /\ cur = NoName /\ Last(Mqtt)
            /\ cur' = Mqtt
            /\ CancelRunner
            /\ UNCHANGED <<status, pc, up, tasks, taskVars, linkVars>>

MqttStopped == /\ Ending /\ cur = Mqtt /\ tasks[Mqtt] \notin {"running", "broken"}
               /\ connected' = FALSE /\ client' = FALSE
               /\ up' = up \ {Mqtt} /\ cur' = NoName
               /\ UNCHANGED <<status, pc, tasks, taskVars, link, subs, once, event, cancel>>

\* start_application raises: the lifespan is over, and no shutdown follows.
GiveUp == /\ pc = "rollback" /\ cur = NoName /\ up = {}
          /\ pc' = "failed"
          /\ UNCHANGED <<status, cur, up, tasks, taskVars, linkVars, cancel>>

\* TaskManager.shutdown; the resources have joined their tasks before.
Finish == /\ pc = "stopping" /\ cur = NoName /\ up = {}
          /\ closing' = TRUE
          /\ pc' = "ended"
          /\ status' = "STOPPED"
          /\ UNCHANGED <<cur, up, tasks, failures, linkVars, cancel>>

-----------------------------------------------------------------------------
Init == /\ status = "CREATED" /\ pc = "created" /\ cur = NoName /\ up = {}
        /\ tasks = [r \in Names |-> "none"]
        /\ failures = {} /\ closing = FALSE
        /\ link = "off" /\ subs = 0 /\ once = FALSE
        /\ client = FALSE /\ connected = FALSE /\ event = FALSE /\ cancel = FALSE

Lifespan == \/ \E r \in Names : StartNext(r) \/ StopOther(r)
            \/ Settle \/ AwaitBroker \/ BrokerTimeout \/ JoinRunner
            \/ StopMqtt \/ MqttStopped \/ GiveUp \/ Finish

Next == \/ Startup \/ Lifespan \/ Shutdown
        \/ Runner \/ Unwind
        \/ \E r \in Names : Break(r) \/ OnDone(r)

Spec == Init /\ [][Next]_vars

\* The loop runs what is ready: the lifespan, whose awaits are bounded by their
\* timeouts, a cancellation on its way, a done callback.
Fairness == /\ WF_vars(Lifespan) /\ WF_vars(Unwind)
            /\ \A r \in Names : WF_vars(OnDone(r))
FairSpec == Spec /\ Fairness

-----------------------------------------------------------------------------
\* Types, and the runner has a place exactly while its task runs.
TypeOK ==
    /\ status \in {"CREATED", "STARTING", "READY", "STOPPING", "STOPPED", "FAILED"}
    /\ pc \in {"created", "starting", "joining", "rollback", "failed", "serving", "stopping",
               "ended"}
    /\ cur \in Names \cup {NoName} /\ up \subseteq Names
    /\ tasks \in [Names -> {"none", "running", "broken", "failed", "returned", "cancelled"}]
    /\ failures \subseteq Names /\ closing \in BOOLEAN
    /\ link \in {"off", "connecting", "subscribing", "up", "pause"}
    /\ subs \in 0..NTopics
    /\ once \in BOOLEAN /\ client \in BOOLEAN /\ connected \in BOOLEAN
    /\ event \in BOOLEAN /\ cancel \in BOOLEAN
    /\ link = "off" <=> ~Running

\* The READY gate: READY means that every resource is started, none has begun to
\* stop, and MQTT has been connected with all its topics.
ReadyMeansUp == status = "READY" => up = Names /\ once /\ pc = "serving"

\* The orders of bootstrap.py: whatever is up, or still has a task that runs,
\* has everything below it up, in the start, the rollback and the shutdown.
DependenciesUp == \A q, r \in Names :
    Order[q] < Order[r] /\ (r \in up \/ tasks[r] = "running") => q \in up

\* A lifespan that is over leaves no task and no connection behind, also when
\* the start failed and TaskManager.shutdown is never called.
NoOrphans == pc \in {"failed", "ended"} =>
    /\ up = {} /\ ~connected /\ ~client
    /\ \A r \in Names : tasks[r] # "running"

\* is_connected() and publish(): connected means that this very connection has
\* all topics, also after a reconnect.
ConnectedMeansSubscribed == connected => client /\ Running /\ subs = NTopics

\* (_on_done, on_critical_failure, start_application) A critical task that has failed
\* keeps the application from READY, also when later resources are still starting
\* (docs/architecture/runtime-and-concurrency.md:165-166).
ReadyMeansHealthy == status = "READY" => failures \cap Critical = {}

\* start_application and shutdown_application come to an end, whatever fails.
LifespanEnds == /\ pc = "starting" ~> pc \in {"serving", "failed"}
                /\ pc = "stopping" ~> pc = "ended"
=============================================================================
