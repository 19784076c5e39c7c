----------------------------- MODULE Runtime_proofs -----------------------------
(***************************************************************************)
(* Proofs about Runtime, for every set of resources, every order of them   *)
(* and every number of topics.                                             *)
(***************************************************************************)
EXTENDS Runtime, TLAPS

Below(r) == {q \in Names : Order[q] < Order[r]}

\* TypeOK in three parts.
Data ==
    /\ status \in {"CREATED", "STARTING", "READY", "STOPPING", "STOPPED", "FAILED"}
    /\ pc \in {"created", "starting", "joining", "rollback", "failed", "serving", "stopping",
               "ended"}
    /\ cur \in Names \cup {NoName} /\ up \subseteq Names
    /\ tasks \in [Names -> {"none", "running", "broken", "failed", "returned", "cancelled"}]
    /\ failures \subseteq Names
    /\ link \in {"off", "connecting", "subscribing", "up", "pause"}
    /\ subs \in 0..NTopics
Flags == /\ closing \in BOOLEAN /\ once \in BOOLEAN /\ client \in BOOLEAN
         /\ connected \in BOOLEAN /\ event \in BOOLEAN /\ cancel \in BOOLEAN
Placed == link = "off" <=> ~Running

\* Where the lifespan is, and what it has in hand.
LifeInv ==
    /\ pc \in {"created", "serving", "failed", "ended"} => cur = NoName
    /\ pc \in {"created", "failed", "ended"} => up = {}
    /\ pc = "serving" => up = Names
    /\ pc = "joining" => cur = Mqtt
    /\ pc \in {"starting", "joining"} /\ cur # NoName => cur \notin up /\ Below(cur) \subseteq up
    /\ Ending /\ cur # NoName => cur = Mqtt /\ Last(Mqtt)
    /\ status = "READY" => pc = "serving"

Closed == \A r \in up : Below(r) \subseteq up

\* A task runs for a resource that is up, or is being started or stopped.
TaskInv == \A r \in Names : tasks[r] = "running" => r \in up \cup {cur}

\* What the runner of the MQTT client has in hand at each place.
Conn == /\ connected <=> link = "up"
        /\ client <=> link \in {"subscribing", "up"}
        /\ link = "up" => once
        /\ Mqtt \in up => once
Subs == /\ link \notin {"subscribing", "up"} => subs = 0
        /\ link = "subscribing" => subs < NTopics
        /\ link = "up" => subs = NTopics

\* The inductive invariant.
IInv == Data /\ Flags /\ Placed /\ LifeInv /\ Closed /\ TaskInv /\ Conn /\ Subs

-----------------------------------------------------------------------------
(* The steps *)

\* (MqttClient._run, TaskManager._on_done) What tasks do beside the lifespan leaves it where it is.
LEMMA TaskSteps ==
  ASSUME IInv, Runner \/ Unwind \/ \E r \in Names : Break(r) \/ OnDone(r)
  PROVE  IInv'
<1> USE ResourceAssumption
<1>1. CASE Connect
  BY <1>1
  DEF Connect, IInv, Data, Flags, Placed, LifeInv, Closed, TaskInv, Conn, Subs,
      Running, Below, Ending, Last, lifeVars, taskVars, linkVars
<1>2. CASE Subscribe
  <2>1. Data'
    BY <1>2 DEF Subscribe, IInv, Data, Subs, lifeVars, taskVars, linkVars
  <2>2. Flags'
    BY <1>2 DEF Subscribe, IInv, Flags, Running, lifeVars, taskVars, linkVars
  <2>3. Placed'
    BY <1>2 DEF Subscribe, IInv, Placed, Data, Running, lifeVars, taskVars, linkVars
  <2>4. LifeInv'
    BY <1>2
    DEF Subscribe, IInv, Data, LifeInv, Closed, Below, Ending, Last, lifeVars, taskVars,
        linkVars
  <2>5. Closed'
    BY <1>2
    DEF Subscribe, IInv, Data, LifeInv, Closed, Below, Ending, Last, lifeVars, taskVars,
        linkVars
  <2>6. TaskInv'
    BY <1>2
    DEF Subscribe, IInv, Data, LifeInv, TaskInv, Placed, Running, Ending, Last, lifeVars,
        taskVars, linkVars
  <2>7. Conn'
    BY <1>2
    DEF Subscribe, IInv, Data, Placed, Running, Conn, LifeInv, TaskInv, Ending, lifeVars,
        taskVars, linkVars
  <2>8. Subs'
    BY <1>2
    DEF Subscribe, IInv, Data, Conn, Placed, Running, Subs, LifeInv, TaskInv, lifeVars,
        taskVars, linkVars
  <2> QED  BY <2>1, <2>2, <2>3, <2>4, <2>5, <2>6, <2>7, <2>8 DEF IInv
<1>3. CASE Lose
  <2>1. Data'
    BY <1>3 DEF Lose, Dropped, IInv, Data, Subs, lifeVars, taskVars, linkVars
  <2>2. Flags'
    BY <1>3 DEF Lose, Dropped, IInv, Flags, Running, lifeVars, taskVars, linkVars
  <2>3. Placed'
    BY <1>3 DEF Lose, Dropped, IInv, Placed, Data, Running, lifeVars, taskVars, linkVars
  <2>4. LifeInv'
    BY <1>3
    DEF Lose, Dropped, IInv, Data, LifeInv, Closed, Below, Ending, Last, lifeVars, taskVars,
        linkVars
  <2>5. Closed'
    BY <1>3
    DEF Lose, Dropped, IInv, Data, LifeInv, Closed, Below, Ending, Last, lifeVars, taskVars,
        linkVars
  <2>6. TaskInv'
    BY <1>3
    DEF Lose, Dropped, IInv, Data, LifeInv, TaskInv, Placed, Running, Ending, Last, lifeVars,
        taskVars, linkVars
  <2>7. Conn'
    BY <1>3
    DEF Lose, Dropped, IInv, Data, Placed, Running, Conn, LifeInv, TaskInv, Ending, lifeVars,
        taskVars, linkVars
  <2>8. Subs'
    BY <1>3
    DEF Lose, Dropped, IInv, Data, Conn, Placed, Running, Subs, LifeInv, TaskInv, lifeVars,
        taskVars, linkVars
  <2> QED  BY <2>1, <2>2, <2>3, <2>4, <2>5, <2>6, <2>7, <2>8 DEF IInv
<1>4. CASE Raise
  <2>1. Data'
    BY <1>4 DEF Raise, Dropped, IInv, Data, Subs, lifeVars, taskVars, linkVars
  <2>2. Flags'
    BY <1>4 DEF Raise, Dropped, IInv, Flags, Running, lifeVars, taskVars, linkVars
  <2>3. Placed'
    BY <1>4 DEF Raise, Dropped, IInv, Placed, Data, Running, lifeVars, taskVars, linkVars
  <2>4. LifeInv'
    BY <1>4
    DEF Raise, Dropped, IInv, Data, LifeInv, Closed, Below, Ending, Last, lifeVars, taskVars,
        linkVars
  <2>5. Closed'
    BY <1>4
    DEF Raise, Dropped, IInv, Data, LifeInv, Closed, Below, Ending, Last, lifeVars, taskVars,
        linkVars
  <2>6. TaskInv'
    BY <1>4
    DEF Raise, Dropped, IInv, Data, LifeInv, TaskInv, Placed, Running, Ending, Last, lifeVars,
        taskVars, linkVars
  <2>7. Conn'
    BY <1>4
    DEF Raise, Dropped, IInv, Data, Placed, Running, Conn, LifeInv, TaskInv, Ending, lifeVars,
        taskVars, linkVars
  <2>8. Subs'
    BY <1>4
    DEF Raise, Dropped, IInv, Data, Conn, Placed, Running, Subs, LifeInv, TaskInv, lifeVars,
        taskVars, linkVars
  <2> QED  BY <2>1, <2>2, <2>3, <2>4, <2>5, <2>6, <2>7, <2>8 DEF IInv
<1>5. CASE Retry
  BY <1>5
  DEF Retry, IInv, Data, Flags, Placed, LifeInv, Closed, TaskInv, Conn, Subs,
      Running, Below, Ending, Last, lifeVars, taskVars, linkVars
<1>6. CASE Unwind
  <2>1. Data'
    BY <1>6 DEF Unwind, Dropped, IInv, Data, Subs, lifeVars, taskVars, linkVars
  <2>2. Flags'
    BY <1>6 DEF Unwind, Dropped, IInv, Flags, Running, lifeVars, taskVars, linkVars
  <2>3. Placed'
    BY <1>6 DEF Unwind, Dropped, IInv, Placed, Data, Running, lifeVars, taskVars, linkVars
  <2>4. LifeInv'
    BY <1>6
    DEF Unwind, Dropped, IInv, Data, LifeInv, Closed, Below, Ending, Last, lifeVars, taskVars,
        linkVars
  <2>5. Closed'
    BY <1>6
    DEF Unwind, Dropped, IInv, Data, LifeInv, Closed, Below, Ending, Last, lifeVars, taskVars,
        linkVars
  <2>6. TaskInv'
    BY <1>6
    DEF Unwind, Dropped, IInv, Data, LifeInv, TaskInv, Placed, Running, Ending, Last, lifeVars,
        taskVars, linkVars
  <2>7. Conn'
    BY <1>6
    DEF Unwind, Dropped, IInv, Data, Placed, Running, Conn, LifeInv, TaskInv, Ending, lifeVars,
        taskVars, linkVars
  <2>8. Subs'
    BY <1>6
    DEF Unwind, Dropped, IInv, Data, Conn, Placed, Running, Subs, LifeInv, TaskInv, lifeVars,
        taskVars, linkVars
  <2> QED  BY <2>1, <2>2, <2>3, <2>4, <2>5, <2>6, <2>7, <2>8 DEF IInv
<1>7. CASE \E r \in Names : Break(r)
  BY <1>7
  DEF Break, IInv, Data, Flags, Placed, LifeInv, Closed, TaskInv, Conn, Subs,
      Running, Below, Ending, Last, lifeVars, taskVars, linkVars
<1>8. CASE \E r \in Names : OnDone(r)
  BY <1>8
  DEF OnDone, IInv, Data, Flags, Placed, LifeInv, Closed, TaskInv, Conn, Subs,
      Running, Below, Ending, Last, lifeVars, taskVars, linkVars
<1> QED  BY <1>1, <1>2, <1>3, <1>4, <1>5, <1>6, <1>7, <1>8 DEF Runner

\* (start_application) The start of a resource, and what it leads to.
LEMMA StartSteps ==
  ASSUME IInv, \/ Startup \/ Settle \/ AwaitBroker \/ BrokerTimeout \/ JoinRunner
               \/ \E r \in Names : StartNext(r)
  PROVE  IInv'
<1> USE ResourceAssumption
<1>1. CASE Startup
  BY <1>1
  DEF Startup, IInv, Data, Flags, Placed, LifeInv, Closed, TaskInv, Conn, Subs,
      Running, Below, Ending, Last, lifeVars, taskVars, linkVars
<1>2. CASE Settle
  BY <1>2
  DEF Settle, StartReturns, StartRaises, IInv, Data, Flags, Placed, LifeInv, Closed, TaskInv, Conn, Subs,
      Running, Below, Ending, Last, lifeVars, taskVars, linkVars
<1>3. CASE AwaitBroker
  <2>1. Data'
    BY <1>3
    DEF AwaitBroker, StartReturns, CancelRunner, IInv, Data, Subs, lifeVars, taskVars, linkVars
  <2>2. Flags'
    BY <1>3
    DEF AwaitBroker, StartReturns, CancelRunner, IInv, Flags, Running, lifeVars, taskVars,
        linkVars
  <2>3. Placed'
    BY <1>3
    DEF AwaitBroker, StartReturns, CancelRunner, IInv, Placed, Data, Running, lifeVars,
        taskVars, linkVars
  <2>4. LifeInv'
    BY <1>3
    DEF AwaitBroker, StartReturns, CancelRunner, IInv, Data, LifeInv, Closed, Below, Ending,
        Last, lifeVars, taskVars, linkVars
  <2>5. Closed'
    BY <1>3
    DEF AwaitBroker, StartReturns, CancelRunner, IInv, Data, LifeInv, Closed, Below, Ending,
        Last, lifeVars, taskVars, linkVars
  <2>6. TaskInv'
    BY <1>3
    DEF AwaitBroker, StartReturns, CancelRunner, IInv, Data, LifeInv, TaskInv, Placed, Running,
        Ending, Last, lifeVars, taskVars, linkVars
  <2>7. Conn'
    BY <1>3
    DEF AwaitBroker, StartReturns, CancelRunner, IInv, Data, Placed, Running, Conn, LifeInv,
        TaskInv, Ending, lifeVars, taskVars, linkVars
  <2>8. Subs'
    BY <1>3
    DEF AwaitBroker, StartReturns, CancelRunner, IInv, Data, Conn, Placed, Running, Subs,
        LifeInv, TaskInv, lifeVars, taskVars, linkVars
  <2> QED  BY <2>1, <2>2, <2>3, <2>4, <2>5, <2>6, <2>7, <2>8 DEF IInv
<1>4. CASE BrokerTimeout
  BY <1>4
  DEF BrokerTimeout, CancelRunner, IInv, Data, Flags, Placed, LifeInv, Closed, TaskInv, Conn, Subs,
      Running, Below, Ending, Last, lifeVars, taskVars, linkVars
<1>5. CASE JoinRunner
  BY <1>5
  DEF JoinRunner, StartRaises, IInv, Data, Flags, Placed, LifeInv, Closed, TaskInv, Conn, Subs,
      Running, Below, Ending, Last, lifeVars, taskVars, linkVars
<1>6. ASSUME NEW r \in Names, StartNext(r) PROVE IInv'
  <2>1. Data'
    BY <1>6 DEF StartNext, First, Create, IInv, Data, Subs, lifeVars, taskVars, linkVars
  <2>2. Flags'
    BY <1>6 DEF StartNext, First, Create, IInv, Flags, Running, lifeVars, taskVars, linkVars
  <2>3. Placed'
    BY <1>6
    DEF StartNext, First, Create, IInv, Placed, Data, Running, lifeVars, taskVars, linkVars
  <2>4. LifeInv'
    BY <1>6
    DEF StartNext, First, Create, IInv, Data, LifeInv, Closed, Below, Ending, Last, lifeVars,
        taskVars, linkVars
  <2>5. Closed'
    BY <1>6
    DEF StartNext, First, Create, IInv, Data, LifeInv, Closed, Below, Ending, Last, lifeVars,
        taskVars, linkVars
  <2>6. TaskInv'
    BY <1>6
    DEF StartNext, First, Create, IInv, Data, LifeInv, TaskInv, Placed, Running, Ending, Last,
        lifeVars, taskVars, linkVars
  <2>7. Conn'
    BY <1>6
    DEF StartNext, First, Create, IInv, Data, Placed, Running, Conn, LifeInv, TaskInv, Ending,
        lifeVars, taskVars, linkVars
  <2>8. Subs'
    BY <1>6
    DEF StartNext, First, Create, IInv, Data, Conn, Placed, Running, Subs, LifeInv, TaskInv,
        lifeVars, taskVars, linkVars
  <2> QED  BY <2>1, <2>2, <2>3, <2>4, <2>5, <2>6, <2>7, <2>8 DEF IInv
<1> QED  BY <1>1, <1>2, <1>3, <1>4, <1>5, <1>6

\* (_stop_started_resources, shutdown_application) The roll-back and the shutdown.
LEMMA StopSteps ==
  ASSUME IInv, \/ Shutdown \/ StopMqtt \/ MqttStopped \/ GiveUp \/ Finish
               \/ \E r \in Names : StopOther(r)
  PROVE  IInv'
<1> USE ResourceAssumption
<1>1. CASE Shutdown
  BY <1>1
  DEF Shutdown, IInv, Data, Flags, Placed, LifeInv, Closed, TaskInv, Conn, Subs,
      Running, Below, Ending, Last, lifeVars, taskVars, linkVars
<1>2. CASE StopMqtt
  BY <1>2
  DEF StopMqtt, CancelRunner, IInv, Data, Flags, Placed, LifeInv, Closed, TaskInv, Conn, Subs,
      Running, Below, Ending, Last, lifeVars, taskVars, linkVars
<1>3. CASE MqttStopped
  <2>1. Data'
    BY <1>3 DEF MqttStopped, IInv, Data, Subs, lifeVars, taskVars, linkVars
  <2>2. Flags'
    BY <1>3 DEF MqttStopped, IInv, Flags, Running, lifeVars, taskVars, linkVars
  <2>3. Placed'
    BY <1>3 DEF MqttStopped, IInv, Placed, Data, Running, lifeVars, taskVars, linkVars
  <2>4. LifeInv'
    BY <1>3
    DEF MqttStopped, IInv, Data, LifeInv, Closed, Below, Ending, Last, lifeVars, taskVars,
        linkVars
  <2>5. Closed'
    BY <1>3
    DEF MqttStopped, IInv, Data, LifeInv, Closed, Below, Ending, Last, lifeVars, taskVars,
        linkVars
  <2>6. TaskInv'
    BY <1>3
    DEF MqttStopped, IInv, Data, LifeInv, TaskInv, Placed, Running, Ending, Last, lifeVars,
        taskVars, linkVars
  <2>7. Conn'
    BY <1>3
    DEF MqttStopped, IInv, Data, Placed, Running, Conn, LifeInv, TaskInv, Ending, lifeVars,
        taskVars, linkVars
  <2>8. Subs'
    BY <1>3
    DEF MqttStopped, IInv, Data, Conn, Placed, Running, Subs, LifeInv, TaskInv, lifeVars,
        taskVars, linkVars
  <2> QED  BY <2>1, <2>2, <2>3, <2>4, <2>5, <2>6, <2>7, <2>8 DEF IInv
<1>4. CASE GiveUp
  BY <1>4
  DEF GiveUp, IInv, Data, Flags, Placed, LifeInv, Closed, TaskInv, Conn, Subs,
      Running, Below, Ending, Last, lifeVars, taskVars, linkVars
<1>5. CASE Finish
  BY <1>5
  DEF Finish, IInv, Data, Flags, Placed, LifeInv, Closed, TaskInv, Conn, Subs,
      Running, Below, Ending, Last, lifeVars, taskVars, linkVars
<1>6. CASE \E r \in Names : StopOther(r)
  BY <1>6
  DEF StopOther, IInv, Data, Flags, Placed, LifeInv, Closed, TaskInv, Conn, Subs,
      Running, Below, Ending, Last, lifeVars, taskVars, linkVars
<1> QED  BY <1>1, <1>2, <1>3, <1>4, <1>5, <1>6

\* (bootstrap.py, lifecycle.py, task_manager.py, mqtt/client.py) The invariant holds in every
\* reachable state.
THEOREM Inductive == Spec => []IInv
<1>1. ASSUME Init PROVE IInv
  <2>1. Data
    BY <1>1, ResourceAssumption DEF Init, Data
  <2>2. Placed
    BY <1>1, ResourceAssumption DEF Init, Placed, Running
  <2>3. LifeInv
    BY <1>1 DEF Init, LifeInv, Ending
  <2>4. Flags /\ Conn /\ Subs
    BY <1>1 DEF Init, Flags, Conn, Subs
  <2>5. Closed /\ TaskInv
    BY <1>1 DEF Init, Closed, TaskInv
  <2> QED  BY <2>1, <2>2, <2>3, <2>4, <2>5 DEF IInv
<1>2. ASSUME IInv, [Next]_vars PROVE IInv'
  <2>1. CASE UNCHANGED vars
    BY <1>2, <2>1
    DEF vars, IInv, Data, Flags, Placed, LifeInv, Closed, TaskInv, Conn, Subs, Running,
                      Below, Ending, Last, lifeVars, taskVars, linkVars
  <2>2. CASE Next
    BY <1>2, <2>2, TaskSteps, StartSteps, StopSteps DEF Next, Lifespan
  <2> QED  BY <1>2, <2>1, <2>2
<1> QED  BY <1>1, <1>2, PTL DEF Spec

-----------------------------------------------------------------------------
(* What it gives *)

\* (RuntimeState, TaskManager, MqttClient) Every variable keeps its type, and the runner has a
\* place exactly while its task runs.
THEOREM Typing == Spec => []TypeOK
<1>1. IInv => TypeOK
  BY DEF IInv, Data, Flags, Placed, TypeOK
<1> QED  BY <1>1, Inductive, PTL

\* (start_application, runtime.mark_ready) READY means that everything is up and MQTT has been
\* connected.
THEOREM ReadyIsUp == Spec => []ReadyMeansUp
<1>1. IInv => ReadyMeansUp
  BY ResourceAssumption DEF IInv, Data, LifeInv, Conn, ReadyMeansUp
<1> QED  BY <1>1, Inductive, PTL

\* (sorted by startup_order and shutdown_order) Nothing is up, and no task runs, above something
\* that is down.
THEOREM InOrder == Spec => []DependenciesUp
<1>1. IInv => DependenciesUp
  <2> SUFFICES ASSUME IInv, NEW q \in Names, NEW r \in Names, Order[q] < Order[r],
                      r \in up \/ tasks[r] = "running"
               PROVE  q \in up
    BY DEF DependenciesUp
  <2>1. CASE r \in up
    BY <2>1 DEF IInv, Closed, Below
  <2>2. CASE r \notin up
    \* r is the one the lifespan awaits, to start it: a stop awaits what is still up
    <3>1. r = cur /\ tasks[r] = "running"
      BY <2>2 DEF IInv, TaskInv
    <3>2. pc \in {"starting", "joining"}
      BY <2>2, <3>1, ResourceAssumption DEF IInv, Data, LifeInv, Ending, Last
    <3> QED  BY <3>1, <3>2, ResourceAssumption DEF IInv, LifeInv, Below
  <2> QED  BY <2>1, <2>2
<1> QED  BY <1>1, Inductive, PTL

\* (the ends of start_application and shutdown_application) Nothing is left behind.
THEOREM NothingLeft == Spec => []NoOrphans
<1>1. ASSUME IInv, pc \in {"failed", "ended"}
      PROVE  up = {} /\ ~connected /\ ~client /\ \A r \in Names : tasks[r] # "running"
  <2>1. up = {} /\ cur = NoName
    BY <1>1 DEF IInv, LifeInv
  <2>2. \A r \in Names : tasks[r] # "running"
    BY <1>1, <2>1, ResourceAssumption DEF IInv, TaskInv
  <2>3. link = "off"
    BY <1>1, <2>2, ResourceAssumption DEF IInv, Placed, Running
  <2> QED  BY <1>1, <2>1, <2>2, <2>3 DEF IInv, Conn
<1>2. IInv => NoOrphans
  BY <1>1 DEF NoOrphans
<1> QED  BY <1>2, Inductive, PTL

\* (MqttClient._subscribe_all) Connected means that this connection has every topic.
THEOREM Subscribed == Spec => []ConnectedMeansSubscribed
<1>1. IInv => ConnectedMeansSubscribed
  BY DEF IInv, Conn, Subs, Placed, ConnectedMeansSubscribed
<1> QED  BY <1>1, Inductive, PTL
=============================================================================
