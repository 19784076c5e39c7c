--------------------------- MODULE DeskController ---------------------------
(***************************************************************************)
(* The movement intent of the desk: class DeskController of                *)
(* src/smart_desk/modules/desk/controller.py.                              *)
(*                                                                         *)
(* One asyncio loop runs a runner task (Runner), the lifecycle that starts *)
(* and stops the controller (Life) and any number of API requests (Users). *)
(* Code between two suspension points is one step. What suspends: waiting  *)
(* for _intent_lock (intentQ) or _relay_io_lock (relayQ), both FIFO and    *)
(* taken without suspending when free; a publish in flight; the task that  *)
(* _stop_motion creates, before it first runs ("stopTask"); polling for a  *)
(* fresh STOP ("stopWait"). _command_lock never spans one of these, so it  *)
(* is always free and is left out.                                         *)
(*                                                                         *)
(* Abstractions. A timestamp is kept as what it is compared with: fresh    *)
(* holds the observers for whom the relay snapshot is newer than their     *)
(* baseline, newer those for whom the height is, overdue the deadlines     *)
(* that have passed. The generation is the set current of threads whose    *)
(* captured generation is still that of control. The acknowledgement,      *)
(* refresh, settling and startup deadlines may expire whenever they run.   *)
(***************************************************************************)
EXTENDS LockQueue

CONSTANTS
    Users, Runner, Life,            \* the threads
    Requests,                       \* what a user may ask for
    OperationMin, OperationMax,     \* settings.operation_min_cm, _max_cm
    Tolerance, FineDistance,        \* target_tolerance_cm, fine_approach_distance_cm
    Heights,                        \* valid readings of the height sensor
    Reports                         \* what the relay may report

Directions == {"UP", "DOWN"}
Threads == Users \cup {Runner, Life}
Baselines == {"base", "seen", "lastStop", "unexpected"}    \* the observers of the relay
NoTarget == 0
NoRequest == [op |-> "none", amount |-> 0, dir |-> "none"]

ASSUME RangeAssumption ==
    /\ OperationMin \in Nat \ {0} /\ OperationMax \in Nat
    /\ OperationMin < OperationMax
    /\ Tolerance \in Nat /\ FineDistance \in Nat
    /\ Heights \subseteq Nat /\ Heights # {}
    /\ Reports \subseteq [state : {"STOP", "UP", "DOWN"},
                          health : {"ready", "busy", "waiting", "refused", "unusable"}]

ASSUME ThreadAssumption ==
    /\ Runner \notin Users /\ Life \notin Users
    /\ Runner # Life
    /\ Threads \cap Baselines = {}         \* every thread waits with a baseline of its own

ASSUME RequestAssumption ==
    Requests \subseteq [op : {"target", "adjust", "hold", "stop"},
                        amount : Nat, dir : Directions \cup {"none"}]

VARIABLES
    control,    \* _control: the published state and the intent behind it
    running, closing, stopping, startup,
                \* _running, _closing, _stop_in_progress, _startup_wake_pending
    overdue,    \* deadlines passed: "hold", "target", "wake"
    firstPulse, \* _first_pulse_sent_at is not None
    confirmed,  \* _relay_direction_confirmed
    fresh,      \* baselines older than the relay snapshot
    newer,      \* baselines older than the height snapshot: "wake", "fine"
    current,    \* threads that hold the present generation
    pc, req, why, pulse,        \* program counters and locals
    intentQ, relayQ,            \* holder and waiters of the two locks
    relay, height,              \* snapshots of RelayClient and the height monitor
    wire        \* kind of the last command handed to MQTT

lifeVars == <<running, closing, stopping, startup>>
trackVars == <<firstPulse, confirmed, fresh>>
intentVars == <<control, current, overdue, newer>>
threadVars == <<pc, req, why, pulse, intentQ, relayQ>>
envVars == <<relay, height>>
vars == <<lifeVars, trackVars, intentVars, threadVars, envVars, wire>>

-----------------------------------------------------------------------------
(* What a step reads *)

\* Mutant of Alive: shutdown is not looked at.
AliveWhileClosing == running
Alive == running /\ ~closing
Active == control.mode # "NONE"
Online == height.status = "ONLINE"
Failed == {"ERROR", "LOST"}     \* HeightStatus.ERROR, by the age of the last reading
Moving == relay.state \in Directions

\* _require_relay_available_for_wake, _require_relay_ready
Usable == relay.health \in {"ready", "busy", "waiting"}
Ready == relay.health \in {"ready", "busy"}

\* _require_direction_allowed
Allowed(d) == \/ d = "UP" /\ height.value < OperationMax
              \/ d = "DOWN" /\ height.value > OperationMin

\* _admit_wake on a stale or cached basis; _admit_motion. The caller has just
\* excluded a STOP in progress.
WakeAdmitted == Alive /\ height.status = "STALE" /\ Usable /\ relay.state = "STOP"
MotionAdmitted == Alive /\ Online /\ Ready /\ relay.state = "STOP"

Gap(g) == IF g >= height.value THEN g - height.value ELSE height.value - g
Reached(g) == Gap(g) <= Tolerance
Toward(g) == IF g > height.value THEN "UP" ELSE "DOWN"
Midway == IF 2 * height.value < OperationMin + OperationMax THEN "UP" ELSE "DOWN"

Valid(g) == OperationMin <= g /\ g <= OperationMax
Opposite(d) == CHOOSE e \in Directions : e # d

StopPcs == {"stopTask", "stopSend", "stopWait"}
\* Mutant of PlainStop: the reset keeps the relay's word for a direction.
StopAsDirection(p) == [public |-> p, mode |-> "NONE", phase |-> "none",
                       target |-> NoTarget, dir |-> "STOP", awaiting |-> FALSE]
PlainStop(p) == [public |-> p, mode |-> "NONE", phase |-> "none",
                 target |-> NoTarget, dir |-> "none", awaiting |-> FALSE]

-----------------------------------------------------------------------------
(* Pieces of a step *)

\* Mutant of Answer: an early return that keeps the lock.
AnswerHoldingLock(t) == /\ pc' = [pc EXCEPT ![t] = "idle"]
                        /\ req' = [req EXCEPT ![t] = NoRequest]
                        /\ UNCHANGED intentQ

\* The coroutine returns or raises: async with releases the intent lock.
Answer(t) == /\ pc' = [pc EXCEPT ![t] = "idle"]
             /\ req' = [req EXCEPT ![t] = NoRequest]
             /\ intentQ' = IF Holds(intentQ, t) THEN Tail(intentQ) ELSE intentQ

\* It suspends at p with the intent lock in its hands (taken just now if free).
Suspend(t, r, p) == /\ pc' = [pc EXCEPT ![t] = p]
                    /\ req' = [req EXCEPT ![t] = r]
                    /\ intentQ' = IF intentQ = <<>> THEN <<t>> ELSE intentQ

\* _stop_motion: a task that will run _stop_and_confirm.
StopMotion(t, r, w) == /\ Suspend(t, r, "stopTask")
                       /\ why' = [why EXCEPT ![t] = w]

\* _initialize_relay_tracking and _reset_motion_fields
StartTracking(f) == /\ firstPulse' = FALSE /\ confirmed' = FALSE
                    /\ fresh' = f \ {"base", "seen"}
ResetMotion(f) == /\ firstPulse' = FALSE /\ confirmed' = FALSE
                  /\ fresh' = f \cup {"base", "seen"}
                  /\ overdue' = {}
                  /\ newer' = {"wake", "fine"}

\* Mutant of Invalidate: the intent survives its cancellation.
RelabelOnly(f) == /\ control' = [control EXCEPT !.public = "STOPPED"]
                  /\ current' = {}
                  /\ startup' = FALSE
                  /\ ResetMotion(f)

\* _invalidate_motion_locked
Invalidate(f) == /\ control' = PlainStop("STOPPED")
                 /\ current' = {}
                 /\ startup' = FALSE
                 /\ ResetMotion(f)

\* _begin_wake up to its publish.
BeginWake(t, r, m, d, g) ==
    /\ control' = [public |-> "WAKING", mode |-> m,
                   phase |-> IF m = "TARGET" THEN "CONTINUOUS" ELSE "none",
                   target |-> g, dir |-> d, awaiting |-> TRUE]
    /\ current' = {t}
    /\ overdue' = {}
    /\ newer' = {"fine"}
    /\ StartTracking(fresh \ {t})
    /\ Suspend(t, r, "wakeSend")
    /\ relayQ' = Append(relayQ, t)
    /\ UNCHANGED why

\* The tail of _set_target and of _hold that installs a new intent.
BeginMotion(t, c) == /\ control' = c
                     /\ current' = {}
                     /\ overdue' = {}
                     /\ newer' = {"wake", "fine"}
                     /\ StartTracking(fresh \ {t})
                     /\ Answer(t)
                     /\ UNCHANGED why

\* The synchronous part of _stop_and_confirm when no STOP is in progress.
TakeStop(t) == /\ stopping' = TRUE
               /\ Invalidate(fresh \ {t, "lastStop"})
               /\ relayQ' = Append(relayQ, t)

\* The request returns or raises without a new intent; c is what control becomes.
Return(t, c) == /\ control' = c
                /\ fresh' = fresh \ {t}
                /\ Answer(t)
                /\ UNCHANGED <<current, overdue, newer, firstPulse, confirmed, why>>

-----------------------------------------------------------------------------
(* set_target, increase_target, decrease_target *)

\* _set_target after its transition stop, if one was needed; control is c by then.
PursueTarget(t, r, c) ==
    LET g == r.amount
        d == Toward(g)
    IN \/ /\ WakeAdmitted /\ ~Reached(g) /\ Allowed(d)
          /\ BeginWake(t, r, "TARGET", d, g)
       \/ /\ \/ /\ WakeAdmitted /\ Reached(g)       \* _set_sensor_check_needed
                /\ control' = PlainStop("IDLE")
                /\ current' = {}
                /\ ResetMotion(fresh \ {t})
                /\ Answer(t)
                /\ UNCHANGED why
             \/ /\ MotionAdmitted /\ Reached(g)
                /\ control' = c
                /\ fresh' = fresh \ {t}
                /\ StopMotion(t, r, "plain")
                /\ UNCHANGED <<current, overdue, newer, firstPulse, confirmed>>
             \/ /\ MotionAdmitted /\ ~Reached(g) /\ Allowed(d)
                /\ BeginMotion(t, [public |-> "MOVING", mode |-> "TARGET",
                                   phase |-> "CONTINUOUS", target |-> g, dir |-> d,
                                   awaiting |-> FALSE])
             \/ /\ \/ ~WakeAdmitted /\ ~MotionAdmitted
                   \/ ~Reached(g) /\ ~Allowed(d)
                /\ Return(t, c)
          /\ UNCHANGED relayQ

\* An invalid number stops what is running and is refused.
Invalid(t, r) == /\ \/ /\ Active
                       /\ StopMotion(t, r, "plain")
                       /\ UNCHANGED <<intentVars, trackVars>>
                    \/ ~Active /\ Return(t, control)
                 /\ UNCHANGED <<lifeVars, relayQ>>

\* _set_target with the goal r.amount.
SetTarget(t, r) ==
    LET same == control.mode = "TARGET" /\ control.target = r.amount
        settled == control.awaiting \/ (same /\ ~stopping)
    IN \/ ~Valid(r.amount) /\ Invalid(t, r)
       \/ /\ Valid(r.amount) /\ ~settled /\ (Active \/ Moving) /\ Alive /\ ~stopping
          /\ TakeStop(t)                            \* _stop_for_transition
          /\ Suspend(t, r, "stopSend")
          /\ why' = [why EXCEPT ![t] = "transition"]
          /\ UNCHANGED <<running, closing>>
       \/ /\ Valid(r.amount)
          /\ startup' = FALSE
          /\ \/ /\ ~settled /\ ~Active /\ ~Moving /\ ~stopping
                /\ PursueTarget(t, r, control)
             \/ /\ \/ settled
                   \/ (Active \/ Moving) /\ ~(Alive /\ ~stopping)
                   \/ stopping
                /\ Return(t, control)
                /\ UNCHANGED relayQ
          /\ UNCHANGED <<running, closing, stopping>>

\* _adjust_target: r.dir is UP for an increase. A goal below zero is as invalid as 0.
Adjusted(r) == IF r.dir = "UP" THEN control.target + r.amount
               ELSE IF control.target >= r.amount THEN control.target - r.amount
               ELSE 0
AdjustTarget(t, r) ==
    \/ r.amount = 0 /\ Invalid(t, r)
    \/ /\ r.amount > 0 /\ control.mode # "TARGET"
       /\ startup' = FALSE
       /\ Return(t, control)
       /\ UNCHANGED <<running, closing, stopping, relayQ>>
    \/ /\ r.amount > 0 /\ control.mode = "TARGET"
       /\ SetTarget(t, [op |-> "target", amount |-> Adjusted(r), dir |-> "none"])

-----------------------------------------------------------------------------
(* hold_up, hold_down, stop_motion *)

ManualIntent(d) == [public |-> "MANUAL", mode |-> "MANUAL", phase |-> "none",
                    target |-> NoTarget, dir |-> d, awaiting |-> FALSE]

\* _hold after its transition stop.
PursueHold(t, r, c) ==
    /\ \/ MotionAdmitted /\ Allowed(r.dir) /\ BeginMotion(t, ManualIntent(r.dir))
       \/ ~(MotionAdmitted /\ Allowed(r.dir)) /\ Return(t, c)
    /\ UNCHANGED relayQ

RefreshHold(t) == /\ overdue' = overdue \ {"hold"}
                  /\ Answer(t)
                  /\ UNCHANGED <<control, current, newer, trackVars, why, relayQ>>

HoldWhileAlive(t, r) ==
    LET same == control.mode = "MANUAL" /\ control.dir = r.dir
        able == Online /\ Ready /\ Allowed(r.dir)
        wakes == ~Online /\ WakeAdmitted /\ Allowed(r.dir)
    IN \/ /\ ~control.awaiting /\ able /\ ~same /\ (Active \/ Moving)
          /\ TakeStop(t)
          /\ Suspend(t, r, "stopSend")
          /\ why' = [why EXCEPT ![t] = "transition"]
       \/ /\ startup' = FALSE
          /\ \/ same /\ (control.awaiting \/ able) /\ RefreshHold(t)
             \/ ~control.awaiting /\ wakes /\ BeginWake(t, r, "MANUAL", r.dir, NoTarget)
             \/ /\ ~control.awaiting /\ able /\ ~Active /\ ~Moving
                /\ PursueHold(t, r, control)
             \/ /\ IF control.awaiting THEN ~same ELSE ~able /\ ~wakes
                /\ Return(t, control)
                /\ UNCHANGED relayQ
          /\ UNCHANGED stopping

Hold(t, r) == \/ /\ ~Alive \/ stopping
                 /\ Return(t, control)
                 /\ UNCHANGED <<lifeVars, relayQ>>
              \/ /\ Alive /\ ~stopping
                 /\ HoldWhileAlive(t, r)
                 /\ UNCHANGED <<running, closing>>

\* A request waits for the intent lock, or gets it at once when it is free. The
\* API admits requests while the application is READY: after start and until the
\* critical runner task fails or shutdown begins.
Admitted == pc[Life] = "up" /\ pc[Runner] # "dead"
Call(u) ==
    /\ pc[u] = "idle" /\ Admitted /\ intentQ # <<>>
    /\ \E r \in Requests : req' = [req EXCEPT ![u] = r]
    /\ pc' = [pc EXCEPT ![u] = "intent"]
    /\ intentQ' = Append(intentQ, u)
    /\ UNCHANGED <<lifeVars, trackVars, intentVars, why, pulse, relayQ, envVars, wire>>

Serve(u, r) ==
    /\ \/ /\ r.op = "stop"
          /\ StopMotion(u, r, "plain")
          /\ UNCHANGED <<intentVars, trackVars, lifeVars, relayQ>>
       \/ r.op = "target" /\ SetTarget(u, r)
       \/ r.op = "adjust" /\ AdjustTarget(u, r)
       \/ r.op = "hold" /\ Hold(u, r)
    /\ UNCHANGED <<pulse, envVars, wire>>

Enter(u) ==
    \/ /\ pc[u] = "idle" /\ Admitted /\ intentQ = <<>>
       /\ \E r \in Requests : Serve(u, r)
    \/ /\ pc[u] = "intent" /\ Holds(intentQ, u)
       /\ Serve(u, req[u])

-----------------------------------------------------------------------------
(* _stop_and_confirm and what follows it *)

\* t creates a stop task outside a request's first segment.
Divert(t, w) == /\ pc' = [pc EXCEPT ![t] = "stopTask"]
                /\ why' = [why EXCEPT ![t] = w]
                /\ UNCHANGED <<req, intentQ>>

\* The caller of t's stop goes on with control = c; ok tells whether the STOP was
\* confirmed. The runner ends when its plain stop fails (the RuntimeError leaves
\* _run_cycle), after one more stop unless closing; a cancelled runner ends too.
RunnerAgain == why[Runner] = "plain" /\ ~closing
\* Mutant of RunnerEnds: the cancellation is lost behind the shield.
SwallowCancel(ok) == why[Runner] = "crash" \/ (why[Runner] = "plain" /\ ~ok)
RunnerEnds(ok) == \/ why[Runner] = "crash" \/ pc[Life] = "closeJoin"
                  \/ why[Runner] = "plain" /\ ~ok
Continue(t, c, ok) ==
    \/ /\ t \in Users /\ why[t] = "transition" /\ ok
       /\ \/ req[t].op = "target" /\ PursueTarget(t, req[t], c)
          \/ req[t].op = "hold" /\ PursueHold(t, req[t], c)
    \/ /\ t \in Users /\ ~(why[t] = "transition" /\ ok)
       /\ Return(t, c)
       /\ relayQ' = Without(relayQ, t)
    \/ /\ t = Runner
       /\ IF RunnerAgain /\ ~ok
            THEN Divert(t, "crash")
            ELSE /\ pc' = [pc EXCEPT ![t] = IF RunnerEnds(ok) THEN "dead" ELSE "idle"]
                 /\ intentQ' = IF Holds(intentQ, t) THEN Tail(intentQ) ELSE intentQ
                 /\ UNCHANGED <<req, why>>
       /\ control' = c
       /\ fresh' = fresh \ {t}
       /\ relayQ' = Without(relayQ, t)
       /\ UNCHANGED <<current, overdue, newer, firstPulse, confirmed>>

BeginStop(t) ==
    /\ pc[t] = "stopTask"
    /\ \/ /\ stopping                           \* the early return
          /\ Continue(t, control, TRUE)
          /\ UNCHANGED lifeVars
       \/ /\ ~stopping
          /\ TakeStop(t)
          /\ pc' = [pc EXCEPT ![t] = "stopSend"]
          /\ UNCHANGED <<running, closing, req, why, intentQ>>
    /\ UNCHANGED <<pulse, envVars, wire>>

\* Mutant of FinishStop: the outcome of the STOP itself is not looked at.
IgnoreStopError(t, ok) ==
    LET p == IF why[t] \in {"plain", "transition"} THEN "STOPPED" ELSE "ERROR"
    IN /\ stopping' = FALSE
       /\ Continue(t, [control EXCEPT !.public = p], ok)
       /\ UNCHANGED <<running, closing, startup, pulse, envVars>>
FinishStop(t, ok) ==
    LET p == IF ok /\ why[t] \in {"plain", "transition"} THEN "STOPPED" ELSE "ERROR"
    IN /\ stopping' = FALSE
       /\ Continue(t, [control EXCEPT !.public = p], ok)
       /\ UNCHANGED <<running, closing, startup, pulse, envVars>>

\* A publish that fails or times out may have handed its message over or not.
SendStop(t) ==
    /\ pc[t] = "stopSend" /\ Holds(relayQ, t)
    /\ \/ /\ wire' = "STOP"
          /\ relayQ' = Tail(relayQ)
          /\ pc' = [pc EXCEPT ![t] = "stopWait"]
          /\ UNCHANGED <<lifeVars, trackVars, intentVars, req, why, pulse,
                         intentQ, envVars>>
       \/ /\ wire' \in {wire, "STOP"}
          /\ FinishStop(t, FALSE)

\* _wait_for_fresh_stop returns: on the live STOP, or at its deadline, after which
\* it does not look again.
\* Mutant of StopSeen: a status from before the STOP will do.
AnyStop(t) == relay.state = "STOP" /\ relay.health # "refused"
StopSeen(t) == relay.state = "STOP" /\ t \in fresh /\ relay.health # "refused"
AwaitStop(t) ==
    /\ pc[t] = "stopWait"
    /\ \/ StopSeen(t) /\ FinishStop(t, TRUE)
       \/ FinishStop(t, FALSE)
    /\ UNCHANGED wire

SendWake(t) ==
    /\ pc[t] = "wakeSend" /\ Holds(relayQ, t)
    /\ relayQ' = Tail(relayQ)
    /\ \/ wire' = "WAKE" /\ Answer(t) /\ UNCHANGED why
       \/ /\ wire' \in {wire, "WAKE"}
          /\ \/ t \in current /\ Divert(t, "error")
             \/ t \notin current /\ Answer(t) /\ UNCHANGED why
    /\ UNCHANGED <<lifeVars, trackVars, intentVars, pulse, envVars>>

-----------------------------------------------------------------------------
(* The runner: one cycle per wake-up *)

CycleOf(m) == pc[Runner] = "idle" /\ Alive /\ ~stopping /\ control.mode \in m
QueueForStartup ==
    /\ CycleOf({"NONE"}) /\ intentQ # <<>>
    /\ pc' = [pc EXCEPT ![Runner] = "intent"]
    /\ intentQ' = Append(intentQ, Runner)
    /\ UNCHANGED <<lifeVars, trackVars, intentVars, req, why, pulse, relayQ, envVars, wire>>

\* _run_startup_wake_cycle and, without a pending wake, _watch_inactive_relay,
\* which runs after the lock is released, still in the same step.
Unexpected == Moving /\ ~stopping /\ {"lastStop", "unexpected"} \subseteq fresh
Watch == /\ IF Unexpected
              THEN /\ fresh' = fresh \ {"unexpected"}
                   /\ pc' = [pc EXCEPT ![Runner] = "stopTask"]
                   /\ why' = [why EXCEPT ![Runner] = "error"]
              ELSE /\ pc' = [pc EXCEPT ![Runner] = "idle"]
                   /\ UNCHANGED <<fresh, why>>
         /\ intentQ' = IF Holds(intentQ, Runner) THEN Tail(intentQ) ELSE intentQ
         /\ UNCHANGED <<firstPulse, confirmed, intentVars, lifeVars, req, relayQ>>

StartupWake ==
    \/ /\ ~stopping /\ WakeAdmitted /\ Allowed(Midway)
       /\ startup' = FALSE
       /\ BeginWake(Runner, NoRequest, "WAKE", Midway, NoTarget)
       /\ UNCHANGED <<running, closing, stopping>>
    \/ /\ \/ /\ Online \/ ~Alive \/ stopping
             /\ startup' = FALSE
             /\ UNCHANGED control
          \/ /\ Alive /\ ~stopping
             /\ ~Online         \* no basis, past the deadline or at a boundary
             /\ startup' = FALSE
             /\ control' = [control EXCEPT !.public = "IDLE"]
          \/ /\ Alive /\ ~stopping
             /\ height.status = "STALE" /\ ~WakeAdmitted
             /\ UNCHANGED <<startup, control>>
       /\ Answer(Runner)
       /\ UNCHANGED <<running, closing, stopping, current, overdue, newer,
                      trackVars, why, relayQ>>

IdleCycle ==
    /\ \/ CycleOf({"NONE"}) /\ intentQ = <<>>
       \/ pc[Runner] = "intent" /\ Holds(intentQ, Runner)
    /\ \/ startup /\ StartupWake
       \/ ~startup /\ Watch
    /\ UNCHANGED <<pulse, envVars, wire>>

\* _run_wake_cycle, _activate_after_wake
WakeFault == \/ "wake" \in overdue
             \/ height.status \in Failed
             \/ Online /\ "wake" \in newer /\ ~Usable
\* Mutant of HoldLost: the watchdog sleeps while the sensor is woken.
HoldLostInMotion == /\ control.mode = "MANUAL" /\ ~control.awaiting
                    /\ "hold" \in overdue
HoldLost == control.mode = "MANUAL" /\ "hold" \in overdue
Awake == /\ Online /\ "wake" \in newer
         /\ relay.state = "STOP" /\ relay.health = "ready"

Activate ==
    LET g == control.target
        d == IF control.mode = "TARGET" THEN Toward(g) ELSE control.dir
    IN \/ /\ control.mode = "WAKE"
          /\ control' = PlainStop("IDLE")
          /\ current' = {}
          /\ ResetMotion(fresh)
          /\ UNCHANGED <<pc, req, why, intentQ>>
       \/ /\ control.mode = "TARGET" /\ Reached(g)
          /\ Divert(Runner, "plain")
          /\ UNCHANGED <<intentVars, trackVars>>
       \/ /\ control.mode \in {"TARGET", "MANUAL"}
          /\ ~(control.mode = "TARGET" /\ Reached(g))
          /\ IF Allowed(d)
               THEN /\ control' = [control EXCEPT
                          !.public = IF control.mode = "TARGET" THEN "MOVING" ELSE "MANUAL",
                          !.dir = d, !.awaiting = FALSE]
                    /\ StartTracking(fresh)
                    /\ UNCHANGED <<current, overdue, newer, pc, req, why, intentQ>>
               ELSE /\ Divert(Runner, "error")
                    /\ UNCHANGED <<intentVars, trackVars>>

WakeCycle ==
    /\ CycleOf({"WAKE", "TARGET", "MANUAL"}) /\ control.awaiting
    /\ \/ /\ WakeFault /\ ("wake" \in overdue \/ ~HoldLost)
          /\ Divert(Runner, "error")
          /\ UNCHANGED <<intentVars, trackVars>>
       \/ /\ HoldLost /\ "wake" \notin overdue
          /\ Divert(Runner, "plain")
          /\ UNCHANGED <<intentVars, trackVars>>
       \/ ~WakeFault /\ ~HoldLost /\ Awake /\ Activate
    /\ UNCHANGED <<lifeVars, pulse, relayQ, envVars, wire>>

\* _evaluate_relay_status: a first pulse unanswered for too long may be noticed
\* in any cycle.
Unseen == control.dir # "none" /\ "seen" \in fresh
Contradiction ==
    \/ control.dir # "none" /\ "base" \notin fresh /\ firstPulse
    \/ Unseen /\ relay.state = Opposite(control.dir)
    \/ Unseen /\ relay.state = "STOP" /\ (confirmed \/ firstPulse)
Consistent == \/ ~Unseen
              \/ relay.state = control.dir
              \/ relay.state = "STOP" /\ ~confirmed
Evaluate == /\ fresh' = IF Unseen THEN fresh \ {"seen"} ELSE fresh
            /\ confirmed' = (confirmed \/ (Unseen /\ relay.state = control.dir))
            /\ UNCHANGED firstPulse

Fault == ~Online \/ ~Ready \/ (control.mode = "TARGET" /\ "target" \in overdue)
Needed == IF control.mode = "TARGET" THEN Toward(control.target) ELSE control.dir

\* Mutant of MotionCycle: _run_cycle goes on after _run_wake_cycle.
CycleWhileAwaiting == CycleOf({"TARGET", "MANUAL"})
MotionCycle == /\ CycleOf({"TARGET", "MANUAL"}) /\ ~control.awaiting
Steady == MotionCycle /\ ~Fault /\ ~HoldLost /\ Consistent
Arrived == control.mode = "TARGET" /\ Reached(control.target)

AbandonCycle ==
    /\ \/ MotionCycle /\ Fault /\ Divert(Runner, "error") /\ UNCHANGED trackVars
       \/ MotionCycle /\ ~Fault /\ HoldLost /\ Divert(Runner, "plain") /\ UNCHANGED trackVars
       \/ /\ Evaluate
          /\ \/ Steady /\ Arrived /\ Divert(Runner, "plain")
             \/ /\ MotionCycle /\ ~Fault /\ ~HoldLost
                /\ \/ Contradiction
                   \/ Consistent /\ ~Arrived /\ ~Allowed(Needed)
                   \/ /\ Consistent /\ ~Arrived
                      /\ control.phase = "SETTLING" /\ relay.state # "STOP"
                /\ Divert(Runner, "error")
    /\ UNCHANGED <<lifeVars, intentVars, pulse, relayQ, envVars, wire>>

\* _publish_pulse looks at the intent again when it has the relay lock.
Recheck(d) == control.mode # "NONE" /\ control.dir = d /\ ~closing /\ ~stopping
NoPulse == [dir |-> "none", fine |-> FALSE]
Publish(d, fine) ==
    /\ pulse' = [dir |-> d, fine |-> fine]
    /\ current' = current \cup {Runner}
    /\ newer' = IF fine THEN newer \ {"fine"} ELSE newer
    /\ relayQ' = Append(relayQ, Runner)
    /\ IF relayQ = <<>>
         THEN pc' = [pc EXCEPT ![Runner] = "pulseSend"] /\ wire' = d
         ELSE pc' = [pc EXCEPT ![Runner] = "pulseWait"] /\ UNCHANGED wire
SkipPublish == UNCHANGED <<pulse, current, newer, relayQ, pc, wire>>

Going == Steady /\ ~Arrived /\ Allowed(Needed)
Near == control.dir # Needed \/ Gap(control.target) <= FineDistance
Cruising == control.mode = "MANUAL" \/ (control.phase = "CONTINUOUS" /\ ~Near)

\* Nothing is due: the refresh interval, the settling delay or a new observation is
\* waited for. The status is consumed all the same.
QuietCycle == /\ Going /\ Evaluate
              /\ Cruising \/ control.phase = "SETTLING"
              /\ UNCHANGED <<lifeVars, intentVars, threadVars, envVars, wire>>

PulseCycle ==
    /\ Going /\ Evaluate /\ Cruising
    /\ Publish(Needed, FALSE)
    /\ UNCHANGED <<lifeVars, control, overdue, req, why, intentQ, envVars>>

\* SETTLING whose delay is over turns to FINE and may pulse in the same cycle. A
\* FINE intent keeps its direction, and _publish_pulse drops a pulse the other way.
FineCycle ==
    /\ Going /\ Evaluate
    /\ \/ control.phase = "FINE" /\ UNCHANGED control
       \/ /\ control.phase = "SETTLING" /\ relay.state = "STOP"
          /\ control' = [control EXCEPT !.phase = "FINE", !.dir = Needed]
    /\ IF "fine" \in newer /\ (control'.dir = Needed \/ relayQ # <<>>)
         THEN Publish(Needed, TRUE)
         ELSE SkipPublish
    /\ UNCHANGED <<lifeVars, overdue, req, why, intentQ, envVars>>

\* _enter_settling
SettleCycle ==
    /\ Going
    /\ control.phase = "CONTINUOUS" /\ Near
    /\ control' = [control EXCEPT !.phase = "SETTLING", !.dir = "none"]
    /\ current' = {}
    /\ fresh' = IF Unseen THEN fresh \ {"seen"} ELSE fresh
    /\ confirmed' = FALSE
    /\ relayQ' = Append(relayQ, Runner)
    /\ pc' = [pc EXCEPT ![Runner] = "settleSend"]
    /\ UNCHANGED <<lifeVars, firstPulse, overdue, newer, req, why, pulse, intentQ,
                   envVars, wire>>

SendSettle ==
    /\ pc[Runner] = "settleSend" /\ Holds(relayQ, Runner)
    /\ relayQ' = Tail(relayQ)
    /\ \/ /\ wire' = "STOP"
          /\ pc' = [pc EXCEPT ![Runner] = "idle"]
          /\ UNCHANGED <<req, why, intentQ>>
       \/ wire' \in {wire, "STOP"} /\ Divert(Runner, "error")
    /\ UNCHANGED <<lifeVars, trackVars, intentVars, pulse, envVars>>

GrantPulse ==
    /\ pc[Runner] = "pulseWait" /\ Holds(relayQ, Runner)
    /\ IF Runner \in current /\ Recheck(pulse.dir)
         THEN /\ wire' = pulse.dir
              /\ pc' = [pc EXCEPT ![Runner] = "pulseSend"]
              /\ UNCHANGED <<relayQ, current, newer, pulse>>
         ELSE /\ relayQ' = Tail(relayQ)
              /\ pc' = [pc EXCEPT ![Runner] = "idle"]
              /\ current' = current \ {Runner}
              /\ newer' = IF pulse.fine THEN newer \cup {"fine"} ELSE newer
              /\ pulse' = NoPulse
              /\ UNCHANGED wire
    /\ UNCHANGED <<lifeVars, trackVars, control, overdue, req, why, intentQ, envVars>>

\* The publish returns; its result counts only for the generation that asked for it.
SendPulse ==
    /\ pc[Runner] = "pulseSend"
    /\ relayQ' = Tail(relayQ)
    /\ pulse' = NoPulse
    /\ current' = current \ {Runner}
    /\ \/ /\ Runner \in current
          /\ firstPulse' = TRUE
          /\ control' = IF pulse.fine
                          THEN [control EXCEPT !.phase = "SETTLING", !.dir = "none"]
                          ELSE control
          /\ pc' = [pc EXCEPT ![Runner] = "idle"]
          /\ UNCHANGED <<req, why, intentQ>>
       \/ /\ Runner \in current                 \* _record_pulse_failure
          /\ Divert(Runner, "error")
          /\ UNCHANGED <<firstPulse, control>>
       \/ /\ Runner \notin current
          /\ pc' = [pc EXCEPT ![Runner] = "idle"]
          /\ UNCHANGED <<req, why, intentQ, firstPulse, control>>
    /\ UNCHANGED <<lifeVars, confirmed, fresh, overdue, newer, envVars, wire>>

RunnerCycle == \/ QueueForStartup \/ IdleCycle \/ WakeCycle \/ AbandonCycle
               \/ QuietCycle \/ PulseCycle \/ FineCycle \/ SettleCycle

-----------------------------------------------------------------------------
(* start and stop *)

Start ==
    /\ pc[Life] = "off"
    /\ running' = TRUE /\ closing' = FALSE /\ stopping' = TRUE
    /\ control' = PlainStop("IDLE")
    /\ current' = {}
    /\ ResetMotion(fresh \ {Life})
    /\ pc' = [pc EXCEPT ![Life] = "startSend", ![Runner] = "idle"]
    /\ relayQ' = Append(relayQ, Life)
    /\ UNCHANGED <<startup, req, why, pulse, intentQ, envVars, wire>>

\* The end of start, with _register_startup_wake.
Started(ok) ==
    /\ stopping' = FALSE
    /\ control' = [control EXCEPT !.public = IF ok THEN "IDLE" ELSE "ERROR"]
    /\ startup' = (ok /\ height.status = "STALE" /\ Allowed(Midway))
    /\ pc' = [pc EXCEPT ![Life] = "up"]
    /\ fresh' = fresh \ {Life}
    /\ relayQ' = Without(relayQ, Life)
    /\ UNCHANGED <<running, closing, current, overdue, newer, firstPulse, confirmed,
                   req, why, pulse, intentQ, envVars>>

SendStart ==
    /\ pc[Life] = "startSend" /\ Holds(relayQ, Life)
    /\ \/ /\ wire' = "STOP"
          /\ relayQ' = Tail(relayQ)
          /\ pc' = [pc EXCEPT ![Life] = "startWait"]
          /\ UNCHANGED <<lifeVars, trackVars, intentVars, req, why, pulse,
                         intentQ, envVars>>
       \/ wire' \in {wire, "STOP"} /\ Started(FALSE)
AwaitStart == /\ pc[Life] = "startWait"
              /\ \/ StopSeen(Life) /\ Started(TRUE)
                 \/ Started(FALSE)
              /\ UNCHANGED wire

Close ==
    /\ pc[Life] = "up"
    /\ closing' = TRUE /\ stopping' = TRUE
    /\ Invalidate(fresh)
    /\ relayQ' = Append(relayQ, Life)
    /\ pc' = [pc EXCEPT ![Life] = "closeSend"]
    /\ UNCHANGED <<running, req, why, pulse, intentQ, envVars, wire>>

\* The final STOP is sent or has failed, and the runner is cancelled where it
\* waits. A stop task of its own is shielded: the runner ends when that does.
SendClose ==
    /\ pc[Life] = "closeSend" /\ Holds(relayQ, Life)
    /\ \/ wire' = "STOP" /\ why' = [why EXCEPT ![Life] = "plain"]
       \/ wire' \in {wire, "STOP"} /\ why' = [why EXCEPT ![Life] = "error"]
    /\ pc' = [pc EXCEPT ![Life] = "closeJoin",
                        ![Runner] = IF @ \in StopPcs THEN @ ELSE "dead"]
    /\ IF pc[Runner] \in StopPcs
         THEN relayQ' = Tail(relayQ) /\ UNCHANGED <<intentQ, pulse>>
         ELSE /\ relayQ' = Without(Tail(relayQ), Runner)
              /\ intentQ' = Without(intentQ, Runner)
              /\ pulse' = NoPulse
    /\ UNCHANGED <<lifeVars, trackVars, intentVars, req, envVars>>

Closed ==
    /\ pc[Life] = "closeJoin" /\ pc[Runner] = "dead"
    /\ running' = FALSE /\ stopping' = FALSE
    /\ control' = [control EXCEPT
                     !.public = IF why[Life] = "plain" THEN "STOPPED" ELSE "ERROR"]
    /\ pc' = [pc EXCEPT ![Life] = "down"]
    /\ UNCHANGED <<closing, startup, trackVars, current, overdue, newer, req, why,
                   pulse, intentQ, relayQ, envVars, wire>>

-----------------------------------------------------------------------------
(* The snapshots and the clock move on their own *)

Listeners == {t \in Threads : pc[t] \in {"stopSend", "stopWait", "startSend", "startWait"}}
Report == /\ relay' \in Reports
          /\ fresh' = Baselines \cup Listeners
          /\ UNCHANGED <<lifeVars, firstPulse, confirmed, intentVars, threadVars,
                         height, wire>>
\* The status gets older than relay_stale_after_seconds, or an invalid one arrives.
ReportLost == /\ relay.health \notin {"none", "unusable"}
              /\ relay' = [relay EXCEPT !.health = "unusable"]
              /\ UNCHANGED <<lifeVars, trackVars, intentVars, threadVars, height, wire>>

Observe == /\ height.status \notin Failed
           /\ \E h \in Heights : height' = [status |-> "ONLINE", value |-> h]
           /\ newer' = {"wake", "fine"}
           /\ UNCHANGED <<lifeVars, trackVars, control, current, overdue, threadVars,
                          relay, wire>>
\* Readings get stale; the serial source fails (ERROR while the last reading is
\* recent, LOST after that) and comes back. STALE stands for SENSOR_SLEEPING too,
\* the status of a value read from the cache.
SensorSteps == {<<"ONLINE", "STALE">>, <<"ONLINE", "ERROR">>, <<"ERROR", "ONLINE">>,
                <<"ERROR", "LOST">>, <<"LOST", "STALE">>, <<"STALE", "LOST">>}
SensorStep == /\ \E e \in SensorSteps : /\ height.status = e[1]
                                        /\ height' = [height EXCEPT !.status = e[2]]
              /\ UNCHANGED <<lifeVars, trackVars, intentVars, threadVars, relay, wire>>

Elapse == /\ \/ control.mode = "MANUAL" /\ overdue' = overdue \cup {"hold"}
             \/ control.mode = "TARGET" /\ overdue' = overdue \cup {"target"}
             \/ control.awaiting /\ overdue' = overdue \cup {"wake"}
          /\ UNCHANGED <<lifeVars, trackVars, control, current, newer, threadVars,
                         envVars, wire>>

-----------------------------------------------------------------------------
Init ==
    /\ control = PlainStop("IDLE")
    /\ running = FALSE /\ closing = FALSE /\ stopping = FALSE /\ startup = FALSE
    /\ overdue = {} /\ firstPulse = FALSE /\ confirmed = FALSE
    /\ fresh = Baselines /\ newer = {"wake", "fine"} /\ current = {}
    /\ pc = [t \in Threads |-> IF t \in Users THEN "idle" ELSE "off"]
    /\ req = [t \in Threads |-> NoRequest]
    /\ why = [t \in Threads |-> "plain"]
    /\ pulse = NoPulse
    /\ intentQ = <<>> /\ relayQ = <<>>
    /\ relay = [state |-> "none", health |-> "none"]
    /\ height \in [status : {"NONE", "STALE"}, value : Heights]
    /\ wire = "none"

StopStep(t) == BeginStop(t) \/ SendStop(t) \/ AwaitStop(t)
UserStep(u) == Enter(u) \/ StopStep(u) \/ SendWake(u)
RunnerStep == \/ RunnerCycle \/ StopStep(Runner) \/ SendWake(Runner)
              \/ GrantPulse \/ SendPulse \/ SendSettle
LifeStep == Start \/ SendStart \/ AwaitStart \/ Close \/ SendClose \/ Closed
Environment == Report \/ ReportLost \/ Observe \/ SensorStep \/ Elapse

Next == \/ \E u \in Users : Call(u) \/ UserStep(u)
        \/ RunnerStep \/ LifeStep \/ Environment

Spec == Init /\ [][Next]_vars

\* The loop runs what is ready; a publish ends at its timeout and a wait at its
\* deadline. No request, status, reading or shutdown has to come.
Proceeds(u) == (pc[u] = "intent" /\ Enter(u)) \/ StopStep(u) \/ SendWake(u)
Fairness == /\ \A u \in Users : WF_vars(Proceeds(u))
            /\ WF_vars(RunnerStep)
            /\ WF_vars(Start \/ SendStart \/ AwaitStart \/ SendClose \/ Closed)
FairSpec == Spec /\ Fairness

-----------------------------------------------------------------------------
Publics == {"IDLE", "WAKING", "MOVING", "MANUAL", "STOPPED", "ERROR"}
Phases == {"none", "CONTINUOUS", "SETTLING", "FINE"}
Modes == {"NONE", "WAKE", "TARGET", "MANUAL"}
Reasons == {"plain", "error", "transition", "crash"}
Pcs == {"off", "idle", "dead", "up", "down", "intent", "wakeSend", "pulseWait",
        "pulseSend", "settleSend", "startSend", "startWait", "closeSend",
        "closeJoin"} \cup StopPcs

\* Every state of the controller is one its fields and locals can hold; in
\* particular the direction of an intent is never the relay's STOP.
TypeOK ==
    /\ control \in [public : Publics, mode : Modes,
                    phase : Phases, target : Nat, dir : Directions \cup {"none"},
                    awaiting : BOOLEAN]
    /\ {running, closing, stopping, startup, firstPulse, confirmed} \subseteq BOOLEAN
    /\ overdue \subseteq {"hold", "target", "wake"}
    /\ fresh \subseteq Baselines \cup Threads
    /\ newer \subseteq {"wake", "fine"}
    /\ current \subseteq Threads
    /\ pc \in [Threads -> Pcs]
    /\ why \in [Threads -> Reasons]
    /\ pulse.dir \in Directions \cup {"none"} /\ pulse.fine \in BOOLEAN
    /\ intentQ \in Seq(Threads) /\ relayQ \in Seq(Threads)
    /\ relay.state \in {"none", "STOP", "UP", "DOWN"}
    /\ height.value \in Heights
    /\ wire \in {"none", "STOP", "UP", "DOWN", "WAKE"}

\* (_ControlState, get_snapshot) What get_snapshot publishes is the intent the runner acts on: a movement is shown
\* exactly while it is pursued, and a late end of a stop never relabels a newer one.
PublicMatchesIntent ==
    /\ control.mode = "NONE" <=> control.public \in {"IDLE", "STOPPED", "ERROR"}
    /\ control.awaiting <=> control.public = "WAKING"
    /\ control.public = "MANUAL" => control.mode = "MANUAL"
    /\ control.public = "MOVING" => control.mode = "TARGET" /\ Valid(control.target)

\* Why the two invariants above and below hold. A thread in the middle of a stop or
\* of start has stopping set, and two are there only after shutdown has begun.
InStop == {"stopSend", "stopWait", "startSend", "startWait"}
FlagBehindStop == \A t \in Threads : pc[t] \in InStop => stopping \/ closing
OneStop == \A t, u \in Threads : pc[t] \in InStop /\ pc[u] \in InStop /\ t # u => closing
\* Nothing runs before start, and closing stays set from stop on.
LifeFirst == /\ pc[Life] = "off" =>
                 pc[Runner] = "off" /\ ~startup /\ \A u \in Users : pc[u] = "idle"
             /\ pc[Life] \in {"closeSend", "closeJoin", "down"} => closing
\* A transition stop is no task of its own, and comes from a valid request.
TransitionInline ==
    \A t \in Threads : why[t] = "transition" /\ pc[t] \in StopPcs =>
        /\ pc[t] # "stopTask"
        /\ req[t].op = "target" => Valid(req[t].amount)
\* A pending startup wake goes with no intent and no stop but that of shutdown.
StartupAlone ==
    startup => /\ control.mode = "NONE"
               /\ \A t \in Threads : pc[t] \in InStop => closing

\* Once no stop is on its way, a controller without an intent handed over a STOP
\* after its last movement command, or says ERROR. IDLE is no such claim: it also
\* follows a WAKE that was answered and a goal found reached on a stale height.
Quiet == \A t \in Threads :
            pc[t] \notin {"stopTask", "stopSend", "settleSend", "startSend",
                          "closeSend", "closeJoin"}
StopIsLast ==
    Quiet /\ control.mode = "NONE" =>
        wire \in {"none", "STOP"} \/ control.public \in {"ERROR", "IDLE"}

\* No intent is pursued while a STOP is in progress or after shutdown has begun:
\* no interleaving of set_target, _hold and a wake with _stop_and_confirm and stop
\* installs one behind the flags they set.
StopHoldsOff == stopping \/ closing => control.mode = "NONE"

\* (_stop_and_confirm, _wait_for_fresh_stop) STOPPED comes to be shown at rest only
\* when a STOP is the last command handed over, and the status of the relay is a STOP,
\* not refused, that came after the last request for one, however many stops overlap.
\* That this status answers that very STOP is more than the code can tell.
Stopped == control.public = "STOPPED" /\ ~stopping /\ ~closing
StoppedIsConfirmed ==
    [][~Stopped /\ Stopped' =>
          /\ wire' = "STOP"
          /\ relay'.state = "STOP" /\ relay'.health # "refused"
          /\ "lastStop" \in fresh']_vars

\* (_activate_after_wake, _publish_pulse) A pulse that still counts never precedes
\* the height observed after the WAKE of its intent.
WakeBeforeMotion ==
    pc[Runner] = "pulseSend" /\ Runner \in current =>
        ~control.awaiting /\ "wake" \in newer

\* (_run_cycle, _run_wake_cycle) No intent outlives a deadline that has passed, whatever the sensor and the relay
\* report meanwhile, unless the runner itself has died: the watchdog of a hold, the
\* limit of a target movement, the wait for a height after a WAKE.
Due(k) == /\ k \in overdue
          /\ \/ k = "hold" /\ control.mode = "MANUAL"
             \/ k = "target" /\ control.mode = "TARGET" /\ ~control.awaiting
             \/ k = "wake" /\ control.awaiting
IntentExpires == \A k \in {"hold", "target", "wake"} :
                    Due(k) ~> (~Due(k) \/ pc[Runner] = "dead")

\* (stop_motion; docs/architecture/desk-safety.md:145, a STOP is reflected before the
\* commands that wait) A STOP that waits for the intent lock lets no other request start a movement.
StopOvertakes ==
    [][(\E u \in Users : pc[u] = "intent" /\ req[u].op = "stop")
          => ~(control.mode = "NONE" /\ control'.mode # "NONE")]_vars

\* (_hold, _begin_wake; docs/architecture/desk-safety.md:74, a stale height or a new
\* goal stops the movement) WAKE goes out only after the STOP of the movement before it.
WakeAfterStop == [][wire' = "WAKE" => wire \notin Directions]_vars

\* (_intent_lock, _relay_io_lock) Every request is answered: no two of the lock queues, the stop tasks and the
\* relay publishes wait for each other.
Answered == \A u \in Users : pc[u] # "idle" ~> pc[u] = "idle"

\* (stop) A shutdown ends although stop tasks and cancellations meet.
ShutdownEnds == closing ~> (pc[Life] = "down")
=============================================================================
