----------------------- MODULE DeskControllerRelay_proofs -----------------------
(***************************************************************************)
(* Proofs about what DeskController hands to the relay and when: the queue *)
(* of _relay_io_lock, WAKE before the first pulse, the confirmation behind *)
(* STOPPED, and the STOP behind every movement that has ended. Then the    *)
(* types of all variables, and the two locks together.                     *)
(***************************************************************************)
EXTENDS DeskController_proofs, LockQueue_proofs

\* Where a thread waits for the relay lock or has it: nowhere else it does.
RelayPcs == {"wakeSend", "pulseWait", "pulseSend", "settleSend", "stopSend",
             "startSend", "closeSend"}
RelayQueue == /\ relayQ \in Seq(Threads) /\ Once(relayQ)
              /\ \A t \in Threads : pc[t] \in RelayPcs <=> Waits(relayQ, t)
              /\ pc[Runner] = "pulseSend" => Holds(relayQ, Runner)

\* Once an intent is no longer waiting for the sensor, a height newer than its WAKE is
\* there; a pulse that counts belongs to such an intent.
WakeFirst == /\ control.awaiting \/ "wake" \in newer
             /\ Runner \in current /\ pc[Runner] \in {"pulseWait", "pulseSend"} =>
                   ~control.awaiting

\* A status that is newer than the request of a stop is newer than the last STOP.
LastStopSeen == control.public = "STOPPED" /\ ~stopping /\ ~closing => "lastStop" \in fresh
StopTracked == /\ LastStopSeen
               /\ \A t \in Threads : pc[t] \in {"stopSend", "stopWait"} /\ t \in fresh =>
                     "lastStop" \in fresh \/ closing

\* No WAKE waits behind a STOP, none is left once a STOP is out, and STOPPED without
\* a stop on its way means that a STOP was the last thing to go out.
NoWake == \A t \in Threads : pc[t] # "wakeSend"
Queued(t) == pc[t] = "stopSend" \/ (t = Life /\ pc[t] = "closeSend")
Sent(t) == pc[t] = "stopWait" \/ (t = Life /\ pc[t] = "closeJoin" /\ why[t] = "plain")
Pending(t) == Queued(t) \/ (t = Life /\ pc[t] = "closeJoin")
StopLasts ==
    /\ \A a, b \in Threads : Queued(a) /\ pc[b] = "wakeSend" => ~Ahead(relayQ, a, b)
    /\ \A a \in Threads : Sent(a) => wire = "STOP" /\ NoWake
    /\ control.mode = "NONE" /\ control.public = "STOPPED" =>
          (\E t \in Threads : Pending(t)) \/ (wire \in {"none", "STOP"} /\ NoWake)

\* The inductive invariant, on top of that of DeskController_proofs.
RInv == RelayQueue /\ WakeFirst /\ StopTracked /\ StopLasts

-----------------------------------------------------------------------------
(* What the step of a thread may do. A small vocabulary for all of them. *)

Step(t, ps) == \E p \in ps : pc' = [pc EXCEPT ![t] = p]

\* The relay's baselines: a step takes a new one or forgets one, but the one of the
\* last STOP only when it begins a stop.
Tracks == /\ fresh' \subseteq fresh \cup {"base", "seen"}
          /\ "lastStop" \in fresh => "lastStop" \in fresh'

\* Nobody else is on the way to a STOP.
Alone(t) == /\ \A u \in Threads \ {t} : pc[u] \notin InStop
            /\ pc[Life] \notin {"closeSend", "closeJoin"}

\* It returns, waits or creates a stop task, and keeps the intent, whose published
\* state becomes p.
Keeps(t, p) ==
    /\ control'.mode = control.mode /\ control'.awaiting = control.awaiting
    /\ control'.public = p
    /\ Step(t, {"idle", "stopTask", "intent", "dead"})
    /\ current' \subseteq current
    /\ "wake" \in newer => "wake" \in newer'
    /\ Tracks
    /\ Gone(Threads, relayQ, relayQ', t)

\* It installs an intent that needs no WAKE, or ends one without a STOP.
Sets(t) ==
    /\ control'.public # "STOPPED" /\ ~control'.awaiting
    /\ Step(t, {"idle"})
    /\ current' \subseteq current
    /\ "wake" \in newer'
    /\ Tracks
    /\ Gone(Threads, relayQ, relayQ', t)

\* It installs an intent and queues its WAKE.
Wakes(t) ==
    /\ control'.public = "WAKING"
    /\ Step(t, {"wakeSend"})
    /\ current' = {t}
    /\ Tracks
    /\ Joined(Threads, relayQ, relayQ', t)
    /\ Alone(t)

\* It drops the intent and queues a STOP.
Halts(t) ==
    /\ stopping'
    /\ control' = PlainStop("STOPPED")
    /\ Step(t, {"stopSend"})
    /\ current' = {}
    /\ newer' = {"wake", "fine"}
    /\ fresh' \subseteq (fresh \ {t}) \cup {"base", "seen"}
    /\ Joined(Threads, relayQ, relayQ', t) /\ ~Waits(relayQ, t)
    /\ closing \/ Alone(t)

Acts(t, p) == Keeps(t, p) \/ Sets(t) \/ Wakes(t) \/ Halts(t)

\* (_stop_in_progress, _closing) Who finds the flags down, or ends the only stop
\* there is, is alone.
LEMMA FreeOfStops ==
  ASSUME IInv, NEW t \in Threads, t # Life, ~closing, ~stopping \/ pc[t] \in InStop
  PROVE  Alone(t)
BY DEF IInv, FlagBehindStop, OneStop, LifeFirst, Alone, InStop, Threads

\* (_stop_and_confirm) The synchronous part of a stop.
LEMMA TakeStopHalts ==
  ASSUME IInv, RelayQueue, NEW t \in Users \cup {Runner}, TakeStop(t), ~stopping,
         pc' = [pc EXCEPT ![t] = "stopSend"], pc[t] \notin RelayPcs
  PROVE  Halts(t)
<1> USE ThreadAssumption DEF Threads
<1>1. t \in Threads /\ ~Waits(relayQ, t) /\ t \notin Baselines /\ t # Life
  BY DEF RelayQueue
<1>2. Joined(Threads, relayQ, relayQ', t)
  BY <1>1, JoiningQueue DEF TakeStop, RelayQueue
<1>3. closing \/ Alone(t)
  BY <1>1, FreeOfStops
<1>4. fresh' \subseteq (fresh \ {t}) \cup {"base", "seen"}
  BY <1>1 DEF TakeStop, Invalidate, ResetMotion
<1> QED
  BY <1>1, <1>2, <1>3, <1>4 DEF Halts, TakeStop, Invalidate, ResetMotion, Step

\* (_begin_wake) An intent whose WAKE is queued.
LEMMA BeginWakeWakes ==
  ASSUME IInv, RelayQueue, NEW t \in Users \cup {Runner}, NEW r, NEW m, NEW d, NEW g,
         BeginWake(t, r, m, d, g), Alone(t), pc[t] \notin RelayPcs
  PROVE  Wakes(t)
<1> USE ThreadAssumption DEF Threads
<1>1. t \in Threads /\ ~Waits(relayQ, t) /\ t \notin Baselines
  BY DEF RelayQueue
<1>2. Joined(Threads, relayQ, relayQ', t)
  BY <1>1, JoiningQueue DEF BeginWake, RelayQueue
<1>3. Tracks
  BY <1>1 DEF BeginWake, StartTracking, Tracks, Baselines
<1> QED
  BY <1>1, <1>2, <1>3 DEF Wakes, BeginWake, Suspend, Step

\* (_set_target, after the transition stop)
LEMMA PursueTargetActs ==
  ASSUME IInv, RelayQueue, NEW t \in Users \cup {Runner}, NEW r, NEW c,
         PursueTarget(t, r, c), pc[t] \notin RelayPcs, ~closing => Alone(t),
         c.mode = control.mode, c.awaiting = control.awaiting
  PROVE  Acts(t, c.public)
<1> USE ThreadAssumption DEF Threads
<1>1. t \in Threads /\ ~Waits(relayQ, t) /\ t \notin Baselines
  BY DEF RelayQueue
<1>2. UNCHANGED relayQ => Gone(Threads, relayQ, relayQ', t)
  BY <1>1, JoiningQueue DEF RelayQueue
<1> DEFINE g == r.amount
           d == Toward(g)
<1>3. CASE WakeAdmitted /\ BeginWake(t, r, "TARGET", d, g)
  BY <1>3, BeginWakeWakes DEF Acts, WakeAdmitted, Alive
<1>4. CASE /\ control' = PlainStop("IDLE")
           /\ current' = {}
           /\ ResetMotion(fresh \ {t})
           /\ Answer(t)
           /\ UNCHANGED relayQ
  <2>1. Sets(t)
    BY <1>1, <1>2, <1>4 DEF Sets, PlainStop, ResetMotion, Answer, Step, Tracks, Baselines
  <2>2. QED
    BY <2>1 DEF Acts
<1>5. CASE /\ control' = c
           /\ fresh' = fresh \ {t}
           /\ StopMotion(t, r, "plain")
           /\ UNCHANGED <<current, overdue, newer, firstPulse, confirmed, relayQ>>
  <2>1. Keeps(t, c.public)
    BY <1>1, <1>2, <1>5 DEF Keeps, StopMotion, Suspend, Step, Tracks, Baselines
  <2>2. QED
    BY <2>1 DEF Acts
<1>6. CASE /\ BeginMotion(t, [public |-> "MOVING", mode |-> "TARGET",
                  phase |-> "CONTINUOUS", target |-> g, dir |-> d, awaiting |-> FALSE])
           /\ UNCHANGED relayQ
  <2>1. Sets(t)
    BY <1>1, <1>2, <1>6 DEF Sets, BeginMotion, StartTracking, Answer, Step, Tracks, Baselines
  <2>2. QED
    BY <2>1 DEF Acts
<1>7. CASE Return(t, c) /\ UNCHANGED relayQ
  <2>1. Keeps(t, c.public)
    BY <1>1, <1>2, <1>7 DEF Keeps, Return, Answer, Step, Tracks, Baselines
  <2>2. QED
    BY <2>1 DEF Acts
<1> QED
  BY <1>3, <1>4, <1>5, <1>6, <1>7 DEF PursueTarget

\* (_hold, after the transition stop)
LEMMA PursueHoldActs ==
  ASSUME IInv, RelayQueue, NEW t \in Users \cup {Runner}, NEW r, NEW c,
         PursueHold(t, r, c), pc[t] \notin RelayPcs,
         c.mode = control.mode, c.awaiting = control.awaiting
  PROVE  Acts(t, c.public)
<1> USE ThreadAssumption DEF Threads
<1>1. t \in Threads /\ ~Waits(relayQ, t) /\ t \notin Baselines
  BY DEF RelayQueue
<1>2. Gone(Threads, relayQ, relayQ', t)
  BY <1>1, JoiningQueue DEF RelayQueue, PursueHold
<1>3. CASE BeginMotion(t, ManualIntent(r.dir))
  <2>1. Sets(t)
    BY <1>1, <1>2, <1>3 DEF Sets, BeginMotion, ManualIntent, StartTracking, Answer, Step,
        Tracks, Baselines
  <2>2. QED
    BY <2>1 DEF Acts
<1>4. CASE Return(t, c)
  <2>1. Keeps(t, c.public)
    BY <1>1, <1>2, <1>4 DEF Keeps, Return, Answer, Step, Tracks, Baselines
  <2>2. QED
    BY <2>1 DEF Acts
<1> QED
  BY <1>3, <1>4 DEF PursueHold

\* A request that is answered, waits or creates a stop task, and touches neither the
\* intent nor the relay.
LEMMA PlainStepKeeps ==
  ASSUME RelayQueue, NEW t \in Threads, pc[t] \notin RelayPcs,
         Step(t, {"idle", "stopTask", "intent", "dead"}), UNCHANGED <<control, current, relayQ>>,
         newer' = newer, fresh' \in {fresh, fresh \ {t}}
  PROVE  Acts(t, control.public)
<1> USE ThreadAssumption
<1>1. ~Waits(relayQ, t) /\ t \notin Baselines
  BY DEF RelayQueue
<1>2. Gone(Threads, relayQ, relayQ', t)
  BY <1>1, JoiningQueue DEF RelayQueue
<1> QED
  BY <1>1, <1>2 DEF Acts, Keeps, Tracks, Baselines

\* (_set_target)
LEMMA SetTargetActs ==
  ASSUME IInv, RelayQueue, NEW t \in Users, NEW r, SetTarget(t, r) \/ Invalid(t, r),
         pc[t] \notin RelayPcs
  PROVE  Acts(t, control.public)
<1> USE ThreadAssumption DEF Threads
<1>1. CASE Invalid(t, r)
  <2>1. /\ Step(t, {"idle", "stopTask", "intent", "dead"})
        /\ UNCHANGED <<control, current, relayQ>> /\ newer' = newer
        /\ fresh' \in {fresh, fresh \ {t}}
    BY <1>1 DEF Invalid, StopMotion, Suspend, Return, Answer, Step, intentVars, trackVars
  <2>2. QED
    BY <2>1, PlainStepKeeps
<1>2. CASE ~stopping /\ TakeStop(t) /\ Suspend(t, r, "stopSend")
  BY <1>2, TakeStopHalts DEF Suspend, Acts
<1>3. CASE ~stopping /\ PursueTarget(t, r, control)
  BY <1>3, PursueTargetActs, FreeOfStops
<1>4. CASE Return(t, control) /\ UNCHANGED relayQ
  BY <1>4, PlainStepKeeps DEF Return, Answer, Step
<1> QED
  BY <1>1, <1>2, <1>3, <1>4 DEF SetTarget

\* (_hold)
LEMMA HoldActs ==
  ASSUME IInv, RelayQueue, NEW t \in Users, NEW r, Hold(t, r), pc[t] \notin RelayPcs
  PROVE  Acts(t, control.public)
<1> USE ThreadAssumption DEF Threads
<1>1. CASE Return(t, control) /\ UNCHANGED relayQ
  BY <1>1, PlainStepKeeps DEF Return, Answer, Step
<1>2. CASE ~stopping /\ TakeStop(t) /\ Suspend(t, r, "stopSend")
  BY <1>2, TakeStopHalts DEF Suspend, Acts
<1>3. CASE RefreshHold(t)
  BY <1>3, PlainStepKeeps DEF RefreshHold, Answer, Step, trackVars
<1>4. CASE Alive /\ ~stopping /\ BeginWake(t, r, "MANUAL", r.dir, NoTarget)
  BY <1>4, BeginWakeWakes, FreeOfStops DEF Alive, Acts
<1>5. CASE PursueHold(t, r, control)
  BY <1>5, PursueHoldActs
<1> QED
  BY <1>1, <1>2, <1>3, <1>4, <1>5 DEF Hold, HoldWhileAlive

\* (DeskController's public coroutines) A request, from its call to its first
\* suspension or its answer.
LEMMA RequestActs ==
  ASSUME IInv, RelayQueue, NEW u \in Users, Call(u) \/ Enter(u)
  PROVE  /\ Acts(u, control.public) /\ pc[u] \in {"idle", "intent"}
         /\ UNCHANGED <<wire, pulse, relay, height>>
<1> USE ThreadAssumption DEF Threads
<1>1. /\ pc[u] \in {"idle", "intent"} /\ pc[u] \notin RelayPcs
      /\ UNCHANGED <<wire, pulse, relay, height>>
  BY DEF Call, Enter, Serve, RelayPcs, envVars
<1>2. CASE Call(u)
  BY <1>1, <1>2, PlainStepKeeps DEF Call, Step, intentVars, trackVars
<1>3. ASSUME NEW r, Serve(u, r) PROVE Acts(u, control.public)
  <2>1. CASE StopMotion(u, r, "plain") /\ UNCHANGED <<intentVars, trackVars, relayQ>>
    BY <1>1, <2>1, PlainStepKeeps DEF StopMotion, Suspend, Step, intentVars, trackVars
  <2>2. CASE AdjustTarget(u, r)
    <3>1. CASE Return(u, control) /\ UNCHANGED relayQ
      BY <1>1, <3>1, PlainStepKeeps DEF Return, Answer, Step
    <3>2. QED
      BY <1>1, <2>2, <3>1, SetTargetActs DEF AdjustTarget
  <2>3. QED
    BY <1>1, <1>3, <2>1, <2>2, SetTargetActs, HoldActs DEF Serve
<1> QED
  BY <1>1, <1>2, <1>3 DEF Enter

-----------------------------------------------------------------------------
(* Stops *)

\* (_stop_motion, _stop_for_transition) What follows a stop, with control = c.
LEMMA ContinueActs ==
  ASSUME IInv, RelayQueue, NEW t \in Users \cup {Runner}, NEW c, NEW ok \in BOOLEAN,
         Continue(t, c, ok), ok => pc[t] \notin RelayPcs, ~closing => Alone(t) \/ why[t] # "transition",
         c.mode = control.mode, c.awaiting = control.awaiting
  PROVE  Acts(t, c.public)
<1> USE ThreadAssumption DEF Threads
<1>1. t \in Threads /\ t \notin Baselines
  OBVIOUS
<1>2. CASE ok /\ why[t] = "transition" /\ PursueTarget(t, req[t], c)
  BY <1>2, PursueTargetActs
<1>3. CASE ok /\ PursueHold(t, req[t], c)
  BY <1>3, PursueHoldActs
<1>4. CASE /\ control' = c /\ fresh' = fresh \ {t}
           /\ Step(t, {"idle", "stopTask", "intent", "dead"})
           /\ relayQ' = Without(relayQ, t)
           /\ UNCHANGED <<current, newer>>
  <2>1. Gone(Threads, relayQ, relayQ', t)
    BY <1>1, <1>4, LeavingQueue DEF RelayQueue
  <2>2. QED
    BY <1>1, <1>4, <2>1 DEF Acts, Keeps, Tracks, Baselines
<1>5. CASE t \in Users /\ Return(t, c) /\ relayQ' = Without(relayQ, t)
  BY <1>4, <1>5 DEF Return, Answer, Step
<1>6. CASE t = Runner
  BY <1>4, <1>6 DEF Continue, Divert, Step
<1> QED
  BY <1>2, <1>3, <1>5, <1>6 DEF Continue

\* (_stop_and_confirm) Its start, early return included.
LEMMA BeginStopActs ==
  ASSUME IInv, RelayQueue, NEW t \in Users \cup {Runner}, BeginStop(t)
  PROVE  Acts(t, control.public) /\ UNCHANGED <<wire, pulse, relay, height>>
<1>1. pc[t] \notin RelayPcs /\ UNCHANGED <<wire, pulse, relay, height>>
  BY DEF BeginStop, RelayPcs, envVars
<1>2. CASE stopping /\ Continue(t, control, TRUE)
  <2>1. why[t] # "transition"
    BY ThreadAssumption DEF BeginStop, IInv, TransitionInline, StopPcs, Threads
  <2>2. QED
    BY <1>1, <1>2, <2>1, ContinueActs
<1>3. CASE ~stopping /\ TakeStop(t) /\ pc' = [pc EXCEPT ![t] = "stopSend"]
  BY <1>1, <1>3, TakeStopHalts DEF Acts
<1> QED  BY <1>1, <1>2, <1>3 DEF BeginStop

\* (_stop_and_confirm) Its end: STOPPED is published only for a confirmed STOP.
LEMMA FinishStopActs ==
  ASSUME IInv, RelayQueue, NEW t \in Users \cup {Runner}, NEW ok \in BOOLEAN,
         pc[t] \in {"stopSend", "stopWait"}, ok => pc[t] = "stopWait", FinishStop(t, ok)
  PROVE  \E p \in {"STOPPED", "ERROR"} : Acts(t, p) /\ (p = "STOPPED" => ok)
<1> USE ThreadAssumption DEF Threads
<1>1. PICK p \in {"STOPPED", "ERROR"} : /\ Continue(t, [control EXCEPT !.public = p], ok)
                                        /\ p = "STOPPED" => ok
  BY DEF FinishStop
<1> DEFINE c == [control EXCEPT !.public = p]
<1>2. c.mode = control.mode /\ c.awaiting = control.awaiting /\ c.public = p
  BY DEF IInv, Fits, Controls
<1>3. ~closing => Alone(t)
  BY FreeOfStops DEF InStop
<1>4. ok => pc[t] \notin RelayPcs
  BY DEF RelayPcs
<1> HIDE DEF c
<1>5. Acts(t, c.public)
  BY <1>1, <1>2, <1>3, <1>4, ContinueActs DEF c
<1> QED  BY <1>1, <1>2, <1>5

-----------------------------------------------------------------------------
(* Such a step and the invariant *)

\* (_relay_io_lock)
LEMMA ActsQueue ==
  ASSUME IInv, RelayQueue, NEW t \in Users \cup {Runner}, NEW p, Acts(t, p)
  PROVE  RelayQueue'
<1> USE ThreadAssumption DEF Threads, RelayQueue
<1>1. t \in Threads /\ pc \in [Threads -> Pcs]
  BY DEF IInv, Typed
<1>2. CASE Keeps(t, p) \/ Sets(t)
  BY <1>1, <1>2 DEF Keeps, Sets, Step, Gone, RelayPcs
<1>3. CASE Wakes(t) \/ Halts(t)
  BY <1>1, <1>3 DEF Wakes, Halts, Step, Joined, RelayPcs
<1> QED  BY <1>2, <1>3 DEF Acts

\* (_activate_after_wake, _publish_pulse)
LEMMA ActsWake ==
  ASSUME IInv, IInv', WakeFirst, NEW t \in Users \cup {Runner}, NEW p, Acts(t, p)
  PROVE  WakeFirst'
<1> USE ThreadAssumption DEF Threads, WakeFirst
<1>1. t \in Threads /\ pc \in [Threads -> Pcs] /\ (control'.public = "WAKING" => control'.awaiting)
  BY DEF IInv, Typed, Fits
<1>2. CASE Keeps(t, p)
  BY <1>1, <1>2 DEF Keeps, Step
<1>3. CASE Sets(t)
  BY <1>1, <1>3 DEF Sets, Step
<1>4. CASE Wakes(t)
  BY <1>1, <1>4 DEF Wakes, Step
<1>5. CASE Halts(t)
  BY <1>1, <1>5 DEF Halts, Step
<1> QED  BY <1>2, <1>3, <1>4, <1>5 DEF Acts

\* (_stop_and_confirm) What is left to show: STOPPED is published for a fresh status.
LEMMA ActsTracked ==
  ASSUME IInv, StopTracked, NEW t \in Users \cup {Runner}, NEW p, Acts(t, p), closing' = closing,
         p = "STOPPED" /\ ~stopping' /\ ~closing => "lastStop" \in fresh
  PROVE  StopTracked'
<1> USE ThreadAssumption DEF Threads, StopTracked, LastStopSeen
<1>1. t \in Threads /\ pc \in [Threads -> Pcs]
      /\ \A u \in Threads : u \notin {"base", "seen"}
  BY DEF IInv, Typed, Baselines
<1>2. CASE Keeps(t, p)
  BY <1>1, <1>2 DEF Keeps, Step, Tracks
<1>3. CASE Sets(t)
  BY <1>1, <1>3 DEF Sets, Step, Tracks
<1>4. CASE Wakes(t)
  BY <1>1, <1>4 DEF Wakes, Step, Tracks
<1>5. CASE Halts(t)
  <2>1. ASSUME NEW u \in Threads, pc'[u] \in {"stopSend", "stopWait"}, u \in fresh'
        PROVE  closing
    BY <1>1, <1>5, <2>1 DEF Halts, Step, Alone, InStop
  <2>2. QED
    BY <1>5, <2>1 DEF Halts
<1> QED  BY <1>2, <1>3, <1>4, <1>5 DEF Acts

\* (_relay_io_lock, _stop_and_confirm) What is left to show here: STOPPED is published
\* while another stop is on its way, or after the STOP.
LEMMA ActsLast ==
  ASSUME IInv, RelayQueue, StopLasts, NEW t \in Users \cup {Runner}, NEW p, Acts(t, p),
         wire' \in {wire, "STOP"} \/ pc[t] = "wakeSend", why'[Life] = why[Life],
         p = "STOPPED" /\ control.mode = "NONE" =>
            \/ \E u \in Threads \ {t} : Pending(u)
            \/ wire' \in {"none", "STOP"} /\ NoWake
  PROVE  StopLasts'
<1> USE ThreadAssumption DEF Threads
<1>1. t \in Threads /\ t # Life /\ pc \in [Threads -> Pcs]
  BY DEF IInv, Typed
<1>2. CASE Keeps(t, p) \/ Sets(t)
  <2>1. /\ \A u \in Threads \ {t} : pc'[u] = pc[u]
        /\ pc'[t] \in {"idle", "stopTask", "intent", "dead"}
        /\ \A a, b \in Threads : Ahead(relayQ', a, b) => Ahead(relayQ, a, b)
    BY <1>1, <1>2 DEF Keeps, Sets, Step, Gone
  <2>2. NoWake => NoWake'
    BY <2>1 DEF NoWake
  <2>3. \A a, b \in Threads : (Queued(a) /\ pc[b] = "wakeSend")' => ~Ahead(relayQ, a, b)'
    BY <1>1, <2>1 DEF StopLasts, Queued
  <2>4. \A a \in Threads : Sent(a)' => (wire = "STOP" /\ NoWake)'
    <3>1. \A a \in Threads : Sent(a)' => Sent(a)
      BY <1>1, <2>1 DEF Sent
    <3>2. QED
      BY <2>2, <3>1 DEF StopLasts, NoWake
  <2>5. control'.mode = "NONE" /\ control'.public = "STOPPED" =>
           (\E u \in Threads : Pending(u)') \/ (wire \in {"none", "STOP"} /\ NoWake)'
    <3>1. \A u \in Threads \ {t} : Pending(u) => Pending(u)'
      BY <1>1, <2>1 DEF Pending, Queued
    <3>2. QED
      BY <1>2, <2>2, <3>1 DEF Keeps, Sets
  <2>6. QED
    BY <2>3, <2>4, <2>5 DEF StopLasts
<1>3. CASE Wakes(t)
  <2>1. \A a \in Threads : ~Queued(a)' /\ ~Sent(a)'
    BY <1>1, <1>3 DEF Wakes, Step, Alone, Queued, Sent, InStop
  <2>2. QED
    BY <1>3, <2>1 DEF Wakes, StopLasts
<1>4. CASE Halts(t)
  <2>1. /\ \A u \in Threads \ {t} : pc'[u] = pc[u]
        /\ pc'[t] = "stopSend"
        /\ \A a, b \in Threads : Ahead(relayQ', a, b) => Ahead(relayQ, a, b) \/ b = t
    BY <1>1, <1>4 DEF Halts, Step, Joined
  <2>2. ASSUME NEW a \in Threads, NEW b \in Threads, Queued(a)', pc'[b] = "wakeSend",
               Ahead(relayQ', a, b)
        PROVE  FALSE
    <3>1. b # t /\ pc[b] = "wakeSend" /\ Ahead(relayQ, a, b)
      BY <2>1, <2>2
    <3>2. CASE a = t
      BY <1>4, <3>1, <3>2 DEF Halts, Ahead, Waits
    <3>3. CASE a # t
      BY <2>1, <2>2, <3>1, <3>3 DEF Queued, StopLasts
    <3>4. QED
      BY <3>2, <3>3
  <2>3. \A a \in Threads : Sent(a)' => (wire = "STOP" /\ NoWake)'
    <3>1. \A a \in Threads : Sent(a)' => Sent(a)
      BY <1>1, <2>1 DEF Sent
    <3>2. NoWake => NoWake'
      BY <2>1 DEF NoWake
    <3>3. QED
      BY <3>1, <3>2 DEF StopLasts, NoWake
  <2>4. Pending(t)'
    BY <2>1 DEF Pending, Queued
  <2>5. QED
    BY <2>2, <2>3, <2>4 DEF StopLasts
<1> QED  BY <1>2, <1>3, <1>4 DEF Acts

\* The four together.
LEMMA ActsHold ==
  ASSUME IInv, IInv', RInv, NEW t \in Users \cup {Runner}, NEW p, Acts(t, p),
         closing' = closing, why'[Life] = why[Life],
         wire' \in {wire, "STOP"} \/ pc[t] = "wakeSend",
         p = "STOPPED" /\ ~stopping' /\ ~closing => "lastStop" \in fresh,
         p = "STOPPED" /\ control.mode = "NONE" =>
            \/ \E u \in Threads \ {t} : Pending(u)
            \/ wire' \in {"none", "STOP"} /\ NoWake
  PROVE  RInv'
BY ActsQueue, ActsWake, ActsTracked, ActsLast DEF RInv

\* A step that leaves what is published as it is, of a thread without a stop.
LEMMA SamePublicHolds ==
  ASSUME IInv, IInv', RInv, NEW t \in Users \cup {Runner}, Acts(t, control.public),
         closing' = closing, why'[Life] = why[Life],
         wire' = wire \/ pc[t] = "wakeSend", stopping' = TRUE \/ stopping' = stopping, pc[t] # "stopSend"
  PROVE  RInv'
<1> USE ThreadAssumption DEF Threads
<1>1. control.public = "STOPPED" /\ ~stopping' /\ ~closing => "lastStop" \in fresh
  BY DEF RInv, StopTracked, LastStopSeen
<1>2. ~Pending(t)
  BY DEF Pending, Queued
<1>3. control.public = "STOPPED" /\ control.mode = "NONE" =>
            \/ \E u \in Threads \ {t} : Pending(u)
            \/ wire \in {"none", "STOP"} /\ NoWake
  BY <1>2 DEF RInv, StopLasts
<1>4. t \in Threads /\ (NoWake => pc[t] # "wakeSend")
  BY DEF NoWake
<1> QED
  BY <1>1, <1>3, <1>4, ActsHold

-----------------------------------------------------------------------------
(* Requests and stops *)

\* (_stop_and_confirm) A request may raise the flag of a STOP and never lowers it.
LEMMA RequestFlags ==
  ASSUME NEW u \in Users, Call(u) \/ Enter(u)
  PROVE  closing' = closing /\ (stopping' = TRUE \/ stopping' = stopping)
<1>1. ASSUME NEW r, SetTarget(u, r) \/ Invalid(u, r)
      PROVE  closing' = closing /\ (stopping' = TRUE \/ stopping' = stopping)
  BY <1>1 DEF SetTarget, Invalid, TakeStop, lifeVars
<1> QED
  BY <1>1 DEF Call, Enter, Serve, AdjustTarget, Hold, HoldWhileAlive, TakeStop, lifeVars

\* (DeskController's public coroutines) Requests keep it.
LEMMA RequestRelay ==
  ASSUME IInv, RInv, NEW u \in Users, Call(u) \/ Enter(u)
  PROVE  RInv'
<1> USE ThreadAssumption DEF Threads
<1>1. IInv'
  BY RequestStep
<1>2. /\ Acts(u, control.public) /\ pc[u] \in {"idle", "intent"} /\ UNCHANGED wire
  BY RequestActs DEF RInv
<1>3. closing' = closing /\ (stopping' = TRUE \/ stopping' = stopping)
  BY RequestFlags
<1>4. why'[Life] = why[Life]
  <2>1. \A v : u # Life /\ [why EXCEPT ![u] = v][Life] = why[Life]
    BY DEF IInv, Typed
  <2>2. why' = why \/ \E v : why' = [why EXCEPT ![u] = v]
    BY DEF Call, Enter, Serve, SetTarget, AdjustTarget, Invalid, Hold, HoldWhileAlive,
       PursueTarget, PursueHold, BeginWake, BeginMotion, RefreshHold, Return, StopMotion
  <2>3. QED
    BY <2>1, <2>2
<1> QED
  BY <1>1, <1>2, <1>3, <1>4, SamePublicHolds

\* (_stop_and_confirm) The caller of a stop goes on without touching what the
\* lifecycle remembers.
LEMMA ContinueKeepsLife ==
  ASSUME IInv, NEW t \in Users \cup {Runner}, NEW c, NEW ok, Continue(t, c, ok)
  PROVE  why'[Life] = why[Life]
<1> USE ThreadAssumption DEF Threads
<1>1. \A v : [why EXCEPT ![t] = v][Life] = why[Life]
  BY DEF IInv, Typed
<1>2. why' = why \/ \E v : why' = [why EXCEPT ![t] = v]
  BY DEF Continue, Divert, PursueTarget, PursueHold, BeginWake, BeginMotion, Return, StopMotion
<1> QED  BY <1>1, <1>2

\* (_stop_and_confirm) So does the start of a stop.
LEMMA BeginStopRelay ==
  ASSUME IInv, RInv, NEW t \in Users \cup {Runner}, BeginStop(t)
  PROVE  RInv'
<1>1. IInv'
  BY BeginStopStep
<1>2. Acts(t, control.public) /\ UNCHANGED wire
  BY BeginStopActs DEF RInv
<1>3. /\ closing' = closing /\ (stopping' = TRUE \/ stopping' = stopping)
      /\ pc[t] = "stopTask"
  BY DEF BeginStop, TakeStop, lifeVars
<1>4. why'[Life] = why[Life]
  BY ContinueKeepsLife DEF BeginStop
<1> QED
  BY <1>1, <1>2, <1>3, <1>4, SamePublicHolds

\* (_send_stop_bounded) The STOP is out, and every WAKE that was waiting is before it.
LEMMA StopSentRelay ==
  ASSUME IInv, RInv, NEW t \in Users \cup {Runner}, pc[t] = "stopSend", Holds(relayQ, t),
         relayQ' = Tail(relayQ), pc' = [pc EXCEPT ![t] = "stopWait"], wire' = "STOP",
         UNCHANGED <<lifeVars, trackVars, intentVars, why>>
  PROVE  RInv'
<1> USE ThreadAssumption DEF Threads, trackVars, intentVars, lifeVars
<1>1. t \in Threads /\ t # Life /\ pc \in [Threads -> Pcs]
  BY DEF IInv, Typed
<1>2. Gone(Threads, relayQ, relayQ', t)
  BY <1>1, LeavingQueue DEF RInv, RelayQueue
<1>3. RelayQueue'
  BY <1>1, <1>2 DEF RInv, RelayQueue, Gone, RelayPcs
<1>4. WakeFirst' /\ StopTracked'
  BY <1>1 DEF RInv, WakeFirst, StopTracked, LastStopSeen
<1>5. NoWake
  <2>1. ASSUME NEW b \in Threads, pc[b] = "wakeSend" PROVE FALSE
    <3>1. Waits(relayQ, b) /\ b # t
      BY <2>1 DEF RInv, RelayQueue, RelayPcs
    <3>2. Ahead(relayQ, t, b)
      BY <1>1, <3>1, HeadLeaves DEF RInv, RelayQueue
    <3>3. QED
      BY <1>1, <2>1, <3>2 DEF RInv, StopLasts, Queued
  <2>2. QED
    BY <2>1 DEF NoWake
<1>6. NoWake'
  BY <1>1, <1>5 DEF NoWake
<1>7. StopLasts'
  BY <1>6 DEF StopLasts, NoWake
<1> QED  BY <1>3, <1>4, <1>7 DEF RInv

\* (_stop_and_confirm, _wait_for_fresh_stop) Both ends of a stop keep it.
LEMMA FinishStopRelay ==
  ASSUME IInv, RInv, NEW t \in Users \cup {Runner}, NEW ok \in BOOLEAN, FinishStop(t, ok),
         pc[t] \in {"stopSend", "stopWait"}, ok => pc[t] = "stopWait" /\ StopSeen(t) /\ wire' = wire,
         wire' \in {wire, "STOP"}
  PROVE  RInv'
<1> USE ThreadAssumption DEF Threads
<1>1. IInv'
  BY FinishStopStep
<1>2. PICK p \in {"STOPPED", "ERROR"} : Acts(t, p) /\ (p = "STOPPED" => ok)
  BY FinishStopActs DEF RInv
<1>3. closing' = closing /\ why'[Life] = why[Life]
  BY ContinueKeepsLife DEF FinishStop
<1>4. ok => "lastStop" \in fresh \/ closing
  BY DEF RInv, StopTracked, StopSeen
<1>5. ok => wire = "STOP" /\ NoWake
  BY DEF RInv, StopLasts, Sent
<1> QED
  BY <1>1, <1>2, <1>3, <1>4, <1>5, ActsHold

\* (_send_stop_bounded, _wait_for_fresh_stop, _begin_wake) So do the waits of a thread.
LEMMA WaitRelay ==
  ASSUME IInv, RInv, NEW t \in Users \cup {Runner}, SendStop(t) \/ AwaitStop(t) \/ SendWake(t)
  PROVE  RInv'
<1> USE ThreadAssumption DEF Threads
<1>1. CASE SendStop(t)
  BY <1>1, StopSentRelay, FinishStopRelay DEF SendStop
<1>2. CASE AwaitStop(t)
  BY <1>2, FinishStopRelay DEF AwaitStop
<1>3. CASE SendWake(t)
  <2>1. IInv'
    BY <1>3, WaitStep
  <2>2. t \in Threads /\ t # Life /\ Gone(Threads, relayQ, relayQ', t)
    BY <1>3, LeavingQueue DEF SendWake, RInv, RelayQueue
  <2>3. Step(t, {"idle", "stopTask", "intent", "dead"}) /\ why'[Life] = why[Life]
    BY <1>3, <2>2 DEF SendWake, Answer, Divert, Step, IInv, Typed
  <2>4. UNCHANGED <<control, current, newer, fresh, closing, stopping>> /\ pc[t] = "wakeSend"
    BY <1>3 DEF SendWake, lifeVars, trackVars, intentVars
  <2>5. Acts(t, control.public)
    BY <2>2, <2>3, <2>4 DEF Acts, Keeps, Tracks
  <2>6. QED
    BY <2>1, <2>3, <2>4, <2>5, SamePublicHolds
<1> QED  BY <1>1, <1>2, <1>3

-----------------------------------------------------------------------------
(* The runner *)

\* A runner step that keeps the intent, and its place in the queue unless it leaves.
LEMMA RunnerSteps ==
  ASSUME IInv, IInv', RInv, control'.mode = control.mode, control'.awaiting = control.awaiting,
         control'.public \in {control.public, "IDLE"},
         \/ UNCHANGED pc /\ pc[Runner] = "idle"
         \/ Step(Runner, {"idle", "stopTask", "intent", "dead"}),
         \/ UNCHANGED relayQ /\ pc[Runner] \notin RelayPcs
         \/ relayQ' = Tail(relayQ) /\ Holds(relayQ, Runner),
         current' \subseteq current, newer \subseteq newer', Tracks,
         why' = why \/ \E w : why' = [why EXCEPT ![Runner] = w],
         UNCHANGED <<running, closing, stopping>>,
         wire' \in {wire, "STOP"} \/ pc[Runner] = "wakeSend", pc[Runner] # "stopSend"
  PROVE  RInv'
<1> USE ThreadAssumption DEF Threads
<1>1. Runner \in Threads /\ Runner # Life /\ pc \in [Threads -> Pcs] /\ why'[Life] = why[Life]
  BY DEF IInv, Typed
<1>2. Gone(Threads, relayQ, relayQ', Runner)
  <2>1. relayQ \in Seq(Threads) /\ Once(relayQ)
    BY DEF RInv, RelayQueue
  <2>2. CASE UNCHANGED relayQ /\ pc[Runner] \notin RelayPcs
    <3>1. ~Waits(relayQ, Runner)
      BY <1>1, <2>2 DEF RInv, RelayQueue
    <3>2. QED
      BY <1>1, <2>1, <2>2, <3>1, JoiningQueue
  <2>3. CASE relayQ' = Tail(relayQ) /\ Holds(relayQ, Runner)
    BY <1>1, <2>1, <2>3, LeavingQueue
  <2>4. QED
    BY <2>2, <2>3
<1>3. Step(Runner, {"idle", "stopTask", "intent", "dead"})
  <2>1. UNCHANGED pc /\ pc[Runner] = "idle" => pc' = [pc EXCEPT ![Runner] = "idle"]
    BY <1>1
  <2>2. QED
    BY <2>1 DEF Step
<1>4. Acts(Runner, control'.public)
  BY <1>2, <1>3 DEF Acts, Keeps
<1>5. control.public = "STOPPED" /\ ~stopping /\ ~closing => "lastStop" \in fresh
  BY DEF RInv, StopTracked, LastStopSeen
<1>6. ~Pending(Runner) /\ (NoWake => pc[Runner] # "wakeSend")
  BY <1>1 DEF Pending, Queued, NoWake
<1>7. control.public = "STOPPED" /\ control.mode = "NONE" =>
            \/ \E u \in Threads \ {Runner} : Pending(u)
            \/ wire' \in {"none", "STOP"} /\ NoWake
  BY <1>6 DEF RInv, StopLasts
<1> QED
  BY <1>1, <1>4, <1>5, <1>7, ActsHold

\* (_run_startup_wake_cycle, _watch_inactive_relay) The cycle without an intent.
LEMMA IdleRelay ==
  ASSUME IInv, RInv, QueueForStartup \/ IdleCycle
  PROVE  RInv'
<1> USE ThreadAssumption DEF Threads
<1>1. IInv' /\ wire' = wire /\ pc[Runner] \in {"idle", "intent"} /\ pc[Runner] \notin RelayPcs
  BY IdleCycleStep DEF QueueForStartup, IdleCycle, CycleOf, RelayPcs
<1>2. CASE QueueForStartup
  <2>1. /\ Step(Runner, {"idle", "stopTask", "intent", "dead"}) /\ Tracks
        /\ UNCHANGED <<control, relayQ, current, newer, why, running, closing, stopping>>
    BY <1>2 DEF QueueForStartup, Step, Tracks, lifeVars, trackVars, intentVars
  <2>2. QED
    BY <1>1, <2>1, RunnerSteps
<1>3. CASE Watch
  <2>1. /\ Step(Runner, {"idle", "stopTask", "intent", "dead"}) /\ Tracks
        /\ UNCHANGED <<control, relayQ, current, newer, running, closing, stopping>>
        /\ why' = why \/ why' = [why EXCEPT ![Runner] = "error"]
    BY <1>3 DEF Watch, Step, Tracks, lifeVars, intentVars
  <2>2. QED
    BY <1>1, <2>1, RunnerSteps
<1>4. CASE StartupWake /\ startup
  <2>1. CASE /\ ~stopping /\ WakeAdmitted
             /\ BeginWake(Runner, NoRequest, "WAKE", Midway, NoTarget)
             /\ UNCHANGED <<running, closing, stopping>>
    <3>1. Alone(Runner)
      BY <2>1, FreeOfStops DEF WakeAdmitted, Alive
    <3>2. Acts(Runner, control.public)
      BY <1>1, <2>1, <3>1, BeginWakeWakes DEF Acts, RInv
    <3>3. why' = why
      BY <2>1 DEF BeginWake
    <3>4. QED
      BY <1>1, <2>1, <3>2, <3>3, SamePublicHolds
  <2>2. CASE /\ control' = control \/ control' = [control EXCEPT !.public = "IDLE"]
             /\ Answer(Runner)
             /\ UNCHANGED <<running, closing, stopping, current, overdue, newer,
                      trackVars, why, relayQ>>
    <3>1. /\ control'.mode = control.mode /\ control'.awaiting = control.awaiting
          /\ control'.public \in {control.public, "IDLE"}
      BY <2>2 DEF IInv, Fits, Controls
    <3>2. Step(Runner, {"idle", "stopTask", "intent", "dead"}) /\ Tracks
      BY <2>2 DEF Answer, Step, Tracks, trackVars
    <3>3. QED
      BY <1>1, <2>2, <3>1, <3>2, RunnerSteps
  <2>3. QED
    BY <1>4, <2>1, <2>2 DEF StartupWake
<1> QED
  BY <1>2, <1>3, <1>4 DEF IdleCycle

\* (_run_wake_cycle, _activate_after_wake) The cycle that waits for a height.
LEMMA WakeRelay ==
  ASSUME IInv, RInv, WakeCycle
  PROVE  RInv'
<1> USE ThreadAssumption DEF Threads
<1>1. /\ IInv' /\ wire' = wire /\ pc[Runner] = "idle" /\ pc[Runner] \notin RelayPcs
      /\ UNCHANGED <<running, closing, stopping, relayQ>>
  BY WakeCycleStep DEF WakeCycle, CycleOf, RelayPcs, lifeVars
<1>2. ASSUME NEW w, Divert(Runner, w), UNCHANGED <<intentVars, trackVars>>
      PROVE  RInv'
  <2>1. /\ Step(Runner, {"idle", "stopTask", "intent", "dead"}) /\ Tracks
        /\ UNCHANGED <<control, current, newer>>
    BY <1>2 DEF Divert, Step, Tracks, trackVars, intentVars
  <2>2. QED
    BY <1>1, <1>2, <2>1, RunnerSteps DEF Divert
<1>3. ASSUME control'.public # "STOPPED", ~control'.awaiting, "wake" \in newer', Tracks,
             current' \subseteq current, UNCHANGED <<pc, why>>
      PROVE  RInv'
  <2>1. Runner \in Threads /\ pc' = [pc EXCEPT ![Runner] = "idle"]
    BY <1>1, <1>3 DEF IInv, Typed
  <2>2. Gone(Threads, relayQ, relayQ', Runner)
    BY <1>1, <2>1, JoiningQueue DEF RInv, RelayQueue
  <2>3. Acts(Runner, control.public)
    BY <1>3, <2>1, <2>2 DEF Acts, Sets, Step
  <2>4. QED
    BY <1>1, <1>3, <2>3, SamePublicHolds
<1>4. CASE /\ control' = PlainStop("IDLE") /\ current' = {} /\ ResetMotion(fresh)
           /\ UNCHANGED <<pc, req, why>>
  BY <1>3, <1>4 DEF PlainStop, ResetMotion, Tracks
<1>5. CASE Awake /\ Activate
  <2> DEFINE d == IF control.mode = "TARGET" THEN Toward(control.target) ELSE control.dir
  <2>1. CASE Divert(Runner, "plain") /\ UNCHANGED <<intentVars, trackVars>>
    BY <1>2, <2>1
  <2>2. CASE Divert(Runner, "error") /\ UNCHANGED <<intentVars, trackVars>>
    BY <1>2, <2>2
  <2>3. CASE /\ control.mode \in {"TARGET", "MANUAL"}
             /\ control' = [control EXCEPT
                    !.public = IF control.mode = "TARGET" THEN "MOVING" ELSE "MANUAL",
                    !.dir = d, !.awaiting = FALSE]
             /\ StartTracking(fresh)
             /\ UNCHANGED <<current, overdue, newer, pc, req, why, intentQ>>
    <3> HIDE DEF d
    <3>1. control'.public # "STOPPED" /\ ~control'.awaiting
      BY <2>3 DEF IInv, Fits, Controls
    <3>2. "wake" \in newer' /\ Tracks /\ current' \subseteq current
      BY <1>5, <2>3 DEF Awake, StartTracking, Tracks
    <3>3. QED
      BY <1>3, <2>3, <3>1, <3>2
  <2>4. QED
    BY <1>4, <1>5, <2>1, <2>2, <2>3 DEF Activate
<1> QED
  BY <1>2, <1>5 DEF WakeCycle

\* A runner step that queues a publish of its intent, or hands it over. No stop is on
\* its way, for the intent is there.
LEMMA RunnerPublishes ==
  ASSUME IInv, IInv', RInv, control.mode # "NONE", ~control.awaiting,
         control'.mode = control.mode, control'.awaiting = control.awaiting,
         control'.public = control.public,
         NEW p \in {"pulseWait", "pulseSend", "settleSend"}, pc' = [pc EXCEPT ![Runner] = p],
         \/ relayQ' = Append(relayQ, Runner) /\ pc[Runner] \notin RelayPcs
         \/ relayQ' = relayQ /\ pc[Runner] = "pulseWait",
         p = "pulseSend" => Holds(relayQ', Runner),
         Tracks, "wake" \in newer => "wake" \in newer',
         UNCHANGED <<closing, stopping, why>>
  PROVE  RInv'
<1> USE ThreadAssumption DEF Threads
<1>1. Runner \in Threads /\ pc \in [Threads -> Pcs] /\ control.public # "STOPPED"
  BY DEF IInv, Typed, Fits
<1>2. ~closing /\ ~stopping /\ \A t \in Threads : pc[t] \notin InStop
  BY DEF IInv, StopHoldsOff, FlagBehindStop
<1>3. pc[Life] \notin {"closeSend", "closeJoin"}
  BY <1>2 DEF IInv, LifeFirst
<1>4. RelayQueue'
  <2>1. relayQ \in Seq(Threads) /\ Once(relayQ)
    BY DEF RInv, RelayQueue
  <2>2. CASE relayQ' = Append(relayQ, Runner) /\ pc[Runner] \notin RelayPcs
    <3>1. ~Waits(relayQ, Runner)
      BY <1>1, <2>2 DEF RInv, RelayQueue
    <3>2. Joined(Threads, relayQ, relayQ', Runner)
      BY <1>1, <2>1, <2>2, <3>1, JoiningQueue
    <3>3. QED
      BY <1>1, <3>2 DEF RInv, RelayQueue, Joined, RelayPcs
  <2>3. CASE relayQ' = relayQ /\ pc[Runner] = "pulseWait"
    BY <1>1, <2>3 DEF RInv, RelayQueue, RelayPcs
  <2>4. QED
    BY <2>2, <2>3
<1>5. WakeFirst'
  BY <1>1 DEF RInv, WakeFirst
<1>6. StopTracked'
  BY <1>1, <1>2 DEF StopTracked, LastStopSeen, InStop
<1>7. StopLasts'
  <2>1. \A t \in Threads : ~Queued(t)' /\ ~Sent(t)'
    BY <1>1, <1>2, <1>3 DEF Queued, Sent, InStop
  <2>2. QED
    BY <2>1 DEF StopLasts
<1> QED  BY <1>4, <1>5, <1>6, <1>7 DEF RInv

\* (_run_cycle) Giving up the intent creates a stop task and no more.
LEMMA AbandonRelay ==
  ASSUME IInv, RInv, AbandonCycle
  PROVE  RInv'
<1> USE ThreadAssumption DEF Threads
<1>1. /\ pc[Runner] = "idle" /\ pc[Runner] \notin RelayPcs
      /\ UNCHANGED <<control, current, newer, running, closing, stopping, relayQ, wire>>
      /\ \E w \in {"plain", "error"} : Divert(Runner, w)
  BY DEF AbandonCycle, Steady, MotionCycle, CycleOf, lifeVars, intentVars, RelayPcs
<1>2. Tracks
  BY DEF AbandonCycle, Evaluate, Tracks, trackVars
<1>3. /\ Step(Runner, {"idle", "stopTask", "intent", "dead"})
      /\ \E w : why' = [why EXCEPT ![Runner] = w]
  BY <1>1 DEF Divert, Step
<1> QED
  BY <1>1, <1>2, <1>3, AbandonCycleStep, RunnerSteps

\* (_move_toward_target, _enter_settling, _publish_pulse) The cycle that pursues the
\* intent.
LEMMA PursuitRelay ==
  ASSUME IInv, RInv, QuietCycle \/ PulseCycle \/ FineCycle \/ SettleCycle
  PROVE  RInv'
<1> USE ThreadAssumption DEF Threads
<1>1. /\ IInv' /\ pc[Runner] = "idle" /\ pc[Runner] \notin RelayPcs
      /\ control.mode # "NONE" /\ ~control.awaiting
      /\ UNCHANGED <<running, closing, stopping, why>>
  BY PursuitStep DEF QuietCycle, PulseCycle, FineCycle, SettleCycle, Going, Steady,
     MotionCycle, CycleOf, lifeVars, threadVars, RelayPcs
<1>2. /\ control'.mode = control.mode /\ control'.awaiting = control.awaiting
      /\ control'.public = control.public
  <2>1. control' = control \/ \E d, f : control' = [control EXCEPT !.phase = f, !.dir = d]
    BY DEF QuietCycle, PulseCycle, FineCycle, SettleCycle, intentVars
  <2>2. QED
    BY <2>1 DEF IInv, Fits, Controls
<1>3. Tracks /\ ("wake" \in newer => "wake" \in newer')
  BY DEF QuietCycle, PulseCycle, FineCycle, SettleCycle, Evaluate, Publish, SkipPublish,
     Tracks, intentVars
<1>4. ASSUME NEW d, NEW fine, Publish(d, fine) PROVE RInv'
  <2>1. CASE relayQ = <<>> /\ pc' = [pc EXCEPT ![Runner] = "pulseSend"]
    <3>1. relayQ \in Seq(Threads) /\ Runner \in Threads /\ relayQ' = Append(relayQ, Runner)
      BY <1>4 DEF Publish, RInv, RelayQueue
    <3>2. Holds(Append(relayQ, Runner), Runner)
      BY <2>1, <3>1, JoinQueue
    <3>3. QED
      BY <1>1, <1>2, <1>3, <1>4, <2>1, <3>1, <3>2, RunnerPublishes DEF Publish
  <2>2. CASE pc' = [pc EXCEPT ![Runner] = "pulseWait"]
    BY <1>1, <1>2, <1>3, <1>4, <2>2, RunnerPublishes DEF Publish
  <2>3. QED
    BY <1>4, <2>1, <2>2 DEF Publish
<1>5. CASE UNCHANGED <<pc, current, newer, relayQ, wire>>
  BY <1>1, <1>2, <1>3, <1>5, RunnerSteps
<1>6. CASE SettleCycle
  BY <1>1, <1>2, <1>3, <1>6, RunnerPublishes DEF SettleCycle
<1> QED
  BY <1>4, <1>5, <1>6 DEF QuietCycle, PulseCycle, FineCycle, SkipPublish, intentVars,
     threadVars

\* (_publish_pulse, _publish_settling_stop) The publish it waits for.
LEMMA PublishRelay ==
  ASSUME IInv, RInv, GrantPulse \/ SendPulse \/ SendSettle
  PROVE  RInv'
<1> USE ThreadAssumption DEF Threads
<1>1. IInv' /\ Holds(relayQ, Runner) /\ UNCHANGED <<running, closing, stopping>>
  BY PublishStep DEF GrantPulse, SendPulse, SendSettle, RInv, RelayQueue, lifeVars
<1>2. CASE /\ pc[Runner] = "pulseWait" /\ Runner \in current /\ control.mode # "NONE"
           /\ pc' = [pc EXCEPT ![Runner] = "pulseSend"]
           /\ UNCHANGED <<control, relayQ, newer, fresh, why>>
  <2>1. ~control.awaiting
    BY <1>2 DEF RInv, WakeFirst
  <2>2. QED
    BY <1>1, <1>2, <2>1, RunnerPublishes DEF Tracks
<1>3. CASE /\ relayQ' = Tail(relayQ)
           /\ \/ pc' = [pc EXCEPT ![Runner] = "idle"] /\ UNCHANGED why
              \/ Divert(Runner, "error")
           /\ pc[Runner] # "stopSend" /\ wire' \in {wire, "STOP"}
           /\ current' \subseteq current /\ newer \subseteq newer' /\ UNCHANGED fresh
           /\ \/ control' = control
              \/ control' = [control EXCEPT !.phase = "SETTLING", !.dir = "none"]
  <2>1. /\ Step(Runner, {"idle", "stopTask", "intent", "dead"}) /\ Tracks
        /\ why' = why \/ \E w : why' = [why EXCEPT ![Runner] = w]
    BY <1>3 DEF Step, Tracks, Divert
  <2>2. /\ control'.mode = control.mode /\ control'.awaiting = control.awaiting
        /\ control'.public = control.public
    BY <1>3 DEF IInv, Fits, Controls
  <2>3. QED
    BY <1>1, <1>3, <2>1, <2>2, RunnerSteps
<1>4. CASE GrantPulse
  BY <1>2, <1>3, <1>4 DEF GrantPulse, Recheck, trackVars
<1>5. CASE SendPulse
  BY <1>3, <1>5 DEF SendPulse
<1>6. CASE SendSettle
  BY <1>3, <1>6 DEF SendSettle, intentVars, trackVars
<1> QED  BY <1>4, <1>5, <1>6

-----------------------------------------------------------------------------
(* start and stop *)

\* (start) Its STOP is the first to queue.
LEMMA StartRelay ==
  ASSUME IInv, RInv, Start
  PROVE  RInv'
<1> USE ThreadAssumption DEF Threads, Start
<1>1. /\ Life \in Threads /\ pc \in [Threads -> Pcs]
      /\ \A t \in Threads : pc[t] \in {"off", "idle"}
  BY DEF IInv, Typed, LifeFirst
<1>2. pc'[Life] = "startSend" /\ \A t \in Threads \ {Life} : pc'[t] = "idle"
  <2>1. /\ pc'[Life] = "startSend" /\ pc'[Runner] = "idle"
        /\ \A u \in Users : pc'[u] = pc[u]
    BY <1>1
  <2>2. \A u \in Users : pc[u] = "idle"
    BY DEF IInv, LifeFirst
  <2>3. QED
    BY <2>1, <2>2
<1>3. RelayQueue'
  <2>1. \A t \in Threads : ~Waits(relayQ, t)
    BY <1>1 DEF RInv, RelayQueue, RelayPcs
  <2>2. Joined(Threads, relayQ, relayQ', Life)
    BY <1>1, <2>1, JoiningQueue DEF RInv, RelayQueue
  <2>3. QED
    BY <1>2, <2>1, <2>2 DEF RelayQueue, Joined, RelayPcs
<1>4. WakeFirst' /\ StopTracked'
  BY <1>2 DEF WakeFirst, StopTracked, LastStopSeen, ResetMotion, PlainStop
<1>5. StopLasts'
  BY <1>2 DEF StopLasts, Queued, Sent, PlainStop
<1> QED  BY <1>3, <1>4, <1>5 DEF RInv

\* (start) Its end publishes IDLE or ERROR, never STOPPED.
LEMMA StartedRelay ==
  ASSUME IInv, RInv, NEW ok \in BOOLEAN, Started(ok),
         pc[Life] \in {"startSend", "startWait"}, wire' \in {wire, "STOP"}
  PROVE  RInv'
<1> USE ThreadAssumption DEF Threads, Started
<1>1. /\ Life \in Threads /\ pc \in [Threads -> Pcs]
      /\ control'.mode = control.mode /\ control'.awaiting = control.awaiting
      /\ control'.public # "STOPPED"
  BY DEF IInv, Typed, Fits, Controls
<1>2. pc'[Life] = "up" /\ \A t \in Threads \ {Life} : pc'[t] = pc[t]
  BY <1>1
<1>3. Gone(Threads, relayQ, relayQ', Life)
  BY <1>1, LeavingQueue DEF RInv, RelayQueue
<1>4. RelayQueue'
  BY <1>1, <1>2, <1>3 DEF RInv, RelayQueue, Gone, RelayPcs
<1>5. WakeFirst'
  BY <1>1, <1>2 DEF RInv, WakeFirst
<1>6. StopTracked'
  BY <1>1, <1>2 DEF RInv, StopTracked, LastStopSeen, Baselines
<1>7. StopLasts'
  <2>1. \A a, b \in Threads : Ahead(relayQ', a, b) => Ahead(relayQ, a, b)
    BY <1>3 DEF Gone
  <2>2. NoWake => NoWake'
    BY <1>2 DEF NoWake
  <2>3. /\ \A t \in Threads : (Queued(t)' => Queued(t)) /\ (Sent(t)' => Sent(t))
        /\ \A t \in Threads : pc'[t] = "wakeSend" => pc[t] = "wakeSend"
    BY <1>2 DEF Queued, Sent
  <2>4. QED
    BY <1>1, <2>1, <2>2, <2>3 DEF RInv, StopLasts
<1> QED  BY <1>4, <1>5, <1>6, <1>7 DEF RInv

\* (start) Its STOP, sent and waited for.
LEMMA AwaitStartRelay ==
  ASSUME IInv, RInv, SendStart \/ AwaitStart
  PROVE  RInv'
<1> USE ThreadAssumption DEF Threads
<1>1. CASE /\ pc[Life] = "startSend" /\ Holds(relayQ, Life)
           /\ wire' = "STOP" /\ relayQ' = Tail(relayQ)
           /\ pc' = [pc EXCEPT ![Life] = "startWait"]
           /\ UNCHANGED <<lifeVars, trackVars, intentVars, why>>
  <2> USE <1>1 DEF lifeVars, trackVars, intentVars
  <2>1. Life \in Threads /\ pc \in [Threads -> Pcs]
    BY DEF IInv, Typed
  <2>2. pc'[Life] = "startWait" /\ \A t \in Threads \ {Life} : pc'[t] = pc[t]
    BY <2>1
  <2>3. Gone(Threads, relayQ, relayQ', Life)
    BY <2>1, LeavingQueue DEF RInv, RelayQueue
  <2>4. RelayQueue'
    BY <2>1, <2>2, <2>3 DEF RInv, RelayQueue, Gone, RelayPcs
  <2>5. WakeFirst' /\ StopTracked'
    BY <2>2 DEF RInv, WakeFirst, StopTracked, LastStopSeen
  <2>6. StopLasts'
    <3>1. \A a, b \in Threads : Ahead(relayQ', a, b) => Ahead(relayQ, a, b)
      BY <2>3 DEF Gone
    <3>2. NoWake => NoWake'
      BY <2>2 DEF NoWake
    <3>3. /\ \A t \in Threads : (Queued(t)' => Queued(t)) /\ (Sent(t)' => Sent(t))
          /\ \A t \in Threads : Pending(t) => Pending(t)'
          /\ \A t \in Threads : pc'[t] = "wakeSend" => pc[t] = "wakeSend"
      BY <2>2 DEF Queued, Sent, Pending
    <3>4. QED
      BY <3>1, <3>2, <3>3 DEF RInv, StopLasts
  <2>7. QED
    BY <2>4, <2>5, <2>6 DEF RInv
<1>2. CASE SendStart
  BY <1>1, <1>2, StartedRelay DEF SendStart
<1>3. CASE AwaitStart
  BY <1>3, StartedRelay DEF AwaitStart
<1> QED  BY <1>2, <1>3

\* (stop) The STOP of shutdown queues behind what waits for the relay.
LEMMA CloseRelay ==
  ASSUME IInv, RInv, Close
  PROVE  RInv'
<1> USE ThreadAssumption DEF Threads, Close, Invalidate
<1>1. Life \in Threads /\ pc \in [Threads -> Pcs] /\ ~Waits(relayQ, Life)
  BY DEF IInv, Typed, RInv, RelayQueue, RelayPcs
<1>2. pc'[Life] = "closeSend" /\ \A t \in Threads \ {Life} : pc'[t] = pc[t]
  BY <1>1
<1>3. Joined(Threads, relayQ, relayQ', Life)
  BY <1>1, JoiningQueue DEF RInv, RelayQueue
<1>4. RelayQueue'
  BY <1>1, <1>2, <1>3 DEF RInv, RelayQueue, Joined, RelayPcs
<1>5. WakeFirst' /\ StopTracked'
  BY DEF WakeFirst, StopTracked, LastStopSeen, ResetMotion
<1>6. StopLasts'
  <2>1. ASSUME NEW a \in Threads, NEW b \in Threads, Queued(a)', pc'[b] = "wakeSend",
               Ahead(relayQ', a, b)
        PROVE  FALSE
    <3>1. b # Life /\ pc[b] = "wakeSend" /\ Ahead(relayQ, a, b)
      BY <1>2, <1>3, <2>1 DEF Joined
    <3>2. a # Life
      BY <1>1, <3>1 DEF Ahead, Waits
    <3>3. QED
      BY <1>2, <2>1, <3>1, <3>2 DEF Queued, RInv, StopLasts
  <2>2. \A t \in Threads : Sent(t)' => Sent(t)
    BY <1>2 DEF Sent
  <2>3. NoWake => NoWake'
    BY <1>2 DEF NoWake
  <2>4. Pending(Life)'
    BY <1>2 DEF Pending, Queued
  <2>5. QED
    BY <1>1, <2>1, <2>2, <2>3, <2>4 DEF RInv, StopLasts
<1> QED  BY <1>4, <1>5, <1>6 DEF RInv

\* (stop) It goes out, and the runner is taken out of the queue.
LEMMA SendCloseRelay ==
  ASSUME IInv, RInv, SendClose
  PROVE  RInv'
<1> USE ThreadAssumption DEF Threads, SendClose
<1>1. /\ Life \in Threads /\ Runner \in Threads
      /\ pc \in [Threads -> Pcs] /\ why \in [Threads -> Reasons]
      /\ closing /\ UNCHANGED <<closing, control, newer, current>>
  BY DEF IInv, Typed, LifeFirst, lifeVars, intentVars
<1>2. /\ pc'[Life] = "closeJoin"
      /\ pc'[Runner] = IF pc[Runner] \in StopPcs THEN pc[Runner] ELSE "dead"
      /\ \A t \in Threads \ {Life, Runner} : pc'[t] = pc[t]
  BY <1>1
<1>3. \A t \in Threads \ {Life} : why'[t] = why[t]
  BY <1>1
<1>4. relayQ \in Seq(Threads) /\ Once(relayQ)
  BY DEF RInv, RelayQueue
<1>5. Gone(Threads, relayQ, Tail(relayQ), Life)
  BY <1>1, <1>4, LeavingQueue
<1>6. relayQ' = Without(Tail(relayQ), Runner) => Gone(Threads, Tail(relayQ), relayQ', Runner)
  <2>1. Tail(relayQ) \in Seq(Threads) /\ Once(Tail(relayQ))
    BY <1>5 DEF Gone
  <2> HIDE DEF SendClose
  <2>2. Gone(Threads, Tail(relayQ), Without(Tail(relayQ), Runner), Runner)
    BY <1>1, <2>1, LeavingQueue
  <2>3. QED
    BY <2>2
<1>7. RelayQueue'
  <2>1. CASE pc[Runner] \in StopPcs
    BY <1>1, <1>2, <1>5, <2>1 DEF RInv, RelayQueue, Gone, RelayPcs, StopPcs
  <2>2. CASE pc[Runner] \notin StopPcs
    BY <1>1, <1>2, <1>5, <1>6, <2>2 DEF RInv, RelayQueue, Gone, RelayPcs, StopPcs
  <2>3. QED
    BY <2>1, <2>2
<1>8. WakeFirst'
  BY <1>1, <1>2 DEF RInv, WakeFirst, StopPcs
<1>9. StopTracked'
  BY <1>1 DEF StopTracked, LastStopSeen
<1>10. NoWake
  <2>1. ASSUME NEW b \in Threads, pc[b] = "wakeSend" PROVE FALSE
    <3>1. Waits(relayQ, b) /\ b # Life
      BY <2>1 DEF RInv, RelayQueue, RelayPcs
    <3>2. Ahead(relayQ, Life, b)
      BY <1>4, <3>1, HeadLeaves
    <3>3. QED
      BY <1>1, <2>1, <3>2 DEF RInv, StopLasts, Queued
  <2>2. QED
    BY <2>1 DEF NoWake
<1>11. NoWake'
  <2>1. pc'[Life] # "wakeSend" /\ pc'[Runner] # "wakeSend"
    BY <1>2 DEF StopPcs
  <2>2. \A t \in Threads \ {Life, Runner} : pc'[t] # "wakeSend"
    BY <1>2, <1>10 DEF NoWake
  <2>3. QED
    BY <2>1, <2>2 DEF NoWake
<1>12. \A t \in Threads : Sent(t)' => wire' = "STOP"
  <2>1. Sent(Life)' => wire' = "STOP"
    BY <1>1, <1>2 DEF Sent
  <2>2. \A t \in Threads \ {Life} : Sent(t)' => Sent(t)
    BY <1>2 DEF Sent, StopPcs
  <2>3. QED
    BY <2>1, <2>2 DEF RInv, StopLasts
<1>13. Pending(Life)'
  BY <1>2 DEF Pending
<1>14. StopLasts'
  BY <1>1, <1>11, <1>12, <1>13 DEF StopLasts, NoWake
<1> QED  BY <1>7, <1>8, <1>9, <1>14 DEF RInv

\* (stop) STOPPED is published for a STOP that went out.
LEMMA ClosedRelay ==
  ASSUME IInv, RInv, Closed
  PROVE  RInv'
<1> USE ThreadAssumption DEF Threads, Closed
<1>1. /\ Life \in Threads /\ pc \in [Threads -> Pcs]
      /\ closing /\ closing' = closing
      /\ control'.mode = control.mode /\ control'.awaiting = control.awaiting
      /\ control'.public = "STOPPED" => why[Life] = "plain"
  BY DEF IInv, Typed, LifeFirst, Fits, Controls
<1>2. pc'[Life] = "down" /\ \A t \in Threads \ {Life} : pc'[t] = pc[t]
  BY <1>1
<1>3. RelayQueue'
  BY <1>1, <1>2 DEF RInv, RelayQueue, RelayPcs
<1>4. WakeFirst'
  BY <1>1, <1>2 DEF RInv, WakeFirst
<1>5. StopTracked'
  BY <1>1 DEF StopTracked, LastStopSeen
<1>6. NoWake => NoWake'
  BY <1>2 DEF NoWake
<1>7. why[Life] = "plain" => wire = "STOP" /\ NoWake
  BY <1>1 DEF RInv, StopLasts, Sent
<1>8. \A t \in Threads : (Queued(t)' => Queued(t)) /\ (Sent(t)' => Sent(t))
  BY <1>2 DEF Queued, Sent
<1>9. StopLasts'
  BY <1>1, <1>2, <1>6, <1>7, <1>8 DEF RInv, StopLasts
<1> QED  BY <1>3, <1>4, <1>5, <1>9 DEF RInv

-----------------------------------------------------------------------------
(* The theorems *)

\* A status, a reading or a deadline makes observers see more, never less.
LEMMA EnvironmentRelay ==
  ASSUME IInv, RInv, Environment \/ UNCHANGED vars
  PROVE  RInv'
<1> USE DEF lifeVars, trackVars, intentVars, threadVars
<1>1. UNCHANGED <<control, closing, stopping, current, pc, why, relayQ, wire>>
  BY DEF Environment, Report, ReportLost, Observe, SensorStep, Elapse, vars
<1>2. newer' = newer \/ newer' = {"wake", "fine"}
  BY DEF Environment, Report, ReportLost, Observe, SensorStep, Elapse, vars
<1>3. fresh' = fresh \/ "lastStop" \in fresh'
  BY DEF Environment, Report, ReportLost, Observe, SensorStep, Elapse, vars, Baselines
<1>4. RelayQueue'
  BY <1>1 DEF RInv, RelayQueue
<1>5. WakeFirst'
  BY <1>1, <1>2 DEF RInv, WakeFirst
<1>6. StopTracked'
  BY <1>1, <1>3 DEF RInv, StopTracked, LastStopSeen
<1>7. StopLasts'
  BY <1>1 DEF RInv, StopLasts, Queued, Sent, Pending, NoWake
<1> QED  BY <1>4, <1>5, <1>6, <1>7 DEF RInv

\* (__init__) Nobody waits for the relay and nothing has been sent.
LEMMA InitRelay == Init => RInv
<1> SUFFICES ASSUME Init PROVE RInv
  OBVIOUS
<1> USE DEF Init
<1>1. \A t \in Threads : pc[t] \in {"idle", "off"}
  OBVIOUS
<1>2. RelayQueue
  BY <1>1, EmptyQueue, ThreadAssumption DEF RelayQueue, RelayPcs, Threads
<1>3. WakeFirst /\ StopTracked
  BY DEF WakeFirst, StopTracked, LastStopSeen, Baselines
<1>4. StopLasts
  BY <1>1 DEF StopLasts, Queued, Sent, PlainStop
<1> QED  BY <1>2, <1>3, <1>4 DEF RInv

\* Every step of every thread keeps it.
LEMMA StepRelay == IInv /\ RInv /\ [Next]_vars => RInv'
<1> SUFFICES ASSUME IInv, RInv, [Next]_vars PROVE RInv'
  OBVIOUS
<1>1. ASSUME NEW t \in Users \cup {Runner}, StopStep(t) \/ SendWake(t) PROVE RInv'
  BY <1>1, BeginStopRelay, WaitRelay DEF StopStep
<1>2. CASE \E u \in Users : Call(u) \/ UserStep(u)
  BY <1>1, <1>2, RequestRelay DEF UserStep
<1>3. CASE RunnerCycle
  BY <1>3, IdleRelay, WakeRelay, AbandonRelay, PursuitRelay DEF RunnerCycle
<1>4. CASE RunnerStep
  BY <1>1, <1>3, <1>4, PublishRelay DEF RunnerStep
<1>5. CASE LifeStep
  BY <1>5, StartRelay, AwaitStartRelay, CloseRelay, SendCloseRelay, ClosedRelay DEF LifeStep
<1> QED  BY <1>2, <1>4, <1>5, EnvironmentRelay DEF Next

\* (_relay_io_lock, _activate_after_wake, _stop_and_confirm) The invariant of this
\* module holds in every reachable state.
THEOREM RelayInvariant == Spec => []RInv
BY Inductive, InitRelay, StepRelay, PTL DEF Spec

\* (_activate_after_wake, _publish_pulse) A pulse that counts is on its way only
\* after a height observed after the WAKE of its intent.
THEOREM WakeComesFirst == Spec => []WakeBeforeMotion
<1>1. RInv => WakeBeforeMotion
  BY DEF RInv, WakeFirst, WakeBeforeMotion
<1> QED  BY <1>1, RelayInvariant, PTL

-----------------------------------------------------------------------------
(* Who shows STOPPED *)

\* (_ControlState) Neither does a step that leaves the published state as it is, nor one
\* that raises a STOP.
LEMMA ActsStopped ==
  ASSUME IInv, NEW t, Acts(t, control.public), closing' = closing,
         stopping' = TRUE \/ stopping' = stopping, Stopped'
  PROVE  Stopped
BY DEF Acts, Keeps, Sets, Wakes, Halts, Stopped, IInv, Typed

\* (_stop_and_confirm) Nor does a stop that failed.
LEMMA FailedStopped ==
  ASSUME IInv, RInv, NEW t \in Users \cup {Runner}, pc[t] \in {"stopSend", "stopWait"},
         FinishStop(t, FALSE)
  PROVE  ~Stopped'
<1>1. Acts(t, "ERROR") /\ ~stopping'
  BY FinishStopActs DEF RInv, FinishStop
<1> QED
  BY <1>1 DEF Acts, Keeps, Sets, Wakes, Halts, Stopped

\* (_run_cycle) Nor does the runner between its stops.
LEMMA RunnerStopped ==
  ASSUME IInv, RunnerCycle \/ GrantPulse \/ SendPulse \/ SendSettle, Stopped'
  PROVE  Stopped
<1> USE DEF IInv, Fits, Controls, Stopped, lifeVars, intentVars
<1>1. UNCHANGED <<closing, stopping>>
  BY DEF RunnerCycle, QueueForStartup, IdleCycle, StartupWake, Watch, WakeCycle, AbandonCycle,
         QuietCycle, PulseCycle, FineCycle, SettleCycle, GrantPulse, SendPulse, SendSettle
<1>2. CASE QueueForStartup \/ IdleCycle
  BY <1>1, <1>2 DEF QueueForStartup, IdleCycle, StartupWake, Watch, BeginWake
<1>3. CASE WakeCycle
  <2> DEFINE d == IF control.mode = "TARGET" THEN Toward(control.target) ELSE control.dir
             Moved == [control EXCEPT
                         !.public = IF control.mode = "TARGET" THEN "MOVING" ELSE "MANUAL",
                         !.dir = d, !.awaiting = FALSE]
  <2>1. Activate => control' \in {control, PlainStop("IDLE"), Moved}
    BY DEF Activate
  <2>2. PlainStop("IDLE").public # "STOPPED" /\ Moved.public # "STOPPED"
    <3> HIDE DEF d
    <3> QED
      BY DEF PlainStop
  <2>3. control' = control \/ control'.public # "STOPPED"
    <3> HIDE DEF Moved
    <3> QED
      BY <1>3, <2>1, <2>2 DEF WakeCycle
  <2>4. QED
    BY <1>1, <2>3
<1>4. CASE AbandonCycle \/ QuietCycle \/ PulseCycle \/ FineCycle \/ SettleCycle
  BY <1>1, <1>4 DEF AbandonCycle, QuietCycle, PulseCycle, FineCycle, SettleCycle
<1>5. CASE GrantPulse \/ SendPulse \/ SendSettle
  BY <1>1, <1>5 DEF GrantPulse, SendPulse, SendSettle
<1> QED
  BY <1>2, <1>3, <1>4, <1>5 DEF RunnerCycle

\* (start, stop) Nor does the lifecycle while the controller is open.
LEMMA LifeStopped ==
  ASSUME IInv, LifeStep, Stopped'
  PROVE  Stopped
<1> USE DEF IInv, Fits, Controls, Stopped, lifeVars, intentVars
<1>1. CASE Start
  BY <1>1 DEF Start, PlainStop
<1>2. CASE SendStart \/ AwaitStart
  BY <1>2 DEF SendStart, AwaitStart, Started
<1>3. CASE Close \/ SendClose \/ Closed
  BY <1>3 DEF Close, SendClose, Closed, LifeFirst
<1> QED
  BY <1>1, <1>2, <1>3 DEF LifeStep

\* (_wait_for_fresh_stop) The only step that does is the confirmed end of a stop.
LEMMA StoppedByStop ==
  ASSUME IInv, RInv, [Next]_vars, ~Stopped, Stopped'
  PROVE  \E t \in Users \cup {Runner} : AwaitStop(t) /\ StopSeen(t)
<1>1. ASSUME NEW u \in Users, Call(u) \/ Enter(u) PROVE FALSE
  <2>1. Acts(u, control.public)
    BY <1>1, RequestActs DEF RInv
  <2>2. QED
    BY <1>1, <2>1, RequestFlags, ActsStopped
<1>2. ASSUME NEW t \in Users \cup {Runner}, BeginStop(t) PROVE FALSE
  <2>1. Acts(t, control.public)
    BY <1>2, BeginStopActs DEF RInv
  <2>2. closing' = closing /\ (stopping' = TRUE \/ stopping' = stopping)
    BY <1>2 DEF BeginStop, TakeStop, lifeVars
  <2>3. QED
    BY <2>1, <2>2, ActsStopped
<1>3. ASSUME NEW t \in Users \cup {Runner}, SendStop(t) \/ SendWake(t) PROVE FALSE
  <2>1. UNCHANGED <<lifeVars, intentVars>> => FALSE
    BY DEF Stopped, lifeVars, intentVars
  <2>2. CASE pc[t] = "stopSend" /\ FinishStop(t, FALSE)
    BY <2>2, FailedStopped
  <2>3. QED
    BY <1>3, <2>1, <2>2 DEF SendStop, SendWake
<1>4. ASSUME NEW t \in Users \cup {Runner}, AwaitStop(t) PROVE StopSeen(t)
  BY <1>4, FailedStopped DEF AwaitStop
<1>5. CASE Environment \/ UNCHANGED vars
  BY <1>5 DEF Environment, Report, ReportLost, Observe, SensorStep, Elapse, vars, lifeVars,
              intentVars, Stopped
<1> QED
  BY <1>1, <1>2, <1>3, <1>4, <1>5, RunnerStopped, LifeStopped
  DEF Next, UserStep, RunnerStep, StopStep

\* (_stop_and_confirm, _wait_for_fresh_stop) However many stops overlap: STOPPED is shown
\* at rest only with a STOP as the last command out, and a STOP status, not refused,
\* newer than the last request for one.
THEOREM StoppedConfirmed == Spec => StoppedIsConfirmed
<1>1. ASSUME IInv, RInv, [Next]_vars, ~Stopped, Stopped'
      PROVE  /\ wire' = "STOP" /\ relay'.state = "STOP" /\ relay'.health # "refused"
             /\ "lastStop" \in fresh'
  <2>1. PICK t \in Users \cup {Runner} : AwaitStop(t) /\ StopSeen(t)
    BY <1>1, StoppedByStop
  <2>2. t \in Threads /\ wire' = wire /\ relay' = relay /\ Sent(t)
    BY <2>1 DEF AwaitStop, FinishStop, envVars, Sent, Threads
  <2>3. wire = "STOP"
    BY <1>1, <2>2 DEF RInv, StopLasts
  <2>4. "lastStop" \in fresh'
    BY <1>1, StepRelay DEF RInv, StopTracked, LastStopSeen, Stopped
  <2>5. QED
    BY <2>1, <2>2, <2>3, <2>4 DEF StopSeen
<1> QED  BY <1>1, Inductive, RelayInvariant, PTL DEF Spec, StoppedIsConfirmed

\* (_relay_io_lock, _stop_and_confirm) Nothing moves the desk behind a STOP: at rest
\* without an intent, STOP was the last thing to go out.
THEOREM StopComesLast == Spec => []StopIsLast
<1>1. IInv /\ RInv => StopIsLast
  <2> SUFFICES ASSUME IInv, RInv, Quiet, control.mode = "NONE",
                      control.public \notin {"ERROR", "IDLE"}
               PROVE  wire \in {"none", "STOP"}
    BY DEF StopIsLast
  <2>1. control.public = "STOPPED"
    BY DEF IInv, Fits
  <2>2. \A t \in Threads : ~Pending(t)
    BY DEF Quiet, Pending, Queued
  <2>3. QED
    BY <2>1, <2>2 DEF RInv, StopLasts
<1> QED  BY <1>1, Inductive, RelayInvariant, PTL

-----------------------------------------------------------------------------
(* Type correctness *)

Deadlines == {"hold", "target", "wake"}
Pulses == [dir : Directions \cup {"none"}, fine : BOOLEAN]
Relays == [state : {"none", "STOP", "UP", "DOWN"},
           health : {"none", "ready", "busy", "waiting", "refused", "unusable"}]
Readings == [status : {"NONE", "STALE", "ONLINE", "ERROR", "LOST"}, value : Heights]
Wires == {"none", "STOP", "UP", "DOWN", "WAKE"}

\* What TypeOK says beyond IInv and RInv, and what keeps it.
TInv == /\ overdue \subseteq Deadlines
        /\ fresh \subseteq Baselines \cup Threads
        /\ newer \subseteq {"wake", "fine"}
        /\ current \subseteq Threads
        /\ firstPulse \in BOOLEAN /\ confirmed \in BOOLEAN
        /\ intentQ \in Seq(Threads)
        /\ pulse \in Pulses /\ relay \in Relays /\ height \in Readings /\ wire \in Wires

\* What a step of t may do to deadlines, baselines and generations, and to the queue
\* of _intent_lock.
Marks(t) == /\ overdue' \subseteq overdue
            /\ fresh' \subseteq fresh \cup Baselines
            /\ newer' \subseteq newer \cup {"wake", "fine"}
            /\ current' \subseteq current \cup {t}
            /\ firstPulse' \in BOOLEAN \cup {firstPulse}
            /\ confirmed' \in BOOLEAN \cup {confirmed}
Queues(t) == \/ intentQ' \in {intentQ, <<t>>, Append(intentQ, t), Without(intentQ, t)}
             \/ Holds(intentQ, t) /\ intentQ' = Tail(intentQ)
Moves(t) == Marks(t) /\ Queues(t)

\* Such a step keeps the types.
LEMMA MovesTyped ==
  ASSUME TInv, NEW t \in Threads, Moves(t), pulse' \in Pulses, wire' \in Wires,
         UNCHANGED envVars
  PROVE  TInv'
<1> USE DEF TInv
<1>1. intentQ' \in Seq(Threads)
  <2>1. Append(intentQ, t) \in Seq(Threads) /\ <<t>> \in Seq(Threads)
    OBVIOUS
  <2>2. Without(intentQ, t) \in Seq(Threads)
    BY LeaveQueue
  <2>3. Holds(intentQ, t) => Tail(intentQ) \in Seq(Threads)
    BY HeadLeaves
  <2>4. QED
    BY <2>1, <2>2, <2>3 DEF Moves, Queues
<1> QED  BY <1>1 DEF Moves, Marks, envVars

\* (_set_target, _hold) A request after its transition stop.
LEMMA PursueMoves ==
  ASSUME NEW t, NEW r, NEW c, PursueTarget(t, r, c) \/ PursueHold(t, r, c)
  PROVE  Moves(t)
<1>1. CASE PursueTarget(t, r, c)
  BY <1>1 DEF Moves, Marks, Queues, PursueTarget, BeginWake, BeginMotion, StopMotion, Return,
     ResetMotion, StartTracking, Answer, Suspend, Baselines
<1>2. CASE PursueHold(t, r, c)
  BY <1>2 DEF Moves, Marks, Queues, PursueHold, BeginMotion, Return, StartTracking, Answer,
     Baselines
<1> QED  BY <1>1, <1>2

\* (DeskController's public coroutines) A request before one.
LEMMA RequestMoves ==
  ASSUME NEW u \in Users, Call(u) \/ Enter(u)
  PROVE  Moves(u) /\ UNCHANGED <<pulse, envVars, wire>>
<1> USE DEF Moves, Marks, Queues, intentVars, trackVars
<1>1. CASE Call(u)
  BY <1>1 DEF Call
<1>2. ASSUME NEW r, Invalid(u, r) PROVE Moves(u)
  BY <1>2 DEF Invalid, StopMotion, Suspend, Return, Answer
<1>3. ASSUME TakeStop(u), NEW r, Suspend(u, r, "stopSend") PROVE Moves(u)
  BY <1>3 DEF TakeStop, Invalidate, ResetMotion, Suspend, Baselines
<1>4. ASSUME Return(u, control) PROVE Moves(u)
  BY <1>4 DEF Return, Answer
<1>5. ASSUME NEW r, SetTarget(u, r) PROVE Moves(u)
  BY <1>2, <1>3, <1>4, <1>5, PursueMoves DEF SetTarget
<1>6. ASSUME NEW r, AdjustTarget(u, r) PROVE Moves(u)
  BY <1>2, <1>4, <1>5, <1>6 DEF AdjustTarget
<1>7. ASSUME NEW r, HoldWhileAlive(u, r) PROVE Moves(u)
  <2>1. CASE RefreshHold(u)
    BY <2>1 DEF RefreshHold, Answer
  <2>2. CASE BeginWake(u, r, "MANUAL", r.dir, NoTarget)
    BY <2>2 DEF BeginWake, StartTracking, Suspend
  <2>3. QED
    BY <1>3, <1>4, <1>7, <2>1, <2>2, PursueMoves DEF HoldWhileAlive
<1>8. ASSUME NEW r, Serve(u, r) PROVE Moves(u)
  <2>1. CASE StopMotion(u, r, "plain") /\ UNCHANGED <<intentVars, trackVars>>
    BY <2>1 DEF StopMotion, Suspend
  <2>2. QED
    BY <1>4, <1>5, <1>6, <1>7, <1>8, <2>1 DEF Serve, Hold
<1>9. UNCHANGED <<pulse, envVars, wire>>
  BY DEF Call, Enter, Serve
<1> QED  BY <1>1, <1>8, <1>9 DEF Enter

\* (_stop_and_confirm) What follows a stop.
LEMMA ContinueMoves ==
  ASSUME NEW t, NEW c, NEW ok, Continue(t, c, ok)
  PROVE  Moves(t)
<1>1. CASE Return(t, c)
  BY <1>1 DEF Moves, Marks, Queues, Return, Answer
<1>2. CASE t = Runner
  BY <1>2, ThreadAssumption DEF Moves, Marks, Queues, Continue, Divert
<1> QED  BY <1>1, <1>2, PursueMoves DEF Continue

\* (_stop_and_confirm, _begin_wake) Stops and WAKEs.
LEMMA StopMoves ==
  ASSUME NEW t \in Users \cup {Runner}, StopStep(t) \/ SendWake(t)
  PROVE  Moves(t) /\ UNCHANGED <<pulse, envVars>> /\ wire' \in {wire, "STOP", "WAKE"}
<1> USE DEF Moves, Marks, Queues, intentVars, trackVars
<1>1. CASE BeginStop(t)
  <2>1. ASSUME TakeStop(t), UNCHANGED intentQ PROVE Moves(t)
    BY <2>1 DEF TakeStop, Invalidate, ResetMotion, Baselines
  <2>2. QED
    BY <1>1, <2>1, ContinueMoves DEF BeginStop
<1>2. ASSUME NEW ok, FinishStop(t, ok) PROVE Moves(t)
  BY <1>2, ContinueMoves DEF FinishStop
<1>3. CASE SendStop(t)
  BY <1>2, <1>3 DEF SendStop, FinishStop
<1>4. CASE AwaitStop(t)
  BY <1>2, <1>4 DEF AwaitStop, FinishStop
<1>5. CASE SendWake(t)
  BY <1>5 DEF SendWake, Answer, Divert
<1> QED  BY <1>1, <1>3, <1>4, <1>5 DEF StopStep

\* (_run, _run_cycle) The runner.
LEMMA RunnerMoves ==
  ASSUME IInv, TInv, RunnerCycle \/ GrantPulse \/ SendPulse \/ SendSettle
  PROVE  Moves(Runner) /\ pulse' \in Pulses /\ wire' \in Wires /\ UNCHANGED envVars
<1> USE DEF Moves, Marks, Queues, intentVars, trackVars, threadVars
<1>1. wire \in Wires /\ pulse \in Pulses /\ NoPulse \in Pulses
  BY DEF TInv, NoPulse, Pulses
<1>2. Needed \in Directions \cup {"none"}
  BY DEF Needed, Toward, Directions, IInv, Fits, Controls
<1>3. ASSUME NEW w, Divert(Runner, w), UNCHANGED <<current, overdue, newer, trackVars>>
      PROVE  Moves(Runner)
  BY <1>3 DEF Divert
<1>4. CASE QueueForStartup
  BY <1>1, <1>4 DEF QueueForStartup
<1>5. CASE IdleCycle
  <2>1. ASSUME Watch PROVE Moves(Runner)
    BY <2>1 DEF Watch
  <2>2. ASSUME StartupWake PROVE Moves(Runner)
    BY <2>2 DEF StartupWake, BeginWake, StartTracking, Suspend, Answer
  <2>3. QED
    BY <1>1, <1>5, <2>1, <2>2 DEF IdleCycle
<1>6. CASE WakeCycle
  <2>1. ASSUME Activate PROVE Moves(Runner)
    BY <2>1 DEF Activate, Divert, ResetMotion, StartTracking, Baselines
  <2>2. QED
    BY <1>1, <1>3, <1>6, <2>1 DEF WakeCycle
<1>7. CASE AbandonCycle
  BY <1>1, <1>7 DEF AbandonCycle, Evaluate, Divert
<1>8. CASE QuietCycle
  BY <1>1, <1>8 DEF QuietCycle, Evaluate
<1>9. ASSUME NEW fine \in BOOLEAN, Publish(Needed, fine)
      PROVE  /\ pulse' \in Pulses /\ wire' \in Wires
             /\ current' \subseteq current \cup {Runner} /\ newer' \subseteq newer
  <2>1. [dir |-> Needed, fine |-> fine] \in Pulses /\ Needed \in Wires
    BY <1>2 DEF Pulses, Wires, Directions
  <2>2. QED
    BY <1>1, <1>9, <2>1 DEF Publish
<1>10. CASE PulseCycle
  BY <1>9, <1>10 DEF PulseCycle, Evaluate
<1>11. CASE FineCycle
  BY <1>1, <1>9, <1>11 DEF FineCycle, Evaluate, SkipPublish
<1>12. CASE SettleCycle
  BY <1>1, <1>12 DEF SettleCycle
<1>13. CASE GrantPulse
  <2>1. pulse.dir \in Wires
    BY <1>1 DEF Pulses, Wires, Directions
  <2>2. QED
    BY <1>1, <1>13, <2>1 DEF GrantPulse
<1>14. CASE SendPulse
  BY <1>1, <1>14 DEF SendPulse, Divert
<1>15. CASE SendSettle
  BY <1>1, <1>15 DEF SendSettle, Divert, Wires
<1> QED
  BY <1>4, <1>5, <1>6, <1>7, <1>8, <1>10, <1>11, <1>12, <1>13, <1>14, <1>15 DEF RunnerCycle

\* (start, stop) The lifecycle.
LEMMA LifeTyped ==
  ASSUME TInv, LifeStep
  PROVE  TInv'
<1> USE ThreadAssumption DEF Threads, Moves, Marks, Queues, intentVars, trackVars
<1>1. wire \in Wires /\ "STOP" \in Wires /\ pulse \in Pulses /\ NoPulse \in Pulses
  BY DEF TInv, NoPulse, Pulses, Wires
<1>2. CASE Start
  BY <1>1, <1>2, MovesTyped DEF Start, ResetMotion, Baselines
<1>3. ASSUME NEW ok, Started(ok), wire' \in Wires PROVE TInv'
  BY <1>1, <1>3, MovesTyped DEF Started
<1>4. CASE SendStart
  <2>1. CASE wire' = "STOP" /\ UNCHANGED <<trackVars, intentVars, pulse, intentQ, envVars>>
    BY <1>1, <2>1, MovesTyped
  <2>2. QED
    BY <1>1, <1>3, <1>4, <2>1 DEF SendStart
<1>5. CASE AwaitStart
  BY <1>1, <1>3, <1>5 DEF AwaitStart
<1>6. CASE Close
  BY <1>1, <1>6, MovesTyped DEF Close, Invalidate, ResetMotion, Baselines
<1>7. CASE SendClose
  <2>1. Moves(Runner) /\ pulse' \in Pulses /\ wire' \in Wires /\ UNCHANGED envVars
    BY <1>1, <1>7 DEF SendClose
  <2>2. QED
    BY <2>1, MovesTyped
<1>8. CASE Closed
  BY <1>1, <1>8, MovesTyped DEF Closed
<1> QED  BY <1>2, <1>4, <1>5, <1>6, <1>7, <1>8 DEF LifeStep

\* The relay, the sensor and the clock.
LEMMA EnvironmentTyped ==
  ASSUME TInv, Environment \/ UNCHANGED vars
  PROVE  TInv'
<1> USE RangeAssumption DEF TInv, lifeVars, trackVars, intentVars, threadVars, envVars
<1>1. CASE Report
  BY <1>1 DEF Report, Relays, Listeners
<1>2. CASE ReportLost
  BY <1>2 DEF ReportLost, Relays
<1>3. CASE Observe
  BY <1>3 DEF Observe, Readings
<1>4. CASE SensorStep
  BY <1>4 DEF SensorStep, SensorSteps, Readings
<1>5. CASE Elapse
  BY <1>5 DEF Elapse, Deadlines
<1>6. CASE UNCHANGED vars
  BY <1>6 DEF vars
<1> QED  BY <1>1, <1>2, <1>3, <1>4, <1>5, <1>6 DEF Environment

\* (_ControlState and the fields of DeskController) Every field and local keeps to
\* its values; the direction of an intent, in particular, is never the relay's STOP.
THEOREM TypeCorrect == Spec => []TypeOK
<1>1. Init => TInv
  <2> SUFFICES ASSUME Init PROVE TInv
    OBVIOUS
  <2>1. intentQ \in Seq(Threads)
    BY EmptyQueue DEF Init
  <2>2. QED
    BY <2>1 DEF Init, TInv, NoPulse, Pulses, Relays, Readings, Wires
<1>2. IInv /\ TInv /\ [Next]_vars => TInv'
  <2> SUFFICES ASSUME IInv, TInv, [Next]_vars PROVE TInv'
    OBVIOUS
  <2> USE DEF Threads
  <2>1. ASSUME NEW t \in Users \cup {Runner}, StopStep(t) \/ SendWake(t) PROVE TInv'
    BY <2>1, StopMoves, MovesTyped DEF TInv, Wires
  <2>2. CASE \E u \in Users : Call(u) \/ UserStep(u)
    <3>1. ASSUME NEW u \in Users, Call(u) \/ Enter(u) PROVE TInv'
      BY <3>1, RequestMoves, MovesTyped DEF TInv
    <3>2. QED
      BY <2>1, <2>2, <3>1 DEF UserStep
  <2>3. CASE RunnerStep
    BY <2>1, <2>3, RunnerMoves, MovesTyped DEF RunnerStep
  <2>4. QED
    BY <2>2, <2>3, LifeTyped, EnvironmentTyped DEF Next
<1>3. IInv /\ RInv /\ TInv => TypeOK
  <2> SUFFICES ASSUME IInv, RInv, TInv PROVE TypeOK
    OBVIOUS
  <2> USE DEF TInv
  <2>1. control \in Controls /\ pc \in [Threads -> Pcs] /\ why \in [Threads -> Reasons]
        /\ relayQ \in Seq(Threads)
    BY DEF IInv, Fits, Typed, RInv, RelayQueue
  <2>2. {running, closing, stopping, startup, firstPulse, confirmed} \subseteq BOOLEAN
    BY DEF IInv, Typed
  <2>3. pulse.dir \in Directions \cup {"none"} /\ pulse.fine \in BOOLEAN
    BY DEF Pulses
  <2>4. relay.state \in {"none", "STOP", "UP", "DOWN"} /\ height.value \in Heights
    BY DEF Relays, Readings
  <2>5. QED
    BY <2>1, <2>2, <2>3, <2>4 DEF TypeOK, Controls, Deadlines, Wires
<1> QED  BY <1>1, <1>2, <1>3, Inductive, RelayInvariant, PTL DEF Spec

-----------------------------------------------------------------------------
(* The two locks *)

\* Where a thread may have _intent_lock, or wait for it.
IntentPcs == {"intent", "wakeSend"} \cup StopPcs

\* Who is in the queue of the intent lock is at work under it or waits at "intent",
\* and who waits there is in the queue.
Owned == /\ intentQ \in Seq(Threads) /\ Once(intentQ)
         /\ \A t \in Threads : /\ Waits(intentQ, t) => pc[t] \in IntentPcs
                               /\ Waits(intentQ, t) => Holds(intentQ, t) \/ pc[t] = "intent"
                               /\ pc[t] = "intent" => Waits(intentQ, t)

\* Nobody has gone away with a lock. Who has the intent lock is about to enter, in a
\* stop or behind a WAKE, where it may wait for the relay lock; who has that one is
\* publishing and waits for no lock, so that the two never wait for each other.
NoCircularWait == /\ intentQ # <<>> => pc[Head(intentQ)] \in IntentPcs
                  /\ relayQ # <<>> => pc[Head(relayQ)] \in RelayPcs

\* The steps of t: it goes on without the lock, stays under it (or takes it), joins.
Others(t) == \A u \in Threads \ {t} : pc'[u] = pc[u]
Quit(t) == /\ Others(t) /\ pc'[t] # "intent"
           /\ intentQ' = IF Holds(intentQ, t) THEN Tail(intentQ) ELSE intentQ
Stay(t) == /\ Others(t) /\ pc'[t] \in IntentPcs \ {"intent"}
           /\ intentQ' = intentQ \/ intentQ' = IF intentQ = <<>> THEN <<t>> ELSE intentQ
Join(t) == /\ Others(t) /\ pc[t] \notin IntentPcs /\ pc'[t] = "intent"
           /\ intentQ' = Append(intentQ, t)
LockStep(t) == Quit(t) \/ Stay(t) \/ Join(t)

\* (asyncio.Lock, async with) One of t leaves the queue, or was not in it.
LEMMA GoneOwned ==
  ASSUME Owned, NEW t \in Threads, Gone(Threads, intentQ, intentQ', t), pc'[t] # "intent",
         \A u \in Threads \ {t} : \/ pc'[u] = pc[u]
                                  \/ pc[u] \notin IntentPcs /\ pc'[u] \notin IntentPcs
  PROVE  Owned'
<1>1. "intent" \in IntentPcs
  BY DEF IntentPcs
<1> QED  BY <1>1 DEF Owned, Gone

\* (asyncio.Lock, async with) Such a step of a thread that does not wait keeps the
\* invariant.
LEMMA LockStepOwned ==
  ASSUME Owned, NEW t \in Threads, LockStep(t), pc[t] = "intent" => Holds(intentQ, t)
  PROVE  Owned'
<1>1. /\ Waits(intentQ, t) => Holds(intentQ, t)
      /\ "intent" \in IntentPcs
      /\ \A u \in Threads : Holds(intentQ, u) => Waits(intentQ, u)
  BY HeadLeaves DEF Owned, IntentPcs
<1>2. CASE Quit(t)
  <2>1. Gone(Threads, intentQ, intentQ', t)
    BY <1>1, <1>2, LeavingQueue, JoiningQueue DEF Quit, Owned
  <2>2. QED
    BY <1>2, <2>1, GoneOwned DEF Quit, Others
<1>3. CASE Stay(t) /\ intentQ' = intentQ
  BY <1>1, <1>3 DEF Stay, Others, Owned
<1>4. CASE Stay(t) /\ intentQ = <<>> /\ intentQ' = <<t>>
  <2>1. intentQ' = Append(intentQ, t)
    BY <1>4
  <2>2. Joined(Threads, intentQ, intentQ', t) /\ Holds(intentQ', t)
    <3>1. ~Waits(intentQ, t)
      BY <1>4, EmptyQueue
    <3>2. Joined(Threads, intentQ, intentQ', t)
      BY <2>1, <3>1, JoiningQueue DEF Owned
    <3>3. Holds(intentQ', t)
      BY <1>4 DEF Holds
    <3>4. QED
      BY <3>2, <3>3
  <2>3. \A u \in Threads : Waits(intentQ', u) <=> u = t
    BY <1>4, <2>2, EmptyQueue DEF Joined
  <2>4. QED
    BY <1>4, <2>2, <2>3, EmptyQueue DEF Joined, Stay, Others, Owned
<1>5. CASE Join(t)
  <2>1. ~Waits(intentQ, t)
    BY <1>5 DEF Join, Owned
  <2>2. Joined(Threads, intentQ, intentQ', t)
    BY <1>5, <2>1, JoiningQueue DEF Join, Owned
  <2>3. QED
    BY <1>1, <1>5, <2>2 DEF Joined, Join, Others, Owned
<1> QED  BY <1>2, <1>3, <1>4, <1>5 DEF LockStep, Stay

\* (_set_target, _hold) A request after its transition stop.
LEMMA PursueLocks ==
  ASSUME IInv, NEW t \in Threads, NEW r, NEW c, PursueTarget(t, r, c) \/ PursueHold(t, r, c)
  PROVE  LockStep(t)
<1> USE DEF LockStep, Quit, Stay, Others, IntentPcs, StopPcs
<1>1. pc \in [Threads -> Pcs]
  BY DEF IInv, Typed
<1>2. CASE PursueTarget(t, r, c)
  BY <1>1, <1>2 DEF PursueTarget, BeginWake, BeginMotion, StopMotion, Return, Answer, Suspend
<1>3. CASE PursueHold(t, r, c)
  BY <1>1, <1>3 DEF PursueHold, BeginMotion, Return, Answer
<1> QED  BY <1>2, <1>3

\* (DeskController's public coroutines) A request before one.
LEMMA RequestLocks ==
  ASSUME IInv, Owned, NEW u \in Users, Call(u) \/ Enter(u)
  PROVE  Owned'
<1> USE DEF LockStep, Others, IntentPcs, StopPcs, Threads
<1>1. u \in Threads /\ pc \in [Threads -> Pcs]
  BY DEF IInv, Typed
<1>2. CASE Call(u)
  BY <1>1, <1>2, LockStepOwned DEF Call, Join
<1>3. ASSUME Answer(u) PROVE LockStep(u)
  BY <1>1, <1>3 DEF Answer, Quit
<1>4. ASSUME NEW r, NEW p \in {"stopTask", "stopSend", "wakeSend"}, Suspend(u, r, p)
      PROVE  LockStep(u)
  BY <1>1, <1>4 DEF Suspend, Stay
<1> HIDE DEF LockStep
<1>5. ASSUME NEW r, Invalid(u, r) PROVE LockStep(u)
  BY <1>3, <1>4, <1>5 DEF Invalid, StopMotion, Return
<1>6. ASSUME NEW r, SetTarget(u, r) PROVE LockStep(u)
  BY <1>1, <1>3, <1>4, <1>5, <1>6, PursueLocks DEF SetTarget, Return
<1>7. ASSUME NEW r, AdjustTarget(u, r) PROVE LockStep(u)
  BY <1>3, <1>5, <1>6, <1>7 DEF AdjustTarget, Return
<1>8. ASSUME NEW r, HoldWhileAlive(u, r) PROVE LockStep(u)
  BY <1>1, <1>3, <1>4, <1>8, PursueLocks DEF HoldWhileAlive, RefreshHold, BeginWake, Return
<1>9. ASSUME NEW r, Serve(u, r) PROVE LockStep(u)
  BY <1>3, <1>4, <1>6, <1>7, <1>8, <1>9 DEF Serve, Hold, StopMotion, Return
<1>10. CASE Enter(u)
  BY <1>1, <1>9, <1>10, LockStepOwned DEF Enter
<1> QED  BY <1>2, <1>10

\* (_stop_and_confirm, _begin_wake) Stops and WAKEs.
LEMMA StopLocks ==
  ASSUME IInv, Owned, NEW t \in Users \cup {Runner}, StopStep(t) \/ SendWake(t)
  PROVE  Owned'
<1> USE ThreadAssumption DEF Others, IntentPcs, StopPcs, Threads
<1>1. t \in Threads /\ pc \in [Threads -> Pcs]
  BY DEF IInv, Typed
<1>2. pc[t] # "intent"
  BY DEF StopStep, BeginStop, SendStop, AwaitStop, SendWake
<1>3. ASSUME NEW w, Divert(t, w) PROVE LockStep(t)
  BY <1>1, <1>3 DEF Divert, LockStep, Stay
<1>4. ASSUME Answer(t) PROVE LockStep(t)
  BY <1>1, <1>4 DEF Answer, LockStep, Quit
<1>5. ASSUME NEW p \in {"stopSend", "stopWait"}, pc' = [pc EXCEPT ![t] = p], UNCHANGED intentQ
      PROVE  LockStep(t)
  BY <1>1, <1>5 DEF LockStep, Stay
<1>6. ASSUME NEW c, NEW ok, Continue(t, c, ok) PROVE LockStep(t)
  <2>1. CASE Return(t, c)
    BY <1>4, <2>1 DEF Return
  <2>2. CASE t = Runner
    <3>1. CASE Divert(t, "crash")
      BY <1>3, <3>1
    <3>2. CASE /\ pc' = [pc EXCEPT ![t] = IF RunnerEnds(ok) THEN "dead" ELSE "idle"]
               /\ intentQ' = IF Holds(intentQ, t) THEN Tail(intentQ) ELSE intentQ
      BY <1>1, <3>2 DEF LockStep, Quit
    <3>3. QED
      BY <1>6, <2>2, <3>1, <3>2 DEF Continue
  <2>3. QED
    BY <1>1, <1>6, <2>1, <2>2, PursueLocks DEF Continue
<1>7. LockStep(t)
  BY <1>3, <1>4, <1>5, <1>6 DEF StopStep, BeginStop, SendStop, AwaitStop, FinishStop, SendWake
<1> QED  BY <1>1, <1>2, <1>7, LockStepOwned

\* (_run, _run_cycle) The runner: away from the lock but for the idle cycle.
LEMMA RunnerLocks ==
  ASSUME IInv, Owned, RunnerCycle \/ GrantPulse \/ SendPulse \/ SendSettle
  PROVE  Owned'
<1> USE DEF Others, IntentPcs, StopPcs, Threads
<1>1. Runner \in Threads /\ pc \in [Threads -> Pcs]
  BY DEF IInv, Typed
<1>2. CASE QueueForStartup
  BY <1>1, <1>2, LockStepOwned DEF QueueForStartup, CycleOf, LockStep, Join
<1>3. CASE IdleCycle
  <2>1. ASSUME Watch PROVE LockStep(Runner)
    BY <1>1, <2>1 DEF Watch, LockStep, Quit
  <2>2. ASSUME StartupWake PROVE LockStep(Runner)
    BY <1>1, <2>2 DEF StartupWake, BeginWake, Suspend, Answer, LockStep, Stay, Quit
  <2>3. QED
    BY <1>1, <1>3, <2>1, <2>2, LockStepOwned DEF IdleCycle, CycleOf
<1>4. ASSUME pc[Runner] \notin IntentPcs, UNCHANGED intentQ, pc'[Runner] # "intent",
             Others(Runner)
      PROVE  Owned'
  <2>1. ~Waits(intentQ, Runner)
    BY <1>1, <1>4 DEF Owned
  <2>2. Gone(Threads, intentQ, intentQ', Runner)
    BY <1>1, <1>4, <2>1, JoiningQueue DEF Owned
  <2>3. QED
    BY <1>1, <1>4, <2>2, GoneOwned
<1>5. CASE WakeCycle
  BY <1>1, <1>4, <1>5 DEF WakeCycle, Activate, CycleOf, Divert
<1>6. CASE AbandonCycle
  BY <1>1, <1>4, <1>6 DEF AbandonCycle, MotionCycle, Steady, CycleOf, Divert
<1>7. CASE QuietCycle \/ PulseCycle \/ FineCycle \/ SettleCycle
  BY <1>1, <1>4, <1>7 DEF QuietCycle, PulseCycle, FineCycle, SettleCycle, Going, Steady,
     MotionCycle, CycleOf, Publish, SkipPublish, threadVars
<1>8. CASE GrantPulse \/ SendPulse \/ SendSettle
  BY <1>1, <1>4, <1>8 DEF GrantPulse, SendPulse, SendSettle, Divert
<1> QED  BY <1>2, <1>3, <1>5, <1>6, <1>7, <1>8 DEF RunnerCycle

\* (start, stop) The lifecycle never asks for the intent lock; the runner it cancels
\* gives up its place.
LEMMA LifeLocks ==
  ASSUME IInv, Owned, LifeStep
  PROVE  Owned'
<1> USE ThreadAssumption DEF IntentPcs, StopPcs, Threads
<1>1. /\ Life \in Threads /\ Runner \in Threads /\ Life # Runner
      /\ pc \in [Threads -> Pcs] /\ pc[Life] \notin IntentPcs
  BY DEF IInv, Typed, LifeStep, Start, SendStart, AwaitStart, Close, SendClose, Closed
<1>2. Gone(Threads, intentQ, intentQ, Life)
  BY <1>1, JoiningQueue DEF Owned
<1>3. CASE Start
  <2>1. pc[Runner] = "off"
    BY <1>3 DEF Start, IInv, LifeFirst
  <2>2. QED
    BY <1>1, <1>2, <1>3, <2>1, GoneOwned DEF Start
<1>4. CASE SendStart \/ AwaitStart \/ Close \/ Closed
  <2>1. /\ UNCHANGED intentQ /\ pc'[Life] # "intent"
        /\ \A u \in Threads \ {Life} : pc'[u] = pc[u]
    BY <1>1, <1>4 DEF SendStart, AwaitStart, Started, Close, Closed
  <2>2. QED
    BY <1>1, <1>2, <2>1, GoneOwned
<1>5. CASE SendClose
  <2>1. /\ pc'[Life] = "closeJoin"
        /\ \A u \in Threads \ {Life, Runner} : pc'[u] = pc[u]
    BY <1>1, <1>5 DEF SendClose
  <2>2. CASE pc[Runner] \in StopPcs
    <3>1. pc'[Runner] = pc[Runner] /\ UNCHANGED intentQ
      BY <1>1, <1>5, <2>2 DEF SendClose
    <3>2. QED
      BY <1>1, <1>2, <2>1, <3>1, GoneOwned
  <2>3. CASE pc[Runner] \notin StopPcs
    <3>1. pc'[Runner] = "dead" /\ intentQ' = Without(intentQ, Runner)
      BY <1>1, <1>5, <2>3 DEF SendClose
    <3>2. Gone(Threads, intentQ, intentQ', Runner)
      BY <1>1, <3>1, LeavingQueue DEF Owned
    <3>3. QED
      BY <1>1, <2>1, <3>1, <3>2, GoneOwned
  <2>4. QED
    BY <2>2, <2>3
<1> QED  BY <1>3, <1>4, <1>5 DEF LifeStep

\* (_intent_lock, _relay_io_lock) For any number of requests, and wherever a publish
\* fails, a stop is taken over or shutdown cancels the runner: no lock stays behind
\* with somebody who has gone, and the two locks are never waited for in a circle.
THEOREM LocksNeverCircular == Spec => []NoCircularWait
<1>1. Init => Owned
  BY EmptyQueue DEF Init, Owned, Threads
<1>2. IInv /\ Owned /\ [Next]_vars => Owned'
  <2> SUFFICES ASSUME IInv, Owned, [Next]_vars PROVE Owned'
    OBVIOUS
  <2>1. CASE Environment \/ UNCHANGED vars
    <3>1. UNCHANGED <<pc, intentQ>>
      BY <2>1 DEF Environment, Report, ReportLost, Observe, SensorStep, Elapse, vars, threadVars
    <3>2. QED
      BY <3>1 DEF Owned
  <2>2. QED
    BY <2>1, RequestLocks, StopLocks, RunnerLocks, LifeLocks DEF Next, UserStep, RunnerStep
<1>3. RInv /\ Owned => NoCircularWait
  <2> SUFFICES ASSUME RInv, Owned PROVE NoCircularWait
    OBVIOUS
  <2>1. ASSUME NEW q \in Seq(Threads), q # <<>>
        PROVE  Head(q) \in Threads /\ Waits(q, Head(q))
    BY <2>1, HeadLeaves DEF Holds
  <2>2. QED
    BY <2>1 DEF NoCircularWait, RInv, RelayQueue, Owned
<1> QED  BY <1>1, <1>2, <1>3, Inductive, RelayInvariant, PTL DEF Spec
=============================================================================
