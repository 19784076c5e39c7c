----------------------- MODULE DeskController_proofs -----------------------
(***************************************************************************)
(* Proofs about DeskController, for every set of users, requests and       *)
(* reports and every operating range.                                      *)
(***************************************************************************)
EXTENDS DeskController, TLAPS

Controls == [public : Publics, mode : Modes, phase : Phases, target : Nat,
             dir : Directions \cup {"none"}, awaiting : BOOLEAN]

\* A published state that goes with its intent, for any value of _control.
Fits(c) == /\ c \in Controls
           /\ c.mode = "NONE" <=> c.public \in {"IDLE", "STOPPED", "ERROR"}
           /\ c.awaiting <=> c.public = "WAKING"
           /\ c.public = "MANUAL" => c.mode = "MANUAL"
           /\ c.public = "MOVING" => c.mode = "TARGET"
           /\ c.mode = "TARGET" => Valid(c.target)
Resting(c) == Fits(c) /\ c.mode = "NONE"

Typed == /\ pc \in [Threads -> Pcs]
         /\ why \in [Threads -> Reasons]
         /\ DOMAIN req = Threads /\ \A t \in Threads : req[t].amount \in Nat
         /\ running \in BOOLEAN /\ closing \in BOOLEAN
         /\ stopping \in BOOLEAN /\ startup \in BOOLEAN

\* The inductive invariant.
IInv == /\ Typed /\ Fits(control)
        /\ StopHoldsOff /\ FlagBehindStop /\ OneStop
        /\ LifeFirst /\ TransitionInline /\ StartupAlone

-----------------------------------------------------------------------------
(* Values of control *)

\* (_invalidate_motion_locked, _set_sensor_check_needed) A reset leaves no intent.
LEMMA PlainRests == ASSUME NEW p \in {"IDLE", "STOPPED", "ERROR"} PROVE Resting(PlainStop(p))
  BY DEF PlainStop, Resting, Fits, Controls, Publics, Modes, Phases, NoTarget

\* (_stop_and_confirm, start, stop) Relabelling a state without intent gives another.
LEMMA RelabelRests ==
  ASSUME NEW c, Resting(c), NEW p \in {"IDLE", "STOPPED", "ERROR"}
  PROVE  Resting([c EXCEPT !.public = p])
  BY DEF Resting, Fits, Controls, Publics, Modes

-----------------------------------------------------------------------------
(* The step of one thread t that raises no stop: what it may do to the rest. *)
Calm(t) == /\ pc' \in [Threads -> Pcs] /\ why' \in [Threads -> Reasons]
           /\ DOMAIN req' = Threads /\ req'[t].amount \in Nat
           /\ \A u \in Threads \ {t} : pc'[u] = pc[u] /\ why'[u] = why[u] /\ req'[u] = req[u]
           /\ pc'[t] \notin InStop
           /\ pc'[t] = "stopTask" => why'[t] # "transition"

\* What it may do to the intent: drop it, keep it, or, when nothing stops, set one.
Sane == /\ Fits(control')
        /\ startup' \in BOOLEAN
        /\ startup' => startup /\ control'.mode = "NONE"
        /\ \/ control'.mode = "NONE"
           \/ control'.mode = control.mode
           \/ ~stopping /\ ~closing

\* Such a step keeps the inductive invariant.
LEMMA CalmStep ==
  ASSUME IInv, NEW t \in Threads \ {Life}, pc[Life] # "off", Calm(t), Sane,
         UNCHANGED <<running, closing, stopping>>
  PROVE  IInv'
  <1> USE ThreadAssumption DEF IInv, Threads
  <1>1. Typed' /\ Fits(control)'
    BY DEF Typed, Calm, Sane, Fits, Valid
  <1>2. StopHoldsOff'
    BY DEF StopHoldsOff, Sane
  <1>3. FlagBehindStop' /\ OneStop'
    BY DEF FlagBehindStop, OneStop, Calm, Typed
  <1>4. LifeFirst'
    BY DEF LifeFirst, Calm, Typed
  <1>5. TransitionInline'
    BY DEF TransitionInline, Calm, Typed, StopPcs, InStop, Valid
  <1>6. StartupAlone'
    BY DEF StartupAlone, Sane, Calm, Typed
  <1>7. QED
    BY <1>1, <1>2, <1>3, <1>4, <1>5, <1>6

\* The step of a thread at the end of its stop keeps it too.
LEMMA EndOfStop ==
  ASSUME IInv, NEW t \in Threads, pc[t] \in InStop, pc[Life] # "off", Calm(t),
         Fits(control'), control'.mode # "NONE" => Alive, t # Life,
         stopping' = FALSE, UNCHANGED <<running, closing, startup>>
  PROVE  IInv'
  <1> USE ThreadAssumption DEF IInv, Threads
  <1>1. Typed' /\ Fits(control)'
    BY DEF Typed, Calm, Fits, Valid
  <1>2. StopHoldsOff'
    BY DEF StopHoldsOff, Alive
  <1>3. FlagBehindStop' /\ OneStop'
    BY DEF FlagBehindStop, OneStop, Calm, Typed
  <1>4. LifeFirst'
    BY DEF LifeFirst, Calm, Typed
  <1>5. TransitionInline'
    BY DEF TransitionInline, Calm, Typed, StopPcs, InStop, Valid
  <1>6. StartupAlone'
    BY DEF StartupAlone, Calm, Typed, Alive
  <1>7. QED
    BY <1>1, <1>2, <1>3, <1>4, <1>5, <1>6

\* The step of a thread that raises a stop: TakeStop and the move to "stopSend".
LEMMA RaiseStop ==
  ASSUME IInv, NEW t \in Threads \ {Life}, pc[Life] # "off", ~stopping,
         TakeStop(t), UNCHANGED <<running, closing>>,
         pc' = [pc EXCEPT ![t] = "stopSend"],
         why' \in [Threads -> Reasons], DOMAIN req' = Threads, req'[t].amount \in Nat,
         \A u \in Threads \ {t} : why'[u] = why[u] /\ req'[u] = req[u],
         why'[t] = "transition" /\ req'[t].op = "target" => Valid(req'[t].amount)
  PROVE  IInv'
  <1> USE ThreadAssumption DEF IInv, Threads, TakeStop, Invalidate
  <1>1. Resting(control')
    BY PlainRests
  <1>2. Typed' /\ Fits(control)'
    BY <1>1 DEF Typed, Resting, Fits, Valid, Pcs, StopPcs
  <1>3. StopHoldsOff'
    BY <1>1 DEF StopHoldsOff, Resting
  <1>4. FlagBehindStop' /\ OneStop'
    BY DEF FlagBehindStop, OneStop, Typed
  <1>5. LifeFirst'
    BY DEF LifeFirst, Typed
  <1>6. TransitionInline'
    BY DEF TransitionInline, Typed, StopPcs, InStop, Valid
  <1>7. StartupAlone'
    BY DEF StartupAlone
  <1>8. QED
    BY <1>2, <1>3, <1>4, <1>5, <1>6, <1>7

-----------------------------------------------------------------------------
(* Requests *)

\* (_set_target, after the transition stop) It suspends or returns, with an intent
\* that fits and that no shutdown has overtaken.
LEMMA PursueTargetCalm ==
  ASSUME IInv, NEW t \in Threads, NEW r, r.amount \in Nat, Valid(r.amount),
         NEW c, Resting(c), PursueTarget(t, r, c)
  PROVE  Calm(t) /\ Fits(control') /\ (control'.mode # "NONE" => Alive)
  <1> DEFINE g == r.amount
             d == Toward(g)
  <1> USE DEF Typed, Answer, Suspend
  <1>1. CASE WakeAdmitted /\ BeginWake(t, r, "TARGET", d, g)
    <2>1. Calm(t)
      BY <1>1 DEF IInv, Calm, BeginWake, Pcs, InStop
    <2>2. Fits(control')
      BY <1>1 DEF BeginWake, Fits, Controls, Publics, Modes, Phases, Toward, Directions
    <2>3. QED
      BY <1>1, <2>1, <2>2 DEF WakeAdmitted
  <1>2. CASE /\ control' = PlainStop("IDLE")
             /\ Answer(t)
             /\ UNCHANGED why
    <2>1. Calm(t)
      BY <1>2 DEF IInv, Calm, Pcs, InStop, NoRequest
    <2>2. QED
      BY <1>2, <2>1, PlainRests DEF Resting
  <1>3. CASE control' = c /\ StopMotion(t, r, "plain")
    <2>1. Calm(t)
      BY <1>3 DEF IInv, Calm, StopMotion, Pcs, StopPcs, InStop, Reasons
    <2>2. QED
      BY <1>3, <2>1 DEF Resting
  <1>4. CASE MotionAdmitted /\ BeginMotion(t, [public |-> "MOVING", mode |-> "TARGET",
                  phase |-> "CONTINUOUS", target |-> g, dir |-> d, awaiting |-> FALSE])
    <2>1. Calm(t)
      BY <1>4 DEF IInv, Calm, BeginMotion, Pcs, InStop, NoRequest
    <2>2. Fits(control')
      BY <1>4 DEF BeginMotion, Fits, Controls, Publics, Modes, Phases, Toward, Directions
    <2>3. QED
      BY <1>4, <2>1, <2>2 DEF MotionAdmitted
  <1>5. CASE Return(t, c)
    <2>1. Calm(t)
      BY <1>5 DEF IInv, Calm, Return, Pcs, InStop, NoRequest
    <2>2. QED
      BY <1>5, <2>1 DEF Resting, Return
  <1>6. QED
    BY <1>1, <1>2, <1>3, <1>4, <1>5 DEF PursueTarget

\* (_hold, after the transition stop) Likewise.
LEMMA PursueHoldCalm ==
  ASSUME IInv, NEW t \in Threads, NEW r, NEW c, Resting(c), PursueHold(t, r, c)
  PROVE  Calm(t) /\ Fits(control') /\ (control'.mode # "NONE" => Alive)
  <1> USE DEF Typed, Answer
  <1>1. CASE MotionAdmitted /\ Allowed(r.dir) /\ BeginMotion(t, ManualIntent(r.dir))
    <2>1. Calm(t)
      BY <1>1 DEF IInv, Calm, BeginMotion, Pcs, InStop, NoRequest
    <2>2. Fits(control')
      BY <1>1 DEF BeginMotion, ManualIntent, Fits, Controls, Publics, Modes, Phases,
                  Allowed, Directions, NoTarget
    <2>3. QED
      BY <1>1, <2>1, <2>2 DEF MotionAdmitted
  <1>2. CASE Return(t, c)
    <2>1. Calm(t)
      BY <1>2 DEF IInv, Calm, Return, Pcs, InStop, NoRequest
    <2>2. QED
      BY <1>2, <2>1 DEF Resting, Return
  <1>3. QED
    BY <1>1, <1>2 DEF PursueHold

\* (_has_active_motion and what follows it) A refused number keeps the invariant.
LEMMA InvalidStep ==
  ASSUME IInv, NEW t \in Users, pc[Life] # "off", NEW r, r.amount \in Nat, Invalid(t, r)
  PROVE  IInv'
  <1>1. Calm(t) /\ control' = control
    BY DEF Invalid, StopMotion, Suspend, Return, Answer, IInv, Typed, Calm, Pcs, StopPcs,
           InStop, Reasons, NoRequest, Threads, intentVars
  <1>2. Sane /\ UNCHANGED <<running, closing, stopping>>
    BY <1>1 DEF Sane, Invalid, lifeVars, IInv, Typed, StartupAlone
  <1>3. QED
    BY <1>1, <1>2, CalmStep, ThreadAssumption DEF Threads

\* (_set_target) Setting a target keeps the invariant.
LEMMA SetTargetStep ==
  ASSUME IInv, NEW t \in Users, pc[Life] # "off", NEW r, r.amount \in Nat,
         SetTarget(t, r)
  PROVE  IInv'
  <1> USE ThreadAssumption DEF Threads
  <1>1. CASE Invalid(t, r)
    BY <1>1, InvalidStep
  <1>2. CASE /\ Valid(r.amount) /\ ~stopping
             /\ TakeStop(t)
             /\ Suspend(t, r, "stopSend")
             /\ why' = [why EXCEPT ![t] = "transition"]
             /\ UNCHANGED <<running, closing>>
    BY <1>2, RaiseStop DEF Suspend, IInv, Typed, Reasons
  <1>3. CASE /\ Valid(r.amount) /\ startup' = FALSE /\ ~Active /\ ~stopping
             /\ PursueTarget(t, r, control)
             /\ UNCHANGED <<running, closing, stopping>>
    <2>1. Resting(control)
      BY <1>3 DEF Active, Resting, IInv
    <2>2. Calm(t) /\ Fits(control') /\ (control'.mode # "NONE" => Alive)
      BY <1>3, <2>1, PursueTargetCalm
    <2>3. Sane
      BY <1>3, <2>2 DEF Sane, Alive
    <2>4. QED
      BY <1>3, <2>2, <2>3, CalmStep
  <1>4. CASE startup' = FALSE /\ Return(t, control) /\ UNCHANGED <<running, closing, stopping>>
    <2>1. Calm(t) /\ control' = control
      BY <1>4 DEF Return, Answer, IInv, Typed, Calm, Pcs, InStop, NoRequest
    <2>2. Sane
      BY <1>4, <2>1 DEF Sane, IInv
    <2>3. QED
      BY <1>4, <2>1, <2>2, CalmStep
  <1>5. QED
    BY <1>1, <1>2, <1>3, <1>4 DEF SetTarget

\* (_adjust_target) So does raising or lowering it.
LEMMA AdjustTargetStep ==
  ASSUME IInv, NEW t \in Users, pc[Life] # "off", NEW r, r.amount \in Nat,
         AdjustTarget(t, r)
  PROVE  IInv'
  <1> USE ThreadAssumption DEF Threads
  <1>1. CASE Invalid(t, r)
    BY <1>1, InvalidStep
  <1>2. CASE startup' = FALSE /\ Return(t, control) /\ UNCHANGED <<running, closing, stopping>>
    <2>1. Calm(t) /\ control' = control
      BY <1>2 DEF Return, Answer, IInv, Typed, Calm, Pcs, InStop, NoRequest
    <2>2. Sane
      BY <1>2, <2>1 DEF Sane, IInv
    <2>3. QED
      BY <1>2, <2>1, <2>2, CalmStep
  <1>3. CASE SetTarget(t, [op |-> "target", amount |-> Adjusted(r), dir |-> "none"])
    <2>1. control.target \in Nat
      BY DEF IInv, Fits, Controls
    <2>2. Adjusted(r) \in Nat
      BY <2>1 DEF Adjusted
    <2>3. QED
      BY <1>3, <2>2, SetTargetStep
  <1>4. QED
    BY <1>1, <1>2, <1>3 DEF AdjustTarget

\* (_hold) So does a held button.
LEMMA HoldStep ==
  ASSUME IInv, NEW t \in Users, pc[Life] # "off", NEW r, r.amount \in Nat,
         r.op = "hold", Hold(t, r)
  PROVE  IInv'
  <1> USE ThreadAssumption DEF Threads
  <1>1. CASE Return(t, control) /\ UNCHANGED lifeVars
    <2>1. Calm(t) /\ control' = control
      BY <1>1 DEF Return, Answer, IInv, Typed, Calm, Pcs, InStop, NoRequest
    <2>2. Sane /\ UNCHANGED <<running, closing, stopping>>
      BY <1>1, <2>1 DEF Sane, IInv, Typed, StartupAlone, lifeVars
    <2>3. QED
      BY <2>1, <2>2, CalmStep
  <1>2. CASE /\ ~stopping
             /\ TakeStop(t)
             /\ Suspend(t, r, "stopSend")
             /\ why' = [why EXCEPT ![t] = "transition"]
             /\ UNCHANGED <<running, closing>>
    BY <1>2, RaiseStop DEF Suspend, IInv, Typed, Reasons
  <1> DEFINE Goes == /\ Alive /\ ~stopping /\ startup' = FALSE
                     /\ UNCHANGED <<running, closing, stopping>>
  <1>3. CASE Goes /\ (RefreshHold(t) \/ Return(t, control))
    <2>1. Calm(t) /\ control' = control
      BY <1>3 DEF RefreshHold, Return, Answer, IInv, Typed, Calm, Pcs, InStop, NoRequest
    <2>2. QED
      BY <1>3, <2>1, CalmStep DEF Sane, IInv
  <1>4. CASE Goes /\ BeginWake(t, r, "MANUAL", r.dir, NoTarget) /\ Allowed(r.dir)
    <2>1. Calm(t)
      BY <1>4 DEF BeginWake, Suspend, IInv, Typed, Calm, Pcs, InStop
    <2>2. Fits(control')
      BY <1>4 DEF BeginWake, Fits, Controls, Publics, Modes, Phases, Allowed,
                  Directions, NoTarget
    <2>3. QED
      BY <1>4, <2>1, <2>2, CalmStep DEF Sane, Alive
  <1>5. CASE Goes /\ ~Active /\ PursueHold(t, r, control)
    <2>1. Resting(control)
      BY <1>5 DEF Active, Resting, IInv
    <2>2. Calm(t) /\ Fits(control')
      BY <1>5, <2>1, PursueHoldCalm
    <2>3. QED
      BY <1>5, <2>2, CalmStep DEF Sane, Alive
  <1>6. QED
    BY <1>1, <1>2, <1>3, <1>4, <1>5 DEF Hold, HoldWhileAlive

\* (DeskController's public coroutines) A request keeps the invariant, whether it
\* has to wait for _intent_lock or not.
LEMMA RequestStep ==
  ASSUME IInv, NEW u \in Users, Call(u) \/ Enter(u)
  PROVE  IInv'
  <1> USE ThreadAssumption, RequestAssumption DEF Threads
  <1>1. pc[Life] # "off"
    BY DEF Call, Enter, Admitted, IInv, LifeFirst
  <1>2. CASE Call(u)
    <2>1. Calm(u) /\ control' = control /\ UNCHANGED lifeVars
      BY <1>2 DEF Call, IInv, Typed, Calm, Pcs, InStop, intentVars
    <2>2. QED
      BY <1>1, <2>1, CalmStep DEF lifeVars, Sane, IInv, Typed, StartupAlone
  <1>3. ASSUME NEW r, r.amount \in Nat, Serve(u, r)
        PROVE  IInv'
    <2>1. CASE StopMotion(u, r, "plain") /\ UNCHANGED <<intentVars, lifeVars>>
      <3>1. Calm(u) /\ control' = control
        BY <1>3, <2>1 DEF StopMotion, Suspend, IInv, Typed, Calm, Pcs, StopPcs, InStop,
                          Reasons, intentVars
      <3>2. QED
        BY <1>1, <2>1, <3>1, CalmStep DEF lifeVars, Sane, IInv, Typed, StartupAlone
    <2>2. QED
      BY <1>1, <1>3, <2>1, SetTargetStep, AdjustTargetStep, HoldStep DEF Serve
  <1>4. CASE Enter(u)
    <2>1. \A r \in Requests : r.amount \in Nat
      OBVIOUS
    <2>2. req[u].amount \in Nat
      BY DEF IInv, Typed
    <2>3. QED
      BY <1>3, <1>4, <2>1, <2>2 DEF Enter
  <1>5. QED
    BY <1>2, <1>4

-----------------------------------------------------------------------------
(* Stops *)

\* (_stop_motion, _stop_for_transition) What follows a stop goes on from no intent.
LEMMA ContinueCalm ==
  ASSUME IInv, NEW t \in Users \cup {Runner}, NEW c, Resting(c), NEW ok \in BOOLEAN,
         pc[t] \in StopPcs, pc[t] = "stopTask" \/ pc[t] \in InStop, Continue(t, c, ok)
  PROVE  Calm(t) /\ Fits(control') /\ (control'.mode # "NONE" => Alive)
  <1> USE ThreadAssumption DEF Threads
  <1>1. CASE t \in Users /\ why[t] = "transition" /\ req[t].op = "target" /\ PursueTarget(t, req[t], c)
    <2>1. req[t].amount \in Nat /\ Valid(req[t].amount)
      BY <1>1 DEF IInv, Typed, TransitionInline
    <2>2. QED
      BY <1>1, <2>1, PursueTargetCalm
  <1>2. CASE PursueHold(t, req[t], c)
    BY <1>2, PursueHoldCalm
  <1>3. CASE Return(t, c)
    <2>1. Calm(t)
      BY <1>3 DEF Return, Answer, IInv, Typed, Calm, Pcs, InStop, NoRequest
    <2>2. QED
      BY <1>3, <2>1 DEF Return, Resting
  <1>4. CASE /\ control' = c
             /\ \/ Divert(t, "crash")
                \/ /\ pc' = [pc EXCEPT ![t] = IF RunnerEnds(ok) THEN "dead" ELSE "idle"]
                   /\ UNCHANGED <<req, why>>
    <2>1. Calm(t)
      BY <1>4 DEF Divert, IInv, Typed, Calm, Pcs, StopPcs, InStop, Reasons
    <2>2. QED
      BY <1>4, <2>1 DEF Resting
  <1>5. QED
    BY <1>1, <1>2, <1>3, <1>4 DEF Continue

\* (_stop_and_confirm) The start of a stop keeps the invariant, early return included.
LEMMA BeginStopStep ==
  ASSUME IInv, NEW t \in Users \cup {Runner}, BeginStop(t)
  PROVE  IInv'
  <1> USE ThreadAssumption DEF Threads
  <1>1. pc[Life] # "off"
    BY DEF BeginStop, IInv, LifeFirst
  <1>2. CASE stopping /\ Continue(t, control, TRUE) /\ UNCHANGED lifeVars
    <2>1. Resting(control)
      BY <1>2 DEF Resting, IInv, StopHoldsOff
    <2>2. Calm(t) /\ Fits(control') /\ (control'.mode # "NONE" => Alive)
      <3>1. pc[t] = "stopTask" /\ pc[t] \in StopPcs
        BY DEF BeginStop, StopPcs
      <3>2. QED
        BY <2>1, <1>2, <3>1, ContinueCalm, Zenon
    <2>3. control'.mode = "NONE"
      <3>1. why[t] # "transition"
        BY DEF BeginStop, IInv, TransitionInline, StopPcs
      <3>2. control' = control
        BY <1>2, <3>1 DEF Continue, Return
      <3>3. QED
        BY <2>1, <3>2 DEF Resting
    <2>4. Sane /\ UNCHANGED <<running, closing, stopping>>
      BY <1>2, <2>2, <2>3 DEF Sane, lifeVars, IInv, Typed
    <2>5. QED
      BY <1>1, <2>2, <2>4, CalmStep
  <1>3. CASE ~stopping /\ TakeStop(t) /\ pc' = [pc EXCEPT ![t] = "stopSend"]
             /\ UNCHANGED <<running, closing, req, why, intentQ>>
    <2>1. why[t] # "transition"
      BY DEF BeginStop, IInv, TransitionInline, StopPcs
    <2>2. why' \in [Threads -> Reasons] /\ DOMAIN req' = Threads /\ req'[t].amount \in Nat
      BY <1>3 DEF IInv, Typed
    <2>3. QED
      BY <1>1, <1>3, <2>1, <2>2, RaiseStop
  <1>4. QED
    BY <1>2, <1>3 DEF BeginStop

\* (_stop_and_confirm) So does its end, whatever came of the STOP.
LEMMA FinishStopStep ==
  ASSUME IInv, NEW t \in Users \cup {Runner}, pc[t] \in {"stopSend", "stopWait"},
         NEW ok \in BOOLEAN, FinishStop(t, ok)
  PROVE  IInv'
  <1> USE ThreadAssumption DEF Threads
  <1>1. pc[Life] # "off" /\ pc[t] \in InStop /\ pc[t] \in StopPcs
    BY DEF IInv, LifeFirst, InStop, StopPcs
  <1>2. Resting(control)
    BY <1>1 DEF Resting, IInv, StopHoldsOff, FlagBehindStop
  <1>3. \A p \in {"STOPPED", "ERROR"} : Resting([control EXCEPT !.public = p])
    BY <1>2, RelabelRests
  <1>4. PICK p \in {"STOPPED", "ERROR"} : Continue(t, [control EXCEPT !.public = p], ok)
    BY DEF FinishStop
  <1>5. Calm(t) /\ Fits(control') /\ (control'.mode # "NONE" => Alive)
    BY <1>1, <1>3, <1>4, ContinueCalm
  <1>6. QED
    BY <1>1, <1>5, EndOfStop DEF FinishStop

\* (_send_stop_bounded, _wait_for_fresh_stop, _begin_wake) The waits of a thread for
\* its publish or its confirmation keep the invariant.
LEMMA WaitStep ==
  ASSUME IInv, NEW t \in Users \cup {Runner}, SendStop(t) \/ AwaitStop(t) \/ SendWake(t)
  PROVE  IInv'
  <1> USE ThreadAssumption DEF Threads
  <1>1. CASE /\ pc[t] = "stopSend"
             /\ pc' = [pc EXCEPT ![t] = "stopWait"]
             /\ UNCHANGED <<lifeVars, intentVars, req, why>>
    <2> USE <1>1 DEF IInv, lifeVars, intentVars
    <2>1. Typed' /\ Fits(control)'
      BY DEF Typed, Pcs, StopPcs, Fits, Valid
    <2>2. StopHoldsOff' /\ FlagBehindStop' /\ OneStop'
      BY DEF StopHoldsOff, FlagBehindStop, OneStop, InStop, Typed
    <2>3. LifeFirst' /\ TransitionInline'
      BY DEF LifeFirst, TransitionInline, StopPcs, Typed, Valid
    <2>4. StartupAlone'
      BY DEF StartupAlone, InStop, Typed
    <2>5. QED
      BY <2>1, <2>2, <2>3, <2>4
  <1>2. CASE SendStop(t) \/ AwaitStop(t)
    BY <1>1, <1>2, FinishStopStep DEF SendStop, AwaitStop
  <1>3. CASE SendWake(t)
    <2>1. pc[Life] # "off"
      BY <1>3 DEF SendWake, IInv, LifeFirst
    <2>2. Calm(t) /\ control' = control /\ UNCHANGED lifeVars
      BY <1>3 DEF SendWake, Divert, Answer, IInv, Typed, Calm, Pcs, StopPcs, InStop,
                  Reasons, NoRequest, intentVars
    <2>3. QED
      BY <2>1, <2>2, CalmStep DEF lifeVars, Sane, IInv, Typed, StartupAlone
  <1>4. QED
    BY <1>2, <1>3

-----------------------------------------------------------------------------
(* The runner *)

\* (_run_cycle) A runner step that keeps the mode and the flags keeps the invariant.
LEMMA RunnerKeeps ==
  ASSUME IInv, pc[Runner] # "off", Calm(Runner), Fits(control'),
         control'.mode \in {"NONE", control.mode},
         startup' = FALSE \/ startup' = startup, UNCHANGED <<running, closing, stopping>>
  PROVE  IInv'
  <1>1. Sane
    <2>1. control'.mode = "NONE" \/ control'.mode = control.mode
      OBVIOUS
    <2>2. startup \in BOOLEAN /\ (startup => control.mode = "NONE")
      BY DEF IInv, Typed, StartupAlone
    <2>3. startup' \in BOOLEAN /\ (startup' => startup)
      <3>1. CASE startup' = FALSE
        BY <3>1
      <3>2. CASE startup' = startup
        BY <2>2, <3>2
      <3>3. QED
        BY <3>1, <3>2
    <2>4. startup' => startup /\ control'.mode = "NONE"
      BY <2>1, <2>2, <2>3, Zenon
    <2>5. QED
      BY <2>1, <2>3, <2>4 DEF Sane
  <1>2. pc[Life] # "off"
    BY DEF IInv, LifeFirst
  <1>3. QED
    BY <1>1, <1>2, CalmStep, ThreadAssumption DEF Threads

\* (_run_startup_wake_cycle, _watch_inactive_relay) The cycle without an intent.
LEMMA IdleCycleStep ==
  ASSUME IInv, QueueForStartup \/ IdleCycle
  PROVE  IInv'
  <1> USE ThreadAssumption DEF Threads
  <1>1. pc[Runner] # "off" /\ pc[Life] # "off"
    BY DEF QueueForStartup, IdleCycle, CycleOf, IInv, LifeFirst
  <1>2. CASE QueueForStartup
    <2>1. Calm(Runner) /\ control' = control /\ UNCHANGED lifeVars
      BY <1>2 DEF QueueForStartup, IInv, Typed, Calm, Pcs, InStop, intentVars
    <2>2. QED
      BY <1>1, <2>1, RunnerKeeps DEF IInv, lifeVars
  <1>3. CASE Watch
    <2>1. Calm(Runner) /\ control' = control /\ UNCHANGED lifeVars
      BY <1>3 DEF Watch, IInv, Typed, Calm, Pcs, StopPcs, InStop, Reasons, intentVars
    <2>2. QED
      BY <1>1, <2>1, RunnerKeeps DEF IInv, lifeVars
  <1>4. CASE startup /\ StartupWake
    <2>1. Resting(control)
      BY <1>4 DEF IInv, StartupAlone, Resting
    <2>2. CASE /\ ~stopping /\ WakeAdmitted /\ startup' = FALSE
               /\ BeginWake(Runner, NoRequest, "WAKE", Midway, NoTarget)
               /\ UNCHANGED <<running, closing, stopping>>
      <3>1. Calm(Runner)
        BY <2>2 DEF BeginWake, Suspend, IInv, Typed, Calm, Pcs, InStop, NoRequest
      <3>2. Fits(control')
        BY <2>2 DEF BeginWake, Fits, Controls, Publics, Modes, Phases, Midway,
                    Directions, NoTarget
      <3>3. Sane
        BY <2>2, <3>2 DEF Sane, WakeAdmitted, Alive
      <3>4. QED
        BY <1>1, <2>2, <3>1, <3>3, CalmStep
    <2>3. CASE /\ \/ control' = control
                  \/ control' = [control EXCEPT !.public = "IDLE"]
               /\ startup' = FALSE \/ startup' = startup
               /\ Answer(Runner) /\ UNCHANGED why
               /\ UNCHANGED <<running, closing, stopping>>
      <3>1. Calm(Runner)
        BY <2>3 DEF Answer, IInv, Typed, Calm, Pcs, InStop, NoRequest
      <3>2. Resting(control')
        BY <2>1, <2>3, RelabelRests
      <3>3. QED
        BY <1>1, <2>3, <3>1, <3>2, RunnerKeeps DEF Resting
    <2>4. QED
      BY <1>4, <2>2, <2>3 DEF StartupWake
  <1>5. QED
    BY <1>2, <1>3, <1>4 DEF IdleCycle

\* (_run_wake_cycle, _activate_after_wake) The cycle that waits for a height.
LEMMA WakeCycleStep ==
  ASSUME IInv, WakeCycle
  PROVE  IInv'
  <1> USE ThreadAssumption DEF Threads
  <1>1. /\ pc[Runner] = "idle" /\ control.mode # "NONE"
        /\ UNCHANGED <<running, closing, stopping, startup>>
    BY DEF WakeCycle, CycleOf, lifeVars
  <1>2. CASE control' = control /\ \E w \in {"plain", "error"} : Divert(Runner, w)
    <2>1. Calm(Runner)
      BY <1>2 DEF Divert, IInv, Typed, Calm, Pcs, StopPcs, InStop, Reasons
    <2>2. QED
      BY <1>1, <1>2, <2>1, RunnerKeeps DEF IInv
  <1>3. CASE UNCHANGED <<pc, req, why>> /\
             \/ control' = PlainStop("IDLE")
             \/ \E d \in Directions \cup {"none"} :
                  /\ control.mode \in {"TARGET", "MANUAL"}
                  /\ control' = [control EXCEPT
                       !.public = IF control.mode = "TARGET" THEN "MOVING" ELSE "MANUAL",
                       !.dir = d, !.awaiting = FALSE]
    <2>1. Calm(Runner)
      BY <1>1, <1>3 DEF IInv, Typed, Calm, InStop
    <2>2. CASE control' = PlainStop("IDLE")
      <3>1. Resting(control')
        BY <2>2, PlainRests
      <3>2. QED
        BY <1>1, <2>1, <3>1, RunnerKeeps DEF Resting
    <2>3. ASSUME NEW d \in Directions \cup {"none"},
                 control.mode \in {"TARGET", "MANUAL"},
                 control' = [control EXCEPT
                       !.public = IF control.mode = "TARGET" THEN "MOVING" ELSE "MANUAL",
                       !.dir = d, !.awaiting = FALSE]
          PROVE  IInv'
      <3>1. Fits(control') /\ control'.mode = control.mode
        BY <2>3 DEF IInv, Fits, Controls, Publics, Modes
      <3>2. QED
        BY <1>1, <2>1, <3>1, RunnerKeeps
    <2>4. QED
      BY <1>3, <2>2, <2>3
  <1>4. CASE Activate
    <2>1. control.dir \in Directions \cup {"none"} /\ Toward(control.target) \in Directions
      BY DEF IInv, Fits, Controls, Toward, Directions
    <2>2. QED
      BY <1>2, <1>3, <1>4, <2>1 DEF Activate, Divert, intentVars
  <1>5. QED
    BY <1>2, <1>4 DEF WakeCycle, intentVars

\* (_run_cycle) Giving up the intent leaves it to the stop task it creates.
LEMMA AbandonCycleStep ==
  ASSUME IInv, AbandonCycle
  PROVE  IInv'
  <1> USE ThreadAssumption DEF Threads
  <1>1. /\ pc[Runner] = "idle" /\ control' = control
        /\ UNCHANGED <<running, closing, stopping, startup>>
        /\ \E w \in {"plain", "error"} : Divert(Runner, w)
    BY DEF AbandonCycle, Steady, MotionCycle, CycleOf, lifeVars, intentVars
  <1>2. Calm(Runner)
    BY <1>1 DEF Divert, IInv, Typed, Calm, Pcs, StopPcs, InStop, Reasons
  <1>3. QED
    BY <1>1, <1>2, RunnerKeeps DEF IInv

\* (_move_toward_target, _enter_settling, _publish_pulse) A cycle that pursues the
\* intent changes its phase and direction at most.
LEMMA PursuitStep ==
  ASSUME IInv, QuietCycle \/ PulseCycle \/ FineCycle \/ SettleCycle
  PROVE  IInv'
  <1> USE ThreadAssumption DEF Threads
  <1>1. /\ pc[Runner] = "idle"
        /\ UNCHANGED <<running, closing, stopping, startup, req, why>>
    BY DEF QuietCycle, PulseCycle, FineCycle, SettleCycle, Going, Steady, MotionCycle,
           CycleOf, lifeVars, threadVars
  <1>2. \/ UNCHANGED pc
        \/ \E p \in {"pulseSend", "pulseWait", "settleSend"} :
              pc' = [pc EXCEPT ![Runner] = p]
    BY DEF QuietCycle, PulseCycle, FineCycle, SettleCycle, Publish, SkipPublish, threadVars
  <1>3. Calm(Runner)
    BY <1>1, <1>2 DEF IInv, Typed, Calm, Pcs, InStop
  <1>4. Needed \in Directions \cup {"none"}
    BY DEF Needed, Toward, Directions, IInv, Fits, Controls
  <1>5. \/ control' = control
        \/ \E d \in Directions \cup {"none"}, f \in {"SETTLING", "FINE"} :
              control' = [control EXCEPT !.phase = f, !.dir = d]
    BY <1>4 DEF QuietCycle, PulseCycle, FineCycle, SettleCycle, intentVars
  <1>6. Fits(control') /\ control'.mode = control.mode
    BY <1>5 DEF IInv, Fits, Controls, Phases
  <1>7. QED
    BY <1>1, <1>3, <1>6, RunnerKeeps

\* (_publish_pulse, _publish_settling_stop) So does the publish it waits for.
LEMMA PublishStep ==
  ASSUME IInv, GrantPulse \/ SendPulse \/ SendSettle
  PROVE  IInv'
  <1> USE ThreadAssumption DEF Threads
  <1>1. /\ pc[Runner] # "off"
        /\ UNCHANGED <<running, closing, stopping, startup>>
    BY DEF GrantPulse, SendPulse, SendSettle, lifeVars
  <1>2. \/ /\ UNCHANGED <<req, why>>
           /\ \E p \in {"pulseSend", "idle"} : pc' = [pc EXCEPT ![Runner] = p]
        \/ Divert(Runner, "error")
    BY DEF GrantPulse, SendPulse, SendSettle
  <1>3. Calm(Runner)
    BY <1>2 DEF Divert, IInv, Typed, Calm, Pcs, StopPcs, InStop, Reasons
  <1>4. \/ control' = control
        \/ control' = [control EXCEPT !.phase = "SETTLING", !.dir = "none"]
    BY DEF GrantPulse, SendPulse, SendSettle, intentVars
  <1>5. Fits(control') /\ control'.mode = control.mode
    BY <1>4 DEF IInv, Fits, Controls, Phases
  <1>6. QED
    BY <1>1, <1>3, <1>5, RunnerKeeps

-----------------------------------------------------------------------------
(* start and stop *)

\* (start) Before start nothing runs; its STOP then has the flag to itself.
LEMMA StartStep ==
  ASSUME IInv, Start
  PROVE  IInv'
  <1> USE ThreadAssumption DEF Threads, IInv, Start
  <1>1. Resting(control')
    BY PlainRests
  <1>2. Typed' /\ Fits(control)'
    BY <1>1 DEF Typed, Pcs, Resting, Fits, Valid
  <1>3. StopHoldsOff'
    BY <1>1 DEF StopHoldsOff, Resting
  <1>4. \A t \in Threads : pc'[t] \in InStop => t = Life
    BY DEF LifeFirst, InStop, Typed
  <1>5. FlagBehindStop' /\ OneStop'
    BY <1>4 DEF FlagBehindStop, OneStop
  <1>6. LifeFirst'
    BY DEF LifeFirst, Typed
  <1>7. TransitionInline'
    BY DEF LifeFirst, TransitionInline, StopPcs, Typed, Valid
  <1>8. StartupAlone'
    BY DEF StartupAlone, LifeFirst
  <1>9. QED
    BY <1>2, <1>3, <1>5, <1>6, <1>7, <1>8

\* (start) The end of start drops the flag; whoever else is in a stop by then is
\* covered by closing.
LEMMA StartedStep ==
  ASSUME IInv, pc[Life] \in {"startSend", "startWait"}, NEW ok \in BOOLEAN, Started(ok)
  PROVE  IInv'
  <1> USE ThreadAssumption DEF Threads, IInv, Started
  <1>1. Resting(control)
    BY DEF Resting, StopHoldsOff, FlagBehindStop, InStop
  <1>2. Resting(control')
    <2>1. \E p \in {"IDLE", "ERROR"} : control' = [control EXCEPT !.public = p]
      OBVIOUS
    <2>2. QED
      BY <1>1, <2>1, RelabelRests
  <1>3. \A t \in Threads : pc'[t] \in InStop => t # Life /\ pc[t] = pc'[t] /\ closing
    BY DEF OneStop, InStop, Typed
  <1>4. startup' \in BOOLEAN
    OBVIOUS
  <1>5. Typed' /\ Fits(control)'
    BY <1>2, <1>4 DEF Typed, Pcs, Resting, Fits, Valid
  <1>6. StopHoldsOff' /\ StartupAlone'
    BY <1>2, <1>3 DEF StopHoldsOff, StartupAlone, Resting
  <1>7. FlagBehindStop' /\ OneStop'
    BY <1>3 DEF FlagBehindStop, OneStop
  <1>8. LifeFirst'
    BY DEF LifeFirst, Typed
  <1>9. TransitionInline'
    BY DEF TransitionInline, StopPcs, Typed, Valid
  <1>10. QED
    BY <1>5, <1>6, <1>7, <1>8, <1>9

\* (start) Both ends of start's STOP keep the invariant.
LEMMA AwaitStartStep ==
  ASSUME IInv, SendStart \/ AwaitStart
  PROVE  IInv'
  <1> USE ThreadAssumption DEF Threads
  <1>1. CASE /\ pc[Life] = "startSend"
             /\ pc' = [pc EXCEPT ![Life] = "startWait"]
             /\ UNCHANGED <<lifeVars, intentVars, req, why>>
    <2> USE <1>1 DEF IInv, lifeVars, intentVars
    <2>1. Typed' /\ Fits(control)'
      BY DEF Typed, Pcs, Fits, Valid
    <2>2. StopHoldsOff' /\ FlagBehindStop' /\ OneStop'
      BY DEF StopHoldsOff, FlagBehindStop, OneStop, InStop, Typed
    <2>3. LifeFirst' /\ TransitionInline'
      BY DEF LifeFirst, TransitionInline, StopPcs, Typed, Valid
    <2>4. StartupAlone'
      BY DEF StartupAlone, InStop, Typed
    <2>5. QED
      BY <2>1, <2>2, <2>3, <2>4
  <1>2. QED
    BY <1>1, StartedStep DEF SendStart, AwaitStart

\* (stop) Shutdown drops the intent with the flags it raises.
LEMMA CloseStep ==
  ASSUME IInv, Close
  PROVE  IInv'
  <1> USE ThreadAssumption DEF Threads, IInv, Close, Invalidate
  <1>1. Resting(control')
    BY PlainRests
  <1>2. Typed' /\ Fits(control)'
    BY <1>1 DEF Typed, Pcs, Resting, Fits, Valid
  <1>3. StopHoldsOff' /\ FlagBehindStop' /\ OneStop' /\ StartupAlone'
    BY <1>1 DEF StopHoldsOff, FlagBehindStop, OneStop, StartupAlone, Resting
  <1>4. LifeFirst'
    BY DEF LifeFirst, Typed
  <1>5. TransitionInline'
    BY DEF TransitionInline, StopPcs, Typed, Valid
  <1>6. QED
    BY <1>2, <1>3, <1>4, <1>5

\* (stop) Cancelling the runner and joining it keep the invariant.
LEMMA ClosedStep ==
  ASSUME IInv, SendClose \/ Closed
  PROVE  IInv'
  <1> USE ThreadAssumption DEF Threads, IInv
  <1>1. /\ closing /\ closing' = closing /\ startup' = startup
        /\ stopping' \in BOOLEAN /\ running' \in BOOLEAN /\ UNCHANGED req
        /\ pc[Life] \in {"closeSend", "closeJoin"}
    BY DEF SendClose, Closed, lifeVars, LifeFirst, Typed
  <1>2. Resting(control)
    BY <1>1 DEF Resting, StopHoldsOff
  <1>3. Resting(control')
    <2>1. control' = control \/ \E p \in {"STOPPED", "ERROR"} :
                                   control' = [control EXCEPT !.public = p]
      BY DEF SendClose, Closed, intentVars
    <2>2. QED
      BY <1>2, <2>1, RelabelRests
  <1>4. /\ pc' \in [Threads -> Pcs] /\ pc'[Life] \in {"closeJoin", "down"}
        /\ \A t \in Threads \ {Life} : pc'[t] \in {pc[t], "dead"}
    BY DEF SendClose, Closed, Typed, Pcs
  <1>5. /\ why' \in [Threads -> Reasons]
        /\ \A t \in Threads \ {Life} : why'[t] = why[t]
    BY DEF SendClose, Closed, Typed, Reasons
  <1>6. Typed' /\ Fits(control)'
    BY <1>1, <1>3, <1>4, <1>5 DEF Typed, Resting, Fits, Valid
  <1>7. StopHoldsOff' /\ FlagBehindStop' /\ OneStop' /\ StartupAlone'
    BY <1>1, <1>3 DEF StopHoldsOff, FlagBehindStop, OneStop, StartupAlone, Resting
  <1>8. LifeFirst'
    BY <1>1, <1>4 DEF LifeFirst
  <1>9. TransitionInline'
    BY <1>1, <1>4, <1>5 DEF TransitionInline, StopPcs, Valid
  <1>10. QED
    BY <1>6, <1>7, <1>8, <1>9

-----------------------------------------------------------------------------
(* The theorems *)

\* Statuses, readings and deadlines touch neither the intent nor the threads.
LEMMA EnvironmentStep ==
  ASSUME IInv, Environment \/ UNCHANGED vars
  PROVE  IInv'
  <1>1. UNCHANGED <<control, pc, why, req, running, closing, stopping, startup>>
    BY DEF Environment, Report, ReportLost, Observe, SensorStep, Elapse, lifeVars,
           intentVars, threadVars, vars
  <1>2. QED
    BY <1>1 DEF IInv, Typed, Fits, Valid, StopHoldsOff, FlagBehindStop, OneStop,
                LifeFirst, TransitionInline, StartupAlone

\* (__init__) The controller starts without an intent and without a thread at work.
LEMMA InitHolds == Init => IInv
  <1> SUFFICES ASSUME Init PROVE IInv
    OBVIOUS
  <1> USE ThreadAssumption DEF Threads, Init
  <1>1. Resting(control)
    BY PlainRests
  <1>2. Typed /\ Fits(control)
    BY <1>1 DEF Typed, Resting, Pcs, Reasons, NoRequest
  <1>3. StopHoldsOff /\ FlagBehindStop /\ OneStop /\ StartupAlone
    BY DEF StopHoldsOff, FlagBehindStop, OneStop, StartupAlone, InStop
  <1>4. LifeFirst /\ TransitionInline
    BY DEF LifeFirst, TransitionInline, StopPcs
  <1>5. QED
    BY <1>2, <1>3, <1>4 DEF IInv

\* Every step of every thread keeps the invariant.
LEMMA StepHolds == IInv /\ [Next]_vars => IInv'
  <1> SUFFICES ASSUME IInv, [Next]_vars PROVE IInv'
    OBVIOUS
  <1>1. ASSUME NEW t \in Users \cup {Runner}, StopStep(t) \/ SendWake(t) PROVE IInv'
    BY <1>1, BeginStopStep, WaitStep DEF StopStep
  <1>2. CASE \E u \in Users : Call(u) \/ UserStep(u)
    BY <1>1, <1>2, RequestStep DEF UserStep
  <1>3. CASE RunnerCycle
    BY <1>3, IdleCycleStep, WakeCycleStep, AbandonCycleStep, PursuitStep DEF RunnerCycle
  <1>4. CASE RunnerStep
    BY <1>1, <1>3, <1>4, PublishStep DEF RunnerStep
  <1>5. CASE LifeStep
    BY <1>5, StartStep, AwaitStartStep, CloseStep, ClosedStep DEF LifeStep
  <1>6. QED
    BY <1>2, <1>4, <1>5, EnvironmentStep DEF Next

\* (_ControlState, _stop_in_progress, _closing) The inductive invariant holds in
\* every reachable state.
THEOREM Inductive == Spec => []IInv
  BY InitHolds, StepHolds, PTL DEF Spec

\* (_stop_and_confirm, stop) No intent is pursued while a STOP is in progress or
\* once shutdown has begun, whatever users ask for, and whenever they do.
THEOREM StopHolds == Spec => []StopHoldsOff
  <1>1. IInv => StopHoldsOff
    BY DEF IInv
  <1>2. QED
    BY <1>1, Inductive, PTL

\* (get_snapshot) What is published is the intent that is pursued, and a target
\* that is pursued lies in the operating range.
THEOREM PublicMatches == Spec => []PublicMatchesIntent
  <1>1. IInv => PublicMatchesIntent
    BY DEF IInv, Fits, PublicMatchesIntent
  <1>2. QED
    BY <1>1, Inductive, PTL
=============================================================================
