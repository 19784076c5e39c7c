------------------------ MODULE RelayFirmware_proofs ------------------------
(***************************************************************************)
(* Proofs about RelayFirmware, for every set of heights and stamps and all *)
(* values of the timing constants its assumptions allow.                   *)
(***************************************************************************)
EXTENDS RelayFirmware, TLAPS

(***************************************************************************)
(* Type correctness, one lemma per part of TypeOK.                         *)
(***************************************************************************)
(* The states of the WiFi and MQTT links and of loop() are among those the *)
(* sketch knows, after every callback and every iteration.                 *)
LEMMA FlagsStep == FlagsOK /\ [Next]_vars => FlagsOK'
  <1> SUFFICES ASSUME FlagsOK, [Next]_vars PROVE FlagsOK'
    OBVIOUS
  <1> USE DEF FlagsOK, Publish, relayVars, sessionVars, clockVars, linkVars, breakVars
  <1>1. CASE HandleInvalidHeight \/ HandleStopOrRefused
    BY <1>1 DEF HandleInvalidHeight, HandleStopOrRefused, RelayStop, InvalidateSession
  <1>2. ASSUME NEW s \in Stamps, NEW h \in Heights, HandleHeight(s, h)
        PROVE  FlagsOK'
    BY <1>2 DEF HandleHeight, HandleBaseline, HandleDuplicate, HandleDistinct, RelayStop
  <1>3. ASSUME NEW d \in Moving, NEW h \in Holds, HandleMove(d, h)
        PROVE  FlagsOK'
    BY <1>3 DEF HandleMove, Start, SwitchOn, Extend, BreakFirst, RelayStop
  <1>4. CASE TakeTimeoutEvent
    BY <1>4 DEF TakeTimeoutEvent
  <1>5. CASE WithoutWifi
    BY <1>5 DEF WithoutWifi, StopUnlessKnown, RelayStop, InvalidateSession
  <1>6. CASE WithoutMqtt
    BY <1>6 DEF WithoutMqtt, StopUnlessKnown, RelayStop, InvalidateSession
  <1>7. CASE WithLinks \/ ConnectRefused \/ PollIdle \/ Heartbeat
    BY <1>7 DEF WithLinks, ConnectRefused, PollIdle, Heartbeat
  <1>8. CASE BeginSession
    BY <1>8 DEF BeginSession, RelayStop, InvalidateSession
  <1>9. CASE PollLost \/ FailClosed
    BY <1>9 DEF PollLost, FailClosed, RelayStop, InvalidateSession
  <1>10. CASE ControlTick
    BY <1>10 DEF ControlTick, Arm, ExpireLease, NothingDue, RelayStop
  <1>11. CASE FinishReversal
    BY <1>11 DEF FinishReversal, SwitchOn
  <1>12. CASE OnTimer \/ Tick \/ LinkChange
    BY <1>12 DEF OnTimer, Tick, LinkChange
  <1>13. CASE UNCHANGED vars
    BY <1>13 DEF vars
  <1>14. QED
    BY <1>1, <1>2, <1>3, <1>4, <1>5, <1>6, <1>7, <1>8, <1>9, <1>10, <1>11, <1>12,
       <1>13 DEF Next, Callback, Loop

(* No clock, deadline or timestamp leaves its range: millis() wraps, the   *)
(* age of a height is capped, the deadline is at most MAX_HOLD_MS.         *)
LEMMA ClocksStep == ClocksOK /\ [Next]_vars => ClocksOK'
  <1> SUFFICES ASSUME ClocksOK, [Next]_vars PROVE ClocksOK'
    OBVIOUS
  <1> USE TimeAssumption
      DEF ClocksOK, Disarmed, Holds, relayVars, clockVars, breakVars, RelayStop, SwitchOn
  <1>1. CASE Callback
    BY <1>1 DEF Callback, HandleInvalidHeight, HandleStopOrRefused, HandleHeight,
                HandleBaseline, HandleDuplicate, HandleDistinct, HandleMove, Start,
                Extend, BreakFirst
  <1>2. CASE Loop
    BY <1>2 DEF Loop, TakeTimeoutEvent, WithoutWifi, WithoutMqtt, StopUnlessKnown,
                WithLinks, ConnectRefused, BeginSession, PollLost, PollIdle, ControlTick,
                Arm, ExpireLease, NothingDue, Heartbeat, FinishReversal, FailClosed
  <1>3. CASE OnTimer \/ LinkChange
    BY <1>3 DEF OnTimer, LinkChange
  <1>4. CASE Tick
    BY <1>4 DEF Tick, Later
  <1>5. CASE UNCHANGED vars
    BY <1>5 DEF vars
  <1>6. QED
    BY <1>1, <1>2, <1>3, <1>4, <1>5 DEF Next

(* Outputs, modes and stored heights keep their types.                     *)
LEMMA ValuesStep == ValuesOK /\ [Next]_vars => ValuesOK'
  <1> SUFFICES ASSUME ValuesOK, [Next]_vars PROVE ValuesOK'
    OBVIOUS
  <1> USE DEF ValuesOK, Moving, NoAsk, Locations, Publish, relayVars, sessionVars, breakVars,
              RelayStop, InvalidateSession, SwitchOn
  <1>1. CASE HandleInvalidHeight \/ HandleStopOrRefused
    BY <1>1 DEF HandleInvalidHeight, HandleStopOrRefused
  <1>2. ASSUME NEW s \in Stamps, NEW h \in Heights, HandleHeight(s, h)
        PROVE  ValuesOK'
    BY <1>2 DEF HandleHeight, HandleBaseline, HandleDuplicate, HandleDistinct
  <1>3. ASSUME NEW d \in Moving, NEW h \in Holds, HandleMove(d, h)
        PROVE  ValuesOK'
    BY <1>3 DEF HandleMove, Start, Extend, BreakFirst
  <1>4. CASE Loop
    BY <1>4 DEF Loop, TakeTimeoutEvent, WithoutWifi, WithoutMqtt, StopUnlessKnown,
                WithLinks, ConnectRefused, BeginSession, PollLost, PollIdle, ControlTick,
                Arm, ExpireLease, NothingDue, Heartbeat, FinishReversal, FailClosed
  <1>5. CASE OnTimer \/ Tick \/ LinkChange
    BY <1>5 DEF OnTimer, Tick, LinkChange
  <1>6. CASE UNCHANGED vars
    BY <1>6 DEF vars
  <1>7. QED
    BY <1>1, <1>2, <1>3, <1>4, <1>5, <1>6 DEF Next, Callback

(* Every variable keeps its type; in particular the armed deadline never   *)
(* exceeds MAX_HOLD_MS (control_handler.cpp, relay_controller.cpp).        *)
THEOREM Typing == Spec => []TypeOK
  <1>1. Init => TypeOK
    <2>1. Init => FlagsOK
      BY DEF Init, FlagsOK
    <2>2. Init => ClocksOK
      BY TimeAssumption DEF Init, ClocksOK, Disarmed
    <2>3. Init => ValuesOK
      BY DEF Init, ValuesOK, Moving, NoAsk, Locations
    <2>4. QED
      BY <2>1, <2>2, <2>3 DEF TypeOK
  <1>2. TypeOK /\ [Next]_vars => TypeOK'
    BY FlagsStep, ClocksStep, ValuesStep DEF TypeOK
  <1>3. QED
    BY <1>1, <1>2, PTL DEF Spec

(***************************************************************************)
(* The inductive invariant.  The relay part needs nothing of the session;  *)
(* the session part explains why a move is admitted only on two stamps     *)
(* inside a session loop() knows, and Reversing carries the admission      *)
(* across the delay() of a reversal.                                       *)
(***************************************************************************)
RelayInv == OutputsExclusive /\ DeadlineArmed /\ TimeoutMeansStopped

SessionInv == HeightHistory /\ LinkBelief

MotionInv == Reversing /\ MotionInSession /\ WithinBoundary

(* setup() leaves the relays off and nothing armed (relay_controller.cpp). *)
LEMMA RelayInit == Init => RelayInv
  BY DEF Init, RelayInv, OutputsExclusive, DeadlineArmed, TimeoutMeansStopped

(* relay_controller.cpp: every callback and iteration keeps the two relays *)
(* exclusive, the deadline armed while one is on, and a timeout reported   *)
(* only once they are off.                                                 *)
LEMMA RelayStep ==
    TypeOK /\ RelayInv /\ Reversing /\ [Next]_vars => RelayInv'
  <1> SUFFICES ASSUME TypeOK, RelayInv, Reversing, [Next]_vars PROVE RelayInv'
    OBVIOUS
  <1> USE TimeAssumption
      DEF TypeOK, ClocksOK, ValuesOK, RelayInv, OutputsExclusive, DeadlineArmed,
          TimeoutMeansStopped, Moving, Disarmed, Holds, relayVars, RelayStop, SwitchOn
  <1>1. CASE HandleInvalidHeight \/ HandleStopOrRefused
    BY <1>1 DEF HandleInvalidHeight, HandleStopOrRefused
  <1>2. ASSUME NEW s \in Stamps, NEW h \in Heights, HandleHeight(s, h)
        PROVE  RelayInv'
    BY <1>2 DEF HandleHeight, HandleBaseline, HandleDuplicate, HandleDistinct
  <1>3. ASSUME NEW d \in Moving, NEW h \in Holds, HandleMove(d, h)
        PROVE  RelayInv'
    BY <1>3 DEF HandleMove, Start, Extend, BreakFirst
  <1>4. CASE FinishReversal
    BY <1>4 DEF FinishReversal, Reversing
  <1>5. CASE TakeTimeoutEvent \/ WithLinks \/ ConnectRefused \/ PollIdle \/ Heartbeat
    BY <1>5 DEF TakeTimeoutEvent, WithLinks, ConnectRefused, PollIdle, Heartbeat
  <1>6. CASE WithoutWifi \/ WithoutMqtt
    BY <1>6 DEF WithoutWifi, WithoutMqtt, StopUnlessKnown
  <1>7. CASE BeginSession \/ PollLost \/ FailClosed
    BY <1>7 DEF BeginSession, PollLost, FailClosed
  <1>8. CASE ControlTick
    BY <1>8 DEF ControlTick, Arm, ExpireLease, NothingDue
  <1>9. CASE OnTimer
    BY <1>9 DEF OnTimer
  <1>10. CASE Tick
    BY <1>10 DEF Tick
  <1>11. CASE LinkChange
    BY <1>11 DEF LinkChange
  <1>12. CASE UNCHANGED vars
    BY <1>12 DEF vars
  <1>13. QED
    BY <1>1, <1>2, <1>3, <1>4, <1>5, <1>6, <1>7, <1>8, <1>9, <1>10, <1>11, <1>12
    DEF Next, Callback, Loop

(* After setup() no height is known and no session exists.                 *)
LEMMA SessionInit == Init => SessionInv
  BY DEF Init, SessionInv, HeightHistory, LinkBelief

(* control_handler.cpp: the two-height history of a session is what the    *)
(* callbacks made of it, whoever moves next.                               *)
LEMMA HeightHistoryStep ==
    HeightHistory /\ [Next]_vars => HeightHistory'
  <1> SUFFICES ASSUME HeightHistory, [Next]_vars PROVE HeightHistory'
    OBVIOUS
  <1> USE DEF HeightHistory, sessionVars
  <1>1. CASE HandleInvalidHeight \/ HandleStopOrRefused
    BY <1>1 DEF HandleInvalidHeight, HandleStopOrRefused, InvalidateSession
  <1>2. ASSUME NEW s \in Stamps, NEW h \in Heights, HandleHeight(s, h)
        PROVE  HeightHistory'
    BY <1>2 DEF HandleHeight, HandleBaseline, HandleDuplicate, HandleDistinct
  <1>3. ASSUME NEW d \in Moving, NEW h \in Holds, HandleMove(d, h)
        PROVE  HeightHistory'
    BY <1>3 DEF HandleMove
  <1>4. CASE TakeTimeoutEvent \/ WithLinks \/ ConnectRefused \/ PollIdle \/ Heartbeat
             \/ FinishReversal
    BY <1>4 DEF TakeTimeoutEvent, WithLinks, ConnectRefused, PollIdle, Heartbeat,
                FinishReversal
  <1>5. CASE WithoutWifi \/ WithoutMqtt
    BY <1>5 DEF WithoutWifi, WithoutMqtt, StopUnlessKnown, InvalidateSession
  <1>6. CASE BeginSession \/ PollLost \/ FailClosed
    BY <1>6 DEF BeginSession, PollLost, FailClosed, InvalidateSession
  <1>7. CASE ControlTick
    BY <1>7 DEF ControlTick, Arm, CanArm, ExpireLease, NothingDue
  <1>8. CASE OnTimer \/ Tick \/ LinkChange
    BY <1>8 DEF OnTimer, Tick, LinkChange
  <1>9. CASE UNCHANGED vars
    BY <1>9 DEF vars
  <1>10. QED
    BY <1>1, <1>2, <1>3, <1>4, <1>5, <1>6, <1>7, <1>8, <1>9 DEF Next, Callback, Loop

(* main.cpp: a connection loop() does not know of is only ever one that    *)
(* publishStatus() has just failed on and failClosed() is about to drop.   *)
LEMMA LinkBeliefStep ==
    FlagsOK /\ LinkBelief /\ [Next]_vars => LinkBelief'
  <1> SUFFICES ASSUME FlagsOK, LinkBelief, [Next]_vars PROVE LinkBelief'
    OBVIOUS
  <1> USE DEF FlagsOK, LinkBelief, linkVars, Publish
  <1>1. CASE HandleInvalidHeight \/ HandleStopOrRefused
    BY <1>1 DEF HandleInvalidHeight, HandleStopOrRefused
  <1>2. ASSUME NEW s \in Stamps, NEW h \in Heights, HandleHeight(s, h)
        PROVE  LinkBelief'
    BY <1>2 DEF HandleHeight, HandleBaseline, HandleDuplicate, HandleDistinct
  <1>3. ASSUME NEW d \in Moving, NEW h \in Holds, HandleMove(d, h)
        PROVE  LinkBelief'
    BY <1>3 DEF HandleMove, Start
  <1>4. CASE TakeTimeoutEvent
    BY <1>4 DEF TakeTimeoutEvent
  <1>5. CASE WithoutWifi \/ WithoutMqtt
    BY <1>5 DEF WithoutWifi, WithoutMqtt
  <1>6. CASE WithLinks \/ ConnectRefused \/ PollIdle
    BY <1>6 DEF WithLinks, ConnectRefused, PollIdle
  <1>7. CASE BeginSession \/ PollLost \/ FailClosed
    BY <1>7 DEF BeginSession, PollLost, FailClosed
  <1>8. CASE ControlTick
    BY <1>8 DEF ControlTick, Arm, ExpireLease, NothingDue
  <1>9. CASE Heartbeat \/ FinishReversal
    BY <1>9 DEF Heartbeat, FinishReversal
  <1>10. CASE OnTimer \/ Tick \/ LinkChange
    BY <1>10 DEF OnTimer, Tick, LinkChange
  <1>11. CASE UNCHANGED vars
    BY <1>11 DEF vars
  <1>12. QED
    BY <1>1, <1>2, <1>3, <1>4, <1>5, <1>6, <1>7, <1>8, <1>9, <1>10, <1>11
    DEF Next, Callback, Loop

(* Reversing: while loop() waits in delay() nothing it admitted the move   *)
(* on can change, for nothing but time, the links and loop() itself moves. *)
LEMMA ReversingStep ==
    FlagsOK /\ DeadlineArmed /\ LinkBelief /\ Reversing /\ [Next]_vars => Reversing'
  <1> SUFFICES ASSUME FlagsOK, DeadlineArmed, LinkBelief, Reversing, [Next]_vars,
                      pc' = "breaking"
               PROVE  Reversing'
    BY DEF Reversing
  <1> USE DEF FlagsOK, Reversing, sessionVars, linkVars, breakVars, BoundaryAllows
  <1>1. ASSUME NEW d \in Moving, NEW h \in Holds, HandleMove(d, h)
        PROVE  Reversing'
    BY <1>1 DEF HandleMove, Start, IsReady, BreakFirst, LinkBelief, Publish
  <1>2. CASE OnTimer
    BY <1>2 DEF OnTimer
  <1>3. CASE Tick
    BY <1>3 DEF Tick
  <1>4. CASE LinkChange
    BY <1>4 DEF LinkChange, relayVars
  <1>5. CASE UNCHANGED vars
    BY <1>5 DEF vars
  <1>6. CASE HandleInvalidHeight \/ HandleStopOrRefused
             \/ \E s \in Stamps, h \in Heights : HandleHeight(s, h)
    BY <1>6 DEF HandleInvalidHeight, HandleStopOrRefused, HandleHeight, HandleBaseline,
                HandleDuplicate, HandleDistinct, Publish
  <1>7. CASE Loop
    BY <1>7 DEF Loop, TakeTimeoutEvent, WithoutWifi, WithoutMqtt, WithLinks,
                ConnectRefused, BeginSession, PollLost, PollIdle, ControlTick, Arm,
                ExpireLease, NothingDue, Heartbeat, FinishReversal, FailClosed, Publish
  <1>8. QED
    BY <1>1, <1>2, <1>3, <1>4, <1>5, <1>6, <1>7 DEF Next, Callback

(* A relay is on, or about to be, only within a session that has the       *)
(* observations motion asks for.                                           *)
LEMMA MotionInSessionStep ==
    /\ FlagsOK /\ LinkBelief /\ Reversing /\ MotionInSession /\ [Next]_vars
    => MotionInSession'
  <1> SUFFICES ASSUME FlagsOK, LinkBelief, Reversing, MotionInSession, [Next]_vars
               PROVE  MotionInSession'
    OBVIOUS
  <1> USE DEF FlagsOK, MotionInSession, relayVars, sessionVars, linkVars, RelayStop
  <1>1. CASE HandleInvalidHeight \/ HandleStopOrRefused
    BY <1>1 DEF HandleInvalidHeight, HandleStopOrRefused
  <1>2. ASSUME NEW s \in Stamps, NEW h \in Heights, HandleHeight(s, h)
        PROVE  MotionInSession'
    BY <1>2 DEF HandleHeight, HandleBaseline, HandleDuplicate, HandleDistinct
  <1>3. ASSUME NEW d \in Moving, NEW h \in Holds, HandleMove(d, h)
        PROVE  MotionInSession'
    BY <1>3 DEF HandleMove, Start, IsReady, Extend, SwitchOn, BreakFirst, LinkBelief
  <1>4. CASE FinishReversal
    BY <1>4 DEF FinishReversal, Reversing, SwitchOn
  <1>5. CASE TakeTimeoutEvent \/ WithLinks \/ ConnectRefused \/ PollIdle \/ Heartbeat
    BY <1>5 DEF TakeTimeoutEvent, WithLinks, ConnectRefused, PollIdle, Heartbeat
  <1>6. CASE WithoutWifi \/ WithoutMqtt
    BY <1>6 DEF WithoutWifi, WithoutMqtt, StopUnlessKnown, LinkBelief
  <1>7. CASE BeginSession \/ PollLost \/ FailClosed
    BY <1>7 DEF BeginSession, PollLost, FailClosed
  <1>8. CASE ControlTick
    BY <1>8 DEF ControlTick, Arm, ExpireLease, NothingDue
  <1>9. CASE OnTimer \/ Tick \/ LinkChange
    BY <1>9 DEF OnTimer, Tick, LinkChange
  <1>10. CASE UNCHANGED vars
    BY <1>10 DEF vars
  <1>11. QED
    BY <1>1, <1>2, <1>3, <1>4, <1>5, <1>6, <1>7, <1>8, <1>9, <1>10
    DEF Next, Callback, Loop

(* A relay is on only on the side of the boundary its height allows.       *)
LEMMA WithinBoundaryStep ==
    /\ HeightHistory /\ Reversing /\ MotionInSession /\ WithinBoundary /\ [Next]_vars
    => WithinBoundary'
  <1> SUFFICES ASSUME HeightHistory, Reversing, MotionInSession, WithinBoundary,
                      [Next]_vars
               PROVE  WithinBoundary'
    OBVIOUS
  <1> USE HeightAssumption
      DEF WithinBoundary, BoundaryAllows, Moving, relayVars, sessionVars, RelayStop
  <1>1. CASE HandleInvalidHeight \/ HandleStopOrRefused
    BY <1>1 DEF HandleInvalidHeight, HandleStopOrRefused
  <1>2. ASSUME NEW s \in Stamps, NEW h \in Heights, HandleHeight(s, h)
        PROVE  WithinBoundary'
    <2>1. CASE HandleBaseline(s, h)
      BY <2>1 DEF HandleBaseline, MotionInSession, HeightHistory
    <2>2. CASE HandleDuplicate(s)
      BY <2>2 DEF HandleDuplicate
    <2>3. CASE HandleDistinct(s, h)
      BY <2>3 DEF HandleDistinct, AtLimit
    <2>4. QED
      BY <1>2, <2>1, <2>2, <2>3 DEF HandleHeight
  <1>3. ASSUME NEW d \in Moving, NEW h \in Holds, HandleMove(d, h)
        PROVE  WithinBoundary'
    BY <1>3 DEF HandleMove, Start, IsReady, Extend, SwitchOn, BreakFirst
  <1>4. CASE FinishReversal
    BY <1>4 DEF FinishReversal, Reversing, HeightHistory, SwitchOn
  <1>5. CASE TakeTimeoutEvent \/ WithLinks \/ ConnectRefused \/ PollIdle \/ Heartbeat
    BY <1>5 DEF TakeTimeoutEvent, WithLinks, ConnectRefused, PollIdle, Heartbeat
  <1>6. CASE WithoutWifi \/ WithoutMqtt
    BY <1>6 DEF WithoutWifi, WithoutMqtt, StopUnlessKnown
  <1>7. CASE BeginSession \/ PollLost \/ FailClosed
    BY <1>7 DEF BeginSession, PollLost, FailClosed
  <1>8. CASE ControlTick
    BY <1>8 DEF ControlTick, Arm, ExpireLease, NothingDue
  <1>9. CASE OnTimer \/ Tick \/ LinkChange
    BY <1>9 DEF OnTimer, Tick, LinkChange
  <1>10. CASE UNCHANGED vars
    BY <1>10 DEF vars
  <1>11. QED
    BY <1>1, <1>2, <1>3, <1>4, <1>5, <1>6, <1>7, <1>8, <1>9, <1>10
    DEF Next, Callback, Loop

IInv == TypeOK /\ RelayInv /\ SessionInv /\ MotionInv

(* The inductive invariant: types, the relay part, the session part and    *)
(* the motion part, which needs the other three.                           *)
THEOREM Inductive == Spec => []IInv
  <1>1. Init => RelayInv /\ SessionInv /\ MotionInv
    <2>1. Init => MotionInv
      BY DEF Init, MotionInv, Reversing, MotionInSession, WithinBoundary
    <2>2. QED
      BY <2>1, RelayInit, SessionInit
  <1>2. /\ TypeOK /\ RelayInv /\ SessionInv /\ MotionInv /\ [Next]_vars
        => RelayInv' /\ SessionInv' /\ MotionInv'
    BY RelayStep, HeightHistoryStep, LinkBeliefStep, ReversingStep,
       MotionInSessionStep, WithinBoundaryStep
    DEF TypeOK, RelayInv, SessionInv, MotionInv
  <1>3. QED
    BY <1>1, <1>2, Typing, PTL DEF Spec, IInv

(* A timeout event is only ever reported for a relay that is off.          *)
THEOREM TimeoutMeansStoppedHolds == Spec => []TimeoutMeansStopped
  BY Inductive, PTL DEF IInv, RelayInv

(* Up only below the control maximum, Down only above the minimum, by the  *)
(* newest accepted height, including a move that waited in delay().        *)
THEOREM WithinBoundaryHolds == Spec => []WithinBoundary
  BY Inductive, PTL DEF IInv, MotionInv

(* No motion before two differently stamped heights in the same session.   *)
THEOREM TwoObservationsHolds == Spec => []TwoObservations
  <1>1. IInv => TwoObservations
    BY DEF IInv, MotionInv, SessionInv, MotionInSession, HeightHistory, TwoObservations
  <1>2. QED
    BY <1>1, Inductive, PTL

(***************************************************************************)
(* The lease.  While no age reaches the wrap of millis(), elapsed() is the *)
(* comparison it looks like, and an admitted move inherits an age below    *)
(* the lease; from then on the age grows as fast as the timer runs down.   *)
(***************************************************************************)
LEMMA ElapsedWithoutWrap ==
  ASSUME Horizon < Wrap, ClocksOK
  PROVE  Elapsed(heightTime, Lease) <=> heightTime >= Lease
  BY TimeAssumption DEF ClocksOK, Elapsed

LeaseInv == MotionWithinLease /\ ReversalWithinLease

(* Every step keeps the bound on the age of the height behind a motion.    *)
LEMMA LeaseStep ==
  ASSUME Horizon < Wrap, IInv, LeaseInv, [Next]_vars
  PROVE  LeaseInv'
  <1> USE TimeAssumption
      DEF LeaseInv, MotionWithinLease, ReversalWithinLease, IInv, TypeOK, ClocksOK,
          RelayInv, DeadlineArmed, Disarmed, Holds, relayVars, clockVars, breakVars,
          RelayStop
  <1>1. CASE HandleInvalidHeight \/ HandleStopOrRefused
    BY <1>1 DEF HandleInvalidHeight, HandleStopOrRefused, Publish
  <1>2. ASSUME NEW s \in Stamps, NEW h \in Heights, HandleHeight(s, h)
        PROVE  LeaseInv'
    BY <1>2 DEF HandleHeight, HandleBaseline, HandleDuplicate, HandleDistinct, Publish
  <1>3. ASSUME NEW d \in Moving, NEW h \in Holds, HandleMove(d, h)
        PROVE  LeaseInv'
    <2>1. CASE IsReady /\ BoundaryAllows(d)
      <3>1. heightTime < Lease
        BY <2>1, ElapsedWithoutWrap DEF IsReady
      <3>2. QED
        BY <1>3, <2>1, <3>1 DEF HandleMove, Start, Extend, SwitchOn, BreakFirst, Publish
    <2>2. CASE ~(IsReady /\ BoundaryAllows(d))
      BY <1>3, <2>2 DEF HandleMove, Publish
    <2>3. QED
      BY <2>1, <2>2
  <1>4. CASE FinishReversal
    BY <1>4 DEF FinishReversal, SwitchOn, Publish
  <1>5. CASE TakeTimeoutEvent \/ WithLinks \/ ConnectRefused \/ PollIdle \/ Heartbeat
    BY <1>5 DEF TakeTimeoutEvent, WithLinks, ConnectRefused, PollIdle, Heartbeat, Publish
  <1>6. CASE WithoutWifi \/ WithoutMqtt
    BY <1>6 DEF WithoutWifi, WithoutMqtt, StopUnlessKnown
  <1>7. CASE BeginSession \/ PollLost \/ FailClosed
    BY <1>7 DEF BeginSession, PollLost, FailClosed
  <1>8. CASE ControlTick
    BY <1>8 DEF ControlTick, Arm, ExpireLease, NothingDue, Publish
  <1>9. CASE OnTimer
    BY <1>9 DEF OnTimer
  <1>10. CASE Tick
    BY <1>10 DEF Tick, Later
  <1>11. CASE LinkChange
    BY <1>11 DEF LinkChange
  <1>12. CASE UNCHANGED vars
    BY <1>12 DEF vars
  <1>13. QED
    BY <1>1, <1>2, <1>3, <1>4, <1>5, <1>6, <1>7, <1>8, <1>9, <1>10, <1>11, <1>12
    DEF Next, Callback, Loop

(* As long as no session outlives the period of millis(), every motion     *)
(* ends within lease + reversal delay + one hold of the last distinct      *)
(* height, whether or not loop() still runs.                               *)
THEOREM LeaseBound ==
  ASSUME Horizon < Wrap
  PROVE  Spec => []MotionWithinLease
  <1>1. Init => LeaseInv
    BY DEF Init, LeaseInv, MotionWithinLease, ReversalWithinLease
  <1>2. IInv /\ LeaseInv /\ [Next]_vars => LeaseInv'
    BY LeaseStep
  <1>3. LeaseInv => MotionWithinLease
    BY DEF LeaseInv
  <1>4. QED
    BY <1>1, <1>2, <1>3, Inductive, PTL DEF Spec

(***************************************************************************)
(* The refinement: every step of the board is a step of the dead man's     *)
(* switch or leaves it alone.                                              *)
(***************************************************************************)
LEMMA OutputIsDirection == OutputsExclusive /\ ValuesOK => Output = direction
  BY DEF OutputsExclusive, ValuesOK, Moving, Output

(* Every step of the board is one of the switch, or a stutter.             *)
LEMMA BoardStep ==
  ASSUME IInv, IInv', [Next]_vars
  PROVE  [DeadMan!Next]_DeadMan!vars
  <1>1. Output = direction /\ Output' = direction'
    BY OutputIsDirection DEF IInv, TypeOK, RelayInv, OutputsExclusive, ValuesOK, Output,
                             Moving
  <1> USE TimeAssumption, <1>1
      DEF Left, IInv, TypeOK, ClocksOK, ValuesOK, RelayInv, DeadlineArmed, Disarmed,
          Holds, Moving, DeadMan!Next, DeadMan!Release, DeadMan!Elapse, DeadMan!Grant,
          DeadMan!vars
  <1>2. CASE RelayStop
    BY <1>2 DEF RelayStop
  <1>3. CASE UNCHANGED relayVars
    BY <1>3 DEF relayVars, Output
  <1>4. ASSUME NEW d \in Moving, NEW h \in Holds, HandleMove(d, h)
        PROVE  [DeadMan!Next]_DeadMan!vars
    <2>1. CASE direction = d /\ Extend(h)
      BY <2>1 DEF Extend
    <2>2. CASE direction = "Stop" /\ SwitchOn(d, h)
      BY <2>2 DEF SwitchOn
    <2>3. CASE BreakFirst(d, h)
      BY <2>3 DEF BreakFirst
    <2>4. QED
      BY <1>2, <1>4, <2>1, <2>2, <2>3 DEF HandleMove, Start
  <1>5. CASE FinishReversal
    BY <1>5 DEF FinishReversal, SwitchOn, MotionInv, Reversing
  <1>6. CASE OnTimer
    BY <1>6 DEF OnTimer
  <1>7. CASE Tick
    BY <1>7 DEF Tick
  <1>8. ASSUME NEW s \in Stamps, NEW h \in Heights, HandleHeight(s, h)
        PROVE  RelayStop \/ UNCHANGED relayVars
    BY <1>8 DEF HandleHeight, HandleBaseline, HandleDuplicate, HandleDistinct
  <1>9. CASE Loop /\ ~FinishReversal
    <2>1. TakeTimeoutEvent => UNCHANGED <<gpio, direction, timer>>
      BY DEF TakeTimeoutEvent
    <2>2. CASE UNCHANGED <<gpio, direction, timer>>
      BY <2>2
    <2>3. RelayStop \/ UNCHANGED relayVars \/ TakeTimeoutEvent
      BY <1>9 DEF Loop, WithoutWifi, WithoutMqtt, StopUnlessKnown, WithLinks,
                  ConnectRefused, BeginSession, PollLost, PollIdle, ControlTick, Arm,
                  ExpireLease, NothingDue, Heartbeat, FailClosed
    <2>4. QED
      BY <1>2, <1>3, <2>1, <2>2, <2>3
  <1>10. HandleInvalidHeight \/ HandleStopOrRefused => RelayStop
    BY DEF HandleInvalidHeight, HandleStopOrRefused
  <1>11. LinkChange \/ UNCHANGED vars => UNCHANGED relayVars
    BY DEF LinkChange, vars, relayVars
  <1>12. QED
    BY <1>2, <1>3, <1>4, <1>5, <1>6, <1>7, <1>8, <1>9, <1>10, <1>11
    DEF Next, Callback

(* The board implements the dead man's switch (its safety part; that a     *)
(* grant does run out is checked by TLC under FairSpec).                   *)
THEOREM IsDeadMan == Spec => DeadMan!Spec
  <1>1. Init => DeadMan!Init
    BY DEF Init, DeadMan!Init, Output, Left
  <1>2. IInv /\ IInv' /\ [Next]_vars => [DeadMan!Next]_DeadMan!vars
    BY BoardStep
  <1>3. QED
    BY <1>1, <1>2, Inductive, PTL DEF Spec, DeadMan!Spec

=============================================================================
