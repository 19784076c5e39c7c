---------------------------- MODULE RelayFirmware ----------------------------
(***************************************************************************)
(* The ESP32-C3 relay firmware (src/firmware/relay-controller).            *)
(*                                                                         *)
(* Three actors share the relay: the Arduino loop() with the MQTT callback *)
(* it runs (variable pc is its program counter), the hardware timer        *)
(* interrupt onTimer(), and the world: time, Wi-Fi and the MQTT            *)
(* connection.  The interrupt may fall between any two steps of loop();    *)
(* start() and stop() disarm the timer first, so it cannot fall inside     *)
(* them, except during the delay() of a direction reversal, when the timer *)
(* is disarmed anyway.                                                     *)
(*                                                                         *)
(* Time is counted in ticks.  elapsed() only ever looks at a difference of *)
(* two millis() readings modulo 2^32, so the module keeps the two          *)
(* differences that are used, sessionTime and heightTime, and applies the  *)
(* modulus (Wrap) where the code does.  Both stop counting at Horizon:     *)
(* with Horizon < Wrap every age from Horizon to the wrap is the same age  *)
(* to elapsed(); with Horizon >= Wrap the wrap itself is reached.          *)
(***************************************************************************)
EXTENDS Integers, FiniteSets

CONSTANTS
    MinControl, MaxControl,   \* MIN/MAX_CONTROL_HEIGHT_CM
    Heights,                  \* the heights parseHeight() lets through
    NoHeight,                 \* lastHeightCm_ = NAN
    Stamps,                   \* observed_at texts
    NoStamp,                  \* lastObservedAt_ = ""
    MaxHold,                  \* MAX_HOLD_MS, in ticks
    Break,                    \* BREAK_BEFORE_MAKE_MS, in ticks
    Lease,                    \* HEIGHT_LEASE_MS, in ticks
    ArmDelay,                 \* CONTROL_ARM_DELAY_MS, in ticks
    Wrap,                     \* 2^32 milliseconds, in ticks
    Horizon                   \* ages stop counting here

ASSUME HeightAssumption ==
    /\ Heights \subseteq Int
    /\ MinControl \in Int /\ MaxControl \in Int
    /\ MinControl < MaxControl
    /\ NoHeight \notin Heights
    /\ NoStamp \notin Stamps

ASSUME TimeAssumption ==
    /\ MaxHold \in Nat \ {0} /\ Lease \in Nat \ {0}
    /\ Break \in Nat /\ ArmDelay \in Nat
    /\ Wrap \in Nat /\ Horizon \in Nat
    /\ Wrap > Lease /\ Wrap > ArmDelay

VARIABLES
    gpio,            \* the set of energised outputs, a subset of {"Up", "Down"}
    direction,       \* direction_
    timer,           \* ticks left on the armed one-shot timer, or Disarmed
    timeoutPending,  \* timeoutPending_
    hasBaseline, hasDistinct, armed,
    lastObserved,    \* lastObservedAt_
    lastHeight,      \* lastHeightCm_
    sessionTime,     \* millis() - sessionStartedAt_
    heightTime,      \* millis() - lastDistinctHeightAt_
    wifi,            \* WiFi.status() == WL_CONNECTED
    mqtt,            \* mqtt.connected()
    wifiWas, mqttWas,\* wifiWasConnected, mqttWasConnected
    pc,              \* where loop() is
    askedDir, askedHold, \* arguments of the start() waiting in delay()
    breakLeft,       \* ticks left of that delay()
    seen             \* history: the stamps accepted since the last invalidation

relayVars   == <<gpio, direction, timer, timeoutPending>>
sessionVars == <<hasBaseline, hasDistinct, armed, lastObserved, lastHeight, seen>>
clockVars   == <<sessionTime, heightTime>>
linkVars    == <<wifi, mqtt, wifiWas, mqttWas>>
breakVars   == <<askedDir, askedHold, breakLeft>>
vars == <<gpio, direction, timer, timeoutPending,
          hasBaseline, hasDistinct, armed, lastObserved, lastHeight, seen,
          sessionTime, heightTime, wifi, mqtt, wifiWas, mqttWas,
          pc, askedDir, askedHold, breakLeft>>

Moving   == {"Up", "Down"}
Disarmed == -1
NoAsk    == "Up"              \* whatever, while no start() waits
UncheckedHolds == 0 .. MaxHold + 1   \* mutant of Holds: no holdAllowed()

Holds == 1 .. MaxHold           \* holdAllowed()

Locations == {"loop", "links", "connecting", "poll", "tick", "beat",
              "breaking", "failing"}

(***************************************************************************)
(* policy.h: elapsed() and directionAllowed().                             *)
(***************************************************************************)
Elapsed(age, interval) == age % Wrap >= interval

BoundaryAllows(d) == IF d = "Up" THEN lastHeight < MaxControl
                                 ELSE lastHeight > MinControl

(* Mutant of IsReady: the lease is left to tick().                         *)
ReadyWhileArmed == armed /\ hasDistinct /\ hasBaseline

IsReady == armed /\ hasDistinct /\ hasBaseline /\ ~Elapsed(heightTime, Lease)

(***************************************************************************)
(* RelayController.  Stop is relay.stop(); SwitchOn(d, h) the critical     *)
(* section of start() that raises one output, with the armTimer() after.   *)
(***************************************************************************)
RelayStop ==
    /\ gpio' = {}
    /\ direction' = "Stop"
    /\ timer' = Disarmed
    /\ timeoutPending' = FALSE

(* Mutant of SwitchOn: start() leaves an old timeout event pending.        *)
SwitchOnKeepEvent(d, h) ==
    /\ gpio' = gpio \cup {d}
    /\ direction' = d
    /\ timer' = h
    /\ UNCHANGED timeoutPending

SwitchOn(d, h) ==
    /\ gpio' = gpio \cup {d}
    /\ direction' = d
    /\ timer' = h
    /\ timeoutPending' = FALSE

Extend(h) ==
    /\ timer' = h
    /\ UNCHANGED <<gpio, direction, timeoutPending>>

BreakFirst(d, h) ==
    /\ gpio' = {}
    /\ direction' = "Stop"
    /\ timer' = Disarmed
    /\ UNCHANGED timeoutPending
    /\ askedDir' = d
    /\ askedHold' = h
    /\ breakLeft' = Break

(***************************************************************************)
(* ControlHandler helpers.                                                 *)
(***************************************************************************)
InvalidateSession ==
    /\ hasBaseline' = FALSE
    /\ hasDistinct' = FALSE
    /\ armed' = FALSE
    /\ lastObserved' = NoStamp
    /\ lastHeight' = NoHeight
    /\ seen' = {}

(* publishStatus(): it fails when the connection is gone and may fail when *)
(* it is not; a failure is followed by failClosed().                       *)
Publish(next) ==
    \/ mqtt /\ pc' = next
    \/ pc' = "failing"

CanArm(sinceHeight) ==
    /\ ~armed
    /\ hasBaseline
    /\ Elapsed(sessionTime, ArmDelay)
    /\ ~Elapsed(sinceHeight, Lease)

FailClosed ==
    /\ pc = "failing"
    /\ RelayStop
    /\ InvalidateSession
    /\ mqtt' = FALSE
    /\ pc' = "loop"
    /\ UNCHANGED <<clockVars, wifi, wifiWas, mqttWas, breakVars>>

(***************************************************************************)
(* handleHeight().                                                         *)
(***************************************************************************)
HandleInvalidHeight ==
    /\ pc = "poll" /\ mqtt
    /\ RelayStop
    /\ InvalidateSession
    /\ Publish("tick")
    /\ UNCHANGED <<clockVars, linkVars, breakVars>>

(* Mutant of HandleBaseline: a retained height counts as an observation.   *)
TrustRetained(s, h) ==
    /\ ~hasBaseline
    /\ hasBaseline' = TRUE
    /\ hasDistinct' = TRUE
    /\ lastObserved' = s
    /\ lastHeight' = h
    /\ heightTime' = 0
    /\ seen' = seen \cup {s}
    /\ pc' = "tick"
    /\ UNCHANGED <<relayVars, armed>>

HandleBaseline(s, h) ==
    /\ ~hasBaseline
    /\ hasBaseline' = TRUE
    /\ lastObserved' = s
    /\ lastHeight' = h
    /\ seen' = seen \cup {s}
    /\ pc' = "tick"
    /\ UNCHANGED <<relayVars, hasDistinct, armed, heightTime>>

HandleDuplicate(s) ==
    /\ hasBaseline /\ s = lastObserved
    /\ pc' = "tick"
    /\ UNCHANGED <<relayVars, sessionVars, heightTime>>

(* Mutant of AtLimit: the limit itself is let through.                     *)
BeyondLimit(h) == \/ direction = "Up"   /\ h > MaxControl
                  \/ direction = "Down" /\ h < MinControl

AtLimit(h) == \/ direction = "Up"   /\ h >= MaxControl
              \/ direction = "Down" /\ h <= MinControl

HandleDistinct(s, h) ==
    /\ hasBaseline /\ s # lastObserved
    /\ lastObserved' = s
    /\ lastHeight' = h
    /\ seen' = seen \cup {s}
    /\ heightTime' = 0
    /\ hasDistinct' = TRUE
    /\ armed' = (armed \/ CanArm(0))
    /\ IF AtLimit(h) THEN RelayStop ELSE UNCHANGED relayVars
    /\ IF AtLimit(h) \/ (CanArm(0) /\ mqtt) THEN Publish("tick") ELSE pc' = "tick"
    /\ UNCHANGED hasBaseline

HandleHeight(s, h) ==
    /\ pc = "poll" /\ mqtt
    /\ \/ HandleBaseline(s, h)
       \/ HandleDuplicate(s)
       \/ HandleDistinct(s, h)
    /\ UNCHANGED <<sessionTime, linkVars, breakVars>>

(***************************************************************************)
(* handleControl().  A STOP and a payload parseControl() refuses (a WAKE   *)
(* among them) both stop the relay and differ in the status text only.     *)
(***************************************************************************)
HandleStopOrRefused ==
    /\ pc = "poll" /\ mqtt
    /\ RelayStop
    /\ Publish("tick")
    /\ UNCHANGED <<sessionVars, clockVars, linkVars, breakVars>>

(* Mutant of Start: a reversal does not open the old output first.         *)
StartWithoutBreak(d, h) ==
    \/ direction = d /\ Extend(h) /\ Publish("tick") /\ UNCHANGED breakVars
    \/ direction # d /\ SwitchOn(d, h) /\ Publish("tick") /\ UNCHANGED breakVars

Start(d, h) ==
    \/ direction = d /\ Extend(h) /\ Publish("tick") /\ UNCHANGED breakVars
    \/ direction = "Stop" /\ SwitchOn(d, h) /\ Publish("tick") /\ UNCHANGED breakVars
    \/ direction \notin {d, "Stop"} /\ BreakFirst(d, h) /\ pc' = "breaking"

HandleMove(d, h) ==
    /\ pc = "poll" /\ mqtt
    /\ IF IsReady /\ BoundaryAllows(d)
       THEN Start(d, h)
       ELSE RelayStop /\ Publish("tick") /\ UNCHANGED breakVars
    /\ UNCHANGED <<sessionVars, clockVars, linkVars>>

FinishReversal ==
    /\ pc = "breaking" /\ breakLeft = 0
    /\ SwitchOn(askedDir, askedHold)
    /\ Publish("tick")
    /\ askedDir' = NoAsk
    /\ askedHold' = 0
    /\ UNCHANGED <<sessionVars, clockVars, linkVars, breakLeft>>

(***************************************************************************)
(* tick() and the heartbeat.                                               *)
(***************************************************************************)
Arm ==
    /\ hasDistinct /\ CanArm(heightTime)
    /\ armed' = TRUE
    /\ IF mqtt THEN Publish("beat") ELSE pc' = "beat"
    /\ UNCHANGED <<relayVars, hasBaseline, hasDistinct, lastObserved, lastHeight, seen>>

ExpireLease ==
    /\ armed /\ Elapsed(heightTime, Lease)
    /\ RelayStop
    /\ armed' = FALSE
    /\ hasDistinct' = FALSE
    /\ IF direction # "Stop" THEN Publish("beat") ELSE pc' = "beat"
    /\ UNCHANGED <<hasBaseline, lastObserved, lastHeight, seen>>

NothingDue ==
    /\ ~(hasDistinct /\ CanArm(heightTime))
    /\ ~(armed /\ Elapsed(heightTime, Lease))
    /\ pc' = "beat"
    /\ UNCHANGED <<relayVars, sessionVars>>

ControlTick ==
    /\ pc = "tick"
    /\ Arm \/ ExpireLease \/ NothingDue
    /\ UNCHANGED <<clockVars, linkVars, breakVars>>

Heartbeat ==
    /\ pc = "beat"
    /\ \/ pc' = "loop"
       \/ mqtt /\ pc' = "failing"
    /\ UNCHANGED <<relayVars, sessionVars, clockVars, linkVars, breakVars>>

(***************************************************************************)
(* loop(): the timeout event, the links, connectMqtt() and mqtt.loop().    *)
(***************************************************************************)
TakeTimeoutEvent ==
    /\ pc = "loop"
    /\ timeoutPending' = FALSE
    /\ IF timeoutPending /\ mqtt THEN Publish("links") ELSE pc' = "links"
    /\ UNCHANGED <<gpio, direction, timer, sessionVars, clockVars, linkVars, breakVars>>

StopUnlessKnown(known) ==
    IF known \/ direction # "Stop"
    THEN RelayStop /\ InvalidateSession
    ELSE UNCHANGED <<relayVars, sessionVars>>

WithoutWifi ==
    /\ pc = "links" /\ ~wifi
    /\ StopUnlessKnown(wifiWas)
    /\ wifiWas' = FALSE
    /\ mqttWas' = FALSE
    /\ mqtt' = FALSE
    /\ pc' = "loop"
    /\ UNCHANGED <<clockVars, wifi, breakVars>>

(* The session will be dated from the millis() read at the top of this     *)
(* iteration, before the blocking connect: sessionTime starts here.        *)
WithoutMqtt ==
    /\ pc = "links" /\ wifi /\ ~mqtt
    /\ StopUnlessKnown(mqttWas)
    /\ wifiWas' = TRUE
    /\ mqttWas' = FALSE
    /\ \/ pc' = "loop" /\ UNCHANGED sessionTime
       \/ pc' = "connecting" /\ sessionTime' = 0
    /\ UNCHANGED <<heightTime, wifi, mqtt, breakVars>>

WithLinks ==
    /\ pc = "links" /\ wifi /\ mqtt
    /\ wifiWas' = TRUE
    /\ pc' = "poll"
    /\ UNCHANGED <<relayVars, sessionVars, clockVars, wifi, mqtt, mqttWas, breakVars>>

ConnectRefused ==
    /\ pc = "connecting"
    /\ pc' = "loop"
    /\ UNCHANGED <<relayVars, sessionVars, clockVars, linkVars, breakVars>>

BeginSession ==
    /\ pc = "connecting"
    /\ RelayStop
    /\ InvalidateSession
    /\ mqtt' = TRUE
    /\ \/ mqttWas' = TRUE /\ pc' = "loop"
       \/ UNCHANGED mqttWas /\ pc' = "failing"
    /\ UNCHANGED <<clockVars, wifi, wifiWas, breakVars>>

PollLost ==
    /\ pc = "poll"
    /\ RelayStop
    /\ InvalidateSession
    /\ mqtt' = FALSE
    /\ mqttWas' = FALSE
    /\ pc' = "loop"
    /\ UNCHANGED <<clockVars, wifi, wifiWas, breakVars>>

PollIdle ==
    /\ pc = "poll" /\ mqtt
    /\ pc' = "tick"
    /\ UNCHANGED <<relayVars, sessionVars, clockVars, linkVars, breakVars>>

(***************************************************************************)
(* The interrupt, time and the links.                                      *)
(***************************************************************************)
OnTimer ==
    /\ timer = 0
    /\ gpio' = {}
    /\ direction' = "Stop"
    /\ timer' = Disarmed
    /\ timeoutPending' = TRUE
    /\ UNCHANGED <<sessionVars, clockVars, linkVars, pc, breakVars>>

Later(age) == IF age < Horizon THEN age + 1 ELSE age

(* A due interrupt and the end of a delay() are served within the tick.    *)
Tick ==
    /\ timer # 0
    /\ ~(pc = "breaking" /\ breakLeft = 0)
    /\ timer' = IF timer = Disarmed THEN Disarmed ELSE timer - 1
    /\ breakLeft' = IF breakLeft = 0 THEN 0 ELSE breakLeft - 1
    /\ sessionTime' = Later(sessionTime)
    /\ heightTime' = Later(heightTime)
    /\ UNCHANGED <<gpio, direction, timeoutPending, sessionVars, linkVars, pc, askedDir, askedHold>>

LinkChange ==
    /\ \/ wifi' = ~wifi /\ UNCHANGED mqtt
       \/ mqtt /\ mqtt' = FALSE /\ UNCHANGED wifi
    /\ UNCHANGED <<relayVars, sessionVars, clockVars, wifiWas, mqttWas, pc, breakVars>>

Init ==
    /\ gpio = {} /\ direction = "Stop" /\ timer = Disarmed /\ timeoutPending = FALSE
    /\ hasBaseline = FALSE /\ hasDistinct = FALSE /\ armed = FALSE
    /\ lastObserved = NoStamp /\ lastHeight = NoHeight /\ seen = {}
    /\ sessionTime = 0 /\ heightTime = 0
    /\ wifi = FALSE /\ mqtt = FALSE /\ wifiWas = FALSE /\ mqttWas = FALSE
    /\ pc = "loop" /\ askedDir = NoAsk /\ askedHold = 0 /\ breakLeft = 0

Callback ==
    \/ HandleInvalidHeight
    \/ \E s \in Stamps, h \in Heights : HandleHeight(s, h)
    \/ HandleStopOrRefused
    \/ \E d \in Moving, h \in Holds : HandleMove(d, h)

Loop ==
    \/ TakeTimeoutEvent \/ WithoutWifi \/ WithoutMqtt \/ WithLinks
    \/ ConnectRefused \/ BeginSession \/ PollLost \/ PollIdle
    \/ ControlTick \/ Heartbeat \/ FinishReversal \/ FailClosed

Next == Callback \/ Loop \/ OnTimer \/ Tick \/ LinkChange

Spec == Init /\ [][Next]_vars

(* Time passes and the interrupt controller serves a due timer; loop() is  *)
(* promised nothing, it may hang in a socket call forever.                 *)
FairSpec == Spec /\ WF_vars(Tick) /\ WF_vars(OnTimer)

-----------------------------------------------------------------------------
FlagsOK ==
    /\ timeoutPending \in BOOLEAN
    /\ hasBaseline \in BOOLEAN /\ hasDistinct \in BOOLEAN /\ armed \in BOOLEAN
    /\ wifi \in BOOLEAN /\ mqtt \in BOOLEAN
    /\ wifiWas \in BOOLEAN /\ mqttWas \in BOOLEAN

ClocksOK ==
    /\ timer \in Disarmed .. MaxHold
    /\ sessionTime \in 0 .. Horizon
    /\ heightTime \in 0 .. Horizon
    /\ askedHold \in 0 .. MaxHold
    /\ breakLeft \in 0 .. Break

ValuesOK ==
    /\ gpio \subseteq Moving
    /\ direction \in Moving \cup {"Stop"}
    /\ lastObserved \in Stamps \cup {NoStamp}
    /\ lastHeight \in Heights \cup {NoHeight}
    /\ seen \subseteq Stamps
    /\ pc \in Locations
    /\ askedDir \in Moving

(* Every variable keeps the type its C++ declaration gives it; in          *)
(* particular no deadline longer than MAX_HOLD_MS is ever armed.           *)
TypeOK == FlagsOK /\ ClocksOK /\ ValuesOK

(* The two outputs are never energised together, and direction_ says which *)
(* one is, whatever interrupt fell where (relay_controller.cpp:33-75).     *)
OutputsExclusive ==
    gpio = IF direction = "Stop" THEN {} ELSE {direction}

(* An energised output always has a live deadline of at most MAX_HOLD_MS,  *)
(* and the timer runs for nothing else (relay_controller.cpp:103-116).     *)
DeadlineArmed == IF direction = "Stop" THEN timer = Disarmed ELSE timer \in 0 .. MaxHold

(* timeoutPending_ is raised by the interrupt and read later by loop(): the *)
(* "stopped/timeout" status is only ever sent for a relay that is off.     *)
TimeoutMeansStopped == timeoutPending => direction = "Stop"

(* The desk is driven up only below the control maximum and down only      *)
(* above the minimum, by the newest height the firmware has accepted       *)
(* (desk-safety.md:121-122).                                               *)
WithinBoundary ==
    /\ direction = "Up"   => hasBaseline /\ lastHeight < MaxControl
    /\ direction = "Down" => hasBaseline /\ lastHeight > MinControl

(* No motion on a retained height alone: the current session has accepted  *)
(* two observations with different stamps (desk-safety.md:114-119).        *)
TwoObservations ==
    direction # "Stop" => \E s, t \in seen : s # t

(* A motion belongs to a session loop() believes to be up, so the branches *)
(* that notice a lost link are the ones that stop it (main.cpp:190-216).   *)
MotionInSession == direction # "Stop" => mqttWas /\ armed

(* What the flags of the session say about the stamps it has accepted.     *)
HeightHistory ==
    /\ hasBaseline => lastObserved \in seen
    /\ hasDistinct => hasBaseline /\ \E s, t \in seen : s # t
    /\ armed => hasDistinct

(* What loop() believes of the links: a live connection it does not know   *)
(* is one that is about to fail closed.                                    *)
LinkBelief ==
    /\ mqttWas => wifiWas
    /\ mqtt => mqttWas \/ pc = "failing"
    /\ pc \in {"connecting", "poll"} => wifiWas

(* The move that waits in delay() is one that was admitted.                *)
Reversing ==
    pc = "breaking" =>
        /\ direction = "Stop" /\ askedDir \in Moving /\ askedHold \in Holds
        /\ armed /\ mqttWas /\ BoundaryAllows(askedDir)

(* From the last distinct height to the end of any motion it admitted, at  *)
(* most lease + reversal delay + one hold can pass, even if loop() hangs   *)
(* (desk-safety.md:95-117).                                                *)
MotionWithinLease ==
    direction # "Stop" => heightTime + timer < Lease + Break + MaxHold

(* The same bound, for the move that is still waiting in delay().          *)
ReversalWithinLease ==
    pc = "breaking" => heightTime + breakLeft < Lease + Break

(* The board is a DeadManRelay: the outputs are never both energised, a    *)
(* motion lasts at most one hold past the last accepted command even when  *)
(* loop() hangs for ever, and a reversal first opens both outputs          *)
(* (desk-safety.md:95-99).                                                 *)
Output == CASE gpio = {} -> "Stop"
            [] gpio = {"Up"} -> "Up"
            [] gpio = {"Down"} -> "Down"
            [] OTHER -> "Both"
Left == IF timer = Disarmed THEN 0 ELSE timer

DeadMan == INSTANCE DeadManRelay WITH output <- Output, left <- Left

IsDeadManRelay == DeadMan!FairSpec

=============================================================================
