-------------------------- MODULE HeightMonitor_proofs --------------------------
(***************************************************************************)
(* Proofs about HeightMonitor, for every set of frames and every           *)
(* measurement range.                                                      *)
(***************************************************************************)
EXTENDS HeightForDesk, TLAPS

\* TypeOK in its parts.
Data ==
    /\ life \in {"down", "loading", "up", "joining", "closing"}
    /\ run \in {"none", "loop", "waiting", "opening", "reading", "closing", "dropping",
                "saving", "publishing", "failed", "over"}
    /\ source \in {"STOPPED", "DISCONNECTED", "CONNECTED", "ERROR"}
    /\ connection \in {"none", "good", "dead"} /\ ports \in Nat
    /\ device \in {"gone", "silent", "talking"}
    /\ provenance \in {"none", "CACHED", "LIVE"}
Flags == /\ running \in BOOLEAN /\ cancel \in BOOLEAN /\ started \in BOOLEAN
         /\ pausing \in BOOLEAN /\ old \in BOOLEAN
Heights == {height, heard, cache, retained} \subseteq Values
LifeInv == /\ running <=> life = "up"
           /\ run = "none" <=> life \in {"down", "loading"}
           /\ cancel => life = "joining" /\ run \notin {"none", "failed", "over"}
           /\ run = "dropping" => cancel
           /\ run = "over" => life \in {"joining", "closing"}
           /\ life = "closing" => run \in {"failed", "over"}

\* Who has the port: the connection, the one who closes it, the one who drops it.
PortInv ==
    /\ run \in {"none", "opening", "closing", "dropping"} => connection = "none"
    /\ ports = IF connection # "none" \/ run \in {"closing", "dropping"} THEN 1 ELSE 0

\* What a height is, by its provenance.
HeightInv ==
    /\ provenance = "none" => height = Unknown
    /\ provenance = "LIVE" => height = heard /\ heard # Unknown
    /\ run \in {"saving", "publishing"} => provenance = "LIVE"
    /\ old => provenance = "LIVE"
    /\ source = "CONNECTED" /\ running => connection # "none" \/ run = "closing"

\* The inductive invariant.
IInv == Data /\ Flags /\ Heights /\ LifeInv /\ PortInv /\ HeightInv

-----------------------------------------------------------------------------
(* The steps *)

\* (DeskHeightMonitor.start, stop, SerialLineSource.start, stop) The lifecycle.
LEMMA LifeSteps ==
  ASSUME IInv, Start \/ Launch \/ Stop \/ Join \/ StopSource
  PROVE  IInv'
<1> USE RangeAssumption DEF lifeVars, runVars, portVars, sourceVars, heightVars, outVars, Start,
                        Launch, Stop, Join, StopSource
<1>1. Data'
  BY DEF IInv, Data, LifeInv, PortInv
<1>2. Flags'
  BY DEF IInv, Flags
<1>3. Heights'
  BY DEF IInv, Heights, Values
<1>4. LifeInv'
  BY DEF IInv, Data, Flags, LifeInv
<1>5. PortInv'
  BY DEF IInv, Data, LifeInv, PortInv
<1>6. HeightInv'
  BY DEF IInv, Data, LifeInv, PortInv, HeightInv
<1> QED  BY <1>1, <1>2, <1>3, <1>4, <1>5, <1>6 DEF IInv

\* (_next_connect_at, the stale limit, the USB device) The clocks and the device.
LEMMA WorldSteps ==
  ASSUME IInv, RetryDue \/ Age \/ Device
  PROVE  IInv'
<1> USE RangeAssumption DEF lifeVars, runVars, portVars, sourceVars, heightVars, outVars,
                        RetryDue, Age, Device
<1>1. Data'
  BY DEF IInv, Data, LifeInv, PortInv
<1>2. Flags'
  BY DEF IInv, Flags
<1>3. Heights'
  BY DEF IInv, Heights, Values
<1>4. LifeInv'
  BY DEF IInv, Data, Flags, LifeInv
<1>5. PortInv'
  BY DEF IInv, Data, LifeInv, PortInv
<1>6. HeightInv'
  BY DEF IInv, Data, LifeInv, PortInv, HeightInv
<1> QED  BY <1>1, <1>2, <1>3, <1>4, <1>5, <1>6 DEF IInv

\* (_run, read_line, _mark_disconnected, _persist_height, _publish_height) The runner.
LEMMA RunnerSteps ==
  ASSUME IInv, Runner
  PROVE  IInv'
<1> USE RangeAssumption DEF lifeVars, runVars, portVars, sourceVars, heightVars, outVars,
                        Runner, ReadLine, Waited, Open, OpenLate, Drop, Skip, Hear,
                        ReadFails, ClosePort, Break, Save, Publish, Unwind, ReadLate, At,
                        RecordError
<1>1. Data'
  BY DEF IInv, Data, LifeInv, PortInv
<1>2. Flags'
  BY DEF IInv, Flags
<1>3. Heights'
  BY DEF IInv, Heights, Values
<1>4. LifeInv'
  BY DEF IInv, Data, Flags, LifeInv
<1>5. PortInv'
  BY DEF IInv, Data, LifeInv, PortInv
<1>6. HeightInv'
  BY DEF IInv, Data, LifeInv, PortInv, HeightInv
<1> QED  BY <1>1, <1>2, <1>3, <1>4, <1>5, <1>6 DEF IInv

\* (height_monitor.py, serial/source.py) The invariant holds in every reachable state.
THEOREM Inductive == Spec => []IInv
<1>1. ASSUME Init PROVE IInv
  <2>1. Data /\ LifeInv /\ PortInv
    BY <1>1 DEF Init, Data, LifeInv, PortInv
  <2>2. Flags /\ Heights
    BY <1>1 DEF Init, Flags, Heights, Values
  <2>3. HeightInv
    BY <1>1 DEF Init, HeightInv
  <2> QED  BY <2>1, <2>2, <2>3 DEF IInv
<1>2. ASSUME IInv, [Next]_vars PROVE IInv'
  <2>1. CASE UNCHANGED vars
    BY <1>2, <2>1 DEF vars, IInv, Data, Flags, Heights, Values, LifeInv, PortInv, HeightInv, lifeVars,
                      runVars, portVars, sourceVars, heightVars, outVars
  <2>2. CASE Next
    BY <1>2, <2>2, LifeSteps, WorldSteps, RunnerSteps DEF Next
  <2> QED  BY <1>2, <2>1, <2>2
<1> QED  BY <1>1, <1>2, PTL DEF Spec

-----------------------------------------------------------------------------
(* What it gives *)

\* (DeskHeightMonitor, SerialLineSource) Every variable keeps its type, and the runner and its
\* cancellation agree with the life of the monitor.
THEOREM Typing == Spec => []TypeOK
<1>1. IInv => TypeOK
  BY DEF IInv, Data, Flags, Heights, LifeInv, TypeOK
<1> QED  BY <1>1, Inductive, PTL

\* (get_snapshot) ONLINE is a height heard from the sensor in this life, not too old.
THEOREM OnlineFresh == Spec => []OnlineIsFresh
<1>1. ASSUME IInv, Status \in {"ONLINE", "STALE"}
      PROVE  /\ running /\ height # Unknown /\ provenance = "LIVE"
             /\ Status = "ONLINE" => ~old /\ source = "CONNECTED"
  BY <1>1 DEF IInv, Data, HeightInv, Status
<1>2. IInv => OnlineIsFresh
  BY <1>1 DEF IInv, HeightInv, OnlineIsFresh
<1> QED  BY <1>2, Inductive, PTL

\* (SerialLineSource) The port is never open twice and never without an owner.
THEOREM PortsOwned == Spec => []PortsClosed
<1>1. IInv => PortsClosed
  BY DEF IInv, Data, LifeInv, PortInv, PortsClosed
<1> QED  BY <1>1, Inductive, PTL

\* (_persist_height, _publish_height) Cache and broker only ever receive the height heard last.
THEOREM OutputsFollowHeard == Spec => OutputsFollow
<1>1. ASSUME IInv, [Next]_vars
      PROVE  /\ cache' # cache => cache' = heard
             /\ retained' # retained => retained' = heard
  <2>1. CASE Save \/ Publish
    BY <1>1, <2>1 DEF Save, Publish, IInv, HeightInv
  <2>2. CASE UNCHANGED outVars
    BY <2>2 DEF outVars
  <2>3. Next => Save \/ Publish \/ UNCHANGED outVars
    BY DEF Next, Runner, Start, Launch, Stop, Join, StopSource, RetryDue, Age, Device, ReadLine,
           Waited, Open, OpenLate, Drop, Skip, Hear, ReadFails, ClosePort, Break, Unwind, ReadLate,
           outVars
  <2>4. UNCHANGED vars => UNCHANGED outVars
    BY DEF vars, outVars
  <2> QED  BY <1>1, <2>1, <2>2, <2>3, <2>4
<1> QED  BY <1>1, Inductive, PTL DEF Spec, OutputsFollow

-----------------------------------------------------------------------------
(* The monitor feeds the controller *)

\* The invariant this needs on top of IInv: once a reading has been heard the source
\* is past its first connection, so a reading never gets old while nobody has tried.
LInv == /\ life = "loading" => provenance # "LIVE"
        /\ life = "up" /\ provenance = "LIVE" => source \in {"CONNECTED", "ERROR"}

\* (start, SerialLineSource.start, _record_error) It is kept by every step.
LEMMA Connected ==
  ASSUME IInv, LInv, [Next]_vars
  PROVE  LInv'
<1>1. CASE Start \/ Launch
  BY <1>1 DEF Start, Launch, LInv, heightVars
<1>2. CASE Hear
  BY <1>2 DEF At, Hear, LInv, IInv, LifeInv, lifeVars, sourceVars
<1>3. CASE Open \/ ClosePort
  BY <1>3 DEF Open, ClosePort, RecordError, LInv, IInv, LifeInv, lifeVars, heightVars
<1>4. CASE Stop \/ Join \/ StopSource
  BY <1>4 DEF Stop, Join, StopSource, LInv
<1>5. UNCHANGED <<life, provenance, source>> => LInv'
  BY DEF LInv
<1>6. [Next]_vars => \/ Start \/ Launch \/ Hear \/ Open \/ ClosePort \/ Stop \/ Join \/ StopSource
                     \/ UNCHANGED <<life, provenance, source>>
  BY DEF Next, Runner, RetryDue, Age, Device, ReadLine, Waited, OpenLate, Drop, Skip, ReadFails,
         Break, Save, Publish, Unwind, ReadLate, vars, lifeVars, sourceVars, heightVars
<1> QED  BY <1>1, <1>2, <1>3, <1>4, <1>5, <1>6

\* (get_snapshot) The statuses a change of the source or of the age passes through.
LEMMA Passes ==
  ASSUME NEW e \in Desk!SensorSteps, DeskStatus = e[1], DeskStatus' = e[2], height' = height
  PROVE  Desk!SensorStep
<1>1. DeskHeight' = [DeskHeight EXCEPT !.status = e[2]] /\ DeskHeight.status = e[1]
  BY DEF DeskHeight
<1> QED
  BY <1>1 DEF Desk!SensorStep, Desk!lifeVars, Desk!trackVars, Desk!intentVars, Desk!threadVars

\* (get_snapshot, as DeskController reads it) Whatever the sensor, the port and the
\* clocks do while the monitor is up, the controller sees one of the changes its model
\* allows the height.
THEOREM MonitorFeedsDesk == Spec => FeedsDesk
<1>1. Init => LInv
  BY DEF Init, LInv
<1>2. ASSUME IInv, LInv, [Next]_vars, life = "up", life' = "up"
      PROVE  Desk!Observe \/ Desk!SensorStep \/ UNCHANGED DeskHeight
  <2>1. /\ running /\ running'
        /\ height = Unknown \/ provenance \in {"CACHED", "LIVE"}
        /\ source \in {"DISCONNECTED", "CONNECTED", "ERROR", "STOPPED"}
        /\ provenance = "LIVE" => source \in {"CONNECTED", "ERROR"}
        /\ old => provenance = "LIVE"
    BY <1>2, LifeSteps, WorldSteps, RunnerSteps
    DEF IInv, Data, LifeInv, HeightInv, LInv, Next, vars, lifeVars
  <2>2. CASE Hear
    <3>1. DeskStatus \notin {"ERROR", "LOST"}
      BY <2>1, <2>2 DEF Hear, DeskStatus, Status
    <3>2. height' # Unknown /\ height' \in Values
      BY <2>2 DEF Hear, Values
    <3>3. DeskStatus' = "ONLINE"
      BY <2>1, <2>2, <3>2 DEF Hear, DeskStatus, Status, sourceVars
    <3>4. DeskHeight' = [status |-> "ONLINE", value |-> height']
      BY <3>2, <3>3 DEF DeskHeight
    <3>5. DeskHeight.status \notin Desk!Failed
      BY <3>1 DEF DeskHeight, Desk!Failed
    <3>6. Desk!Observe
      BY <3>2, <3>4, <3>5
      DEF Desk!Observe, Desk!lifeVars, Desk!trackVars, Desk!threadVars
    <3> QED  BY <3>6
  <2>3. ASSUME UNCHANGED <<height, provenance>>,
               \/ UNCHANGED old /\ source' \in {source, "CONNECTED", "ERROR"}
               \/ provenance = "LIVE" /\ ~old /\ old' /\ UNCHANGED source
        PROVE  Desk!SensorStep \/ UNCHANGED DeskHeight
    <3>1. \/ DeskStatus' = DeskStatus
          \/ \E e \in Desk!SensorSteps : DeskStatus = e[1] /\ DeskStatus' = e[2]
      BY <2>1, <2>3 DEF DeskStatus, Status, Desk!SensorSteps
    <3>2. CASE DeskStatus' = DeskStatus
      BY <2>3, <3>2 DEF DeskHeight
    <3> QED  BY <2>3, <3>1, <3>2, Passes
  <2>4. CASE Age
    BY <2>3, <2>4 DEF Age, sourceVars
  <2>5. CASE Open \/ ClosePort
    BY <2>3, <2>5 DEF Open, ClosePort, RecordError, heightVars
  <2>6. CASE UNCHANGED <<source, heightVars>>
    BY <2>3, <2>6 DEF heightVars
  <2>7. \/ Hear \/ Age \/ Open \/ ClosePort \/ UNCHANGED <<source, heightVars>>
    BY <1>2 DEF Next, Runner, Start, Launch, Stop, Join, StopSource, RetryDue, Device, ReadLine,
           Waited, OpenLate, Drop, Skip, ReadFails, Break, Save, Publish, Unwind, ReadLate, vars,
           sourceVars, heightVars
  <2> QED  BY <2>2, <2>4, <2>5, <2>6, <2>7
<1>3. IInv /\ LInv /\ [Next]_vars =>
        LInv' /\ [life = "up" /\ life' = "up" => Desk!Observe \/ Desk!SensorStep]_DeskHeight
  BY <1>2, Connected
<1> QED  BY <1>1, <1>3, Inductive, PTL DEF Spec, FeedsDesk

\* (SegmentDecoder.decode) What is decoded is a height of the measurement range.
LEMMA DecodeInRange ==
  ASSUME NEW f \in Frames
  PROVE  Decode(f) = Unknown \/ (Decode(f) \in Nat /\ InRange(Decode(f)))
<1>1. ASSUME Readable(f) PROVE Scaled(f.digits, f.points) \in Nat
  <2>1. f.digits[1] \in Nat /\ f.digits[2] \in Nat /\ f.digits[3] \in Nat
    BY <1>1, FrameAssumption DEF Readable, Positions
  <2>2. QED
    BY <2>1 DEF Scaled, Number
<1> QED  BY <1>1 DEF Decode

\* (get_snapshot, _persist_height, _publish_height) What the monitor shows, caches and
\* publishes is a height of that range, or none.
HeightsInRange == \A h \in {height, heard, cache, retained} :
                     h = Unknown \/ (h \in Nat /\ InRange(h))
THEOREM InRangeHolds == Spec => []HeightsInRange
<1>1. IInv => HeightsInRange
  BY DecodeInRange DEF IInv, Heights, Values, HeightsInRange
<1> QED  BY <1>1, Inductive, PTL
=============================================================================
