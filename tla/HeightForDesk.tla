----------------------------- MODULE HeightForDesk -----------------------------
(***************************************************************************)
(* Module DeskController leaves the height sensor to its environment, with *)
(* the actions Observe and SensorStep. This module shows that the height   *)
(* monitor is such an environment: DeskController is instantiated with the *)
(* height below, and everything else of it held still.                     *)
(***************************************************************************)
EXTENDS HeightMonitor

\* What DeskController keeps of the snapshot: ERROR by the age of the last
\* reading, a value of the cache as STALE. Without a height the status is NONE.
DeskStatus ==
    IF height = Unknown THEN "NONE"
    ELSE IF Status = "ERROR" THEN IF provenance = "LIVE" /\ ~old THEN "ERROR" ELSE "LOST"
    ELSE IF Status = "ONLINE" THEN "ONLINE" ELSE "STALE"

DeskHeight == [status |-> DeskStatus,
               value |-> IF height = Unknown THEN MeasurementMin ELSE height]

Desk == INSTANCE DeskController WITH
    Users <- {}, Runner <- "runner", Life <- "life", Requests <- {}, Reports <- {},
    OperationMin <- MeasurementMin, OperationMax <- MeasurementMax,
    Tolerance <- 0, FineDistance <- 0, Heights <- Values \ {Unknown},
    control <- 0, running <- TRUE, closing <- FALSE, stopping <- FALSE, startup <- FALSE,
    overdue <- {}, firstPulse <- FALSE, confirmed <- FALSE, fresh <- {}, current <- {},
    newer <- {"wake", "fine"}, pc <- 0, req <- 0, why <- 0, pulse <- 0,
    intentQ <- <<>>, relayQ <- <<>>, relay <- 0, wire <- 0,
    height <- DeskHeight

\* (get_snapshot, as DeskController reads it) While the monitor is up, every change of the
\* height that the controller can see is one its own checks allow for: a new
\* observation never comes out of a failed source, and an ERROR passes into ONLINE,
\* LOST or STALE only as the reading's age and the connection say.
FeedsDesk ==
    [][life = "up" /\ life' = "up" => Desk!Observe \/ Desk!SensorStep]_DeskHeight
=============================================================================
