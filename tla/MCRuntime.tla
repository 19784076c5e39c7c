------------------------------- MODULE MCRuntime -------------------------------
(* Six resources in the orders of bootstrap.py: two without a task, MQTT, two *)
(* with a critical task, and one whose task is not critical.                 *)
EXTENDS Runtime, TLC

CONSTANTS sqlite, mqtt, height, desk, wled, voice

MCOrder == (sqlite :> 5) @@ (mqtt :> 10) @@ (height :> 20) @@ (desk :> 30) @@
           (wled :> 60) @@ (voice :> 70)
=============================================================================
