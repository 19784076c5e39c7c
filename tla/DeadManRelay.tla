----------------------------- MODULE DeadManRelay -----------------------------
(***************************************************************************)
(* What the desk asks of its relay board, without Wi-Fi, MQTT, heights or  *)
(* registers: a three-position switch with a dead man's handle.            *)
(*                                                                         *)
(* A motion is granted for at most MaxHold ticks; only a new grant in the  *)
(* same direction prolongs it, a reversal passes through Stop, and when a  *)
(* grant has run out the switch opens by itself.                           *)
(***************************************************************************)
EXTENDS Naturals

CONSTANT MaxHold          \* the longest grant, in ticks


VARIABLES
    output,               \* "Stop", "Up" or "Down"
    left                  \* ticks left of the grant

vars == <<output, left>>

Init == output = "Stop" /\ left = 0

Grant(d) ==
    /\ output \in {"Stop", d}
    /\ output' = d
    /\ left' \in 1 .. MaxHold

Release ==
    /\ output' = "Stop"
    /\ left' = 0

Elapse ==
    /\ output # "Stop" /\ left > 0
    /\ left' = left - 1
    /\ UNCHANGED output

RunOut == output # "Stop" /\ left = 0 /\ Release

Next == Elapse \/ Release \/ \E d \in {"Up", "Down"} : Grant(d)

Spec == Init /\ [][Next]_vars

(* Time passes, and a grant that has run out is withdrawn.                 *)
FairSpec == Spec /\ WF_vars(Elapse) /\ WF_vars(RunOut)

=============================================================================
