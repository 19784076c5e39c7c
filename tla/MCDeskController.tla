-------------------------- MODULE MCDeskController --------------------------
(* Small instances of DeskController. Heights run over the whole operating   *)
(* range 1..3, whose middle is a fine approach (1) away from both ends.      *)
EXTENDS DeskController

Target(g) == [op |-> "target", amount |-> g, dir |-> "none"]
Adjust(n, d) == [op |-> "adjust", amount |-> n, dir |-> d]
HoldOf(d) == [op |-> "hold", amount |-> 0, dir |-> d]
StopOf == [op |-> "stop", amount |-> 0, dir |-> "none"]
Status(s, h) == [state |-> s, health |-> h]

\* One user with every kind of request, an increase beyond the range included.
MCRequests == {Target(2), Adjust(1, "UP"), HoldOf("UP"), StopOf}
MCReports == {Status("STOP", "ready"), Status("UP", "busy"), Status("STOP", "waiting"),
              Status("STOP", "refused")}

\* Holds and stops only, for the runs that refute a claim.
PairRequests == {HoldOf("UP"), StopOf}
PairReports == {Status("STOP", "ready"), Status("UP", "busy")}

\* Liveness.
LiveRequests == {HoldOf("UP"), Target(2), StopOf}
LiveReports == {Status("STOP", "ready")}
=============================================================================
