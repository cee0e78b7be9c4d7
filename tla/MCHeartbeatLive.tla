---- MODULE MCHeartbeatLive ----
(* The heartbeat with labelled faults, for the runs under fairness.          *)
EXTENDS HeartbeatFaults, TLC

CONSTANTS r1

OneRequest == {r1}
NoRequest == {}
TwoPlans == {"community", "pro"}
\* What may happen to a license in the runs that follow it to its end.
Endings == {"Suspend", "Upgrade", "Renew", "Revoke", "Rotate"}
SuspendOnly == {"Suspend"}
NoOps == {}
====
