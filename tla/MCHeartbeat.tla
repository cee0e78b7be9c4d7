---- MODULE MCHeartbeat ----
(* One license, one node, and one goroutine that writes rows back beside the *)
(* single statements and the handler's own: enough to let any operation fall *)
(* between any two steps of a heartbeat or of another operation.             *)
EXTENDS HeartbeatAudit, TLC

CONSTANTS r1

OneRequest == {r1}
TwoPlans == {"community", "pro"}
\* Everything but the edit form, which may give any plan with any date.
AllButEdit == {"Activate", "Suspend", "Upgrade", "Downgrade", "CheckExpiry",
               "Renew", "Revoke", "Rotate", "Delete"}
====
