---------------------------- MODULE HeartbeatFaults ----------------------------
(***************************************************************************)
(* Heartbeat with a label on each step: whether it was a fault, a restart  *)
(* of the node or neither.  A lost call and a refusal change the node in   *)
(* the same way, so that no formula over the state tells them apart; what  *)
(* the properties assume of faults they say with the label.                *)
(***************************************************************************)
EXTENDS Heartbeat

VARIABLE event    \* what kind of step the last one was

faultVars == <<row, keyKnown, now, req, hb, reply, waiting, failures, locked, soft, xdp,
               event>>

FaultsInit == Init /\ event = "step"

FaultsNext ==
  \/ Step /\ event' = "step"
  \/ Fault /\ event' = "fault"
  \/ NodeRestart /\ event' = "restart"

FaultsSpec == FaultsInit /\ [][FaultsNext]_faultVars

\* The loop ticks and reads its answers, the handler runs; nothing makes an admin
\* act, a day pass or a fault happen.
Fairness ==
  /\ WF_vars(SendHeartbeat)
  /\ WF_vars(Receive)
  /\ WF_vars(Handler)
  /\ WF_vars(Cancelled)

FairSpec == FaultsSpec /\ Fairness

NoMoreFaults == <>[](event # "fault")
NoMoreRestarts == <>[](event # "restart")

-----------------------------------------------------------------------------
\* A node whose license is over goes down to the community limits, or is locked,
\* for good: whatever its heartbeats run into, one way or the other it stops
\* running on the limits it no longer pays for (suspension apart, see below).
OverdueNodeGoesFree ==
  (/\ <>[](row # NoRow /\ Expired(row) /\ row.status \notin {"suspended", "revoked"})
   /\ NoMoreRestarts)
    => <>[](locked \/ soft = 60)

\* A lock is not for ever: a node whose license is neither revoked nor gone is in
\* service again once calls are no longer lost and queries no longer fail; answers
\* that refuse it, from before the license was good again, are no such faults.
NodeRecovers ==
  (/\ <>[](FoundByNode /\ row.status # "revoked")
   /\ NoMoreFaults)
    => <>[]~locked

\* api.go:133-134: suspended means that the client stops traffic, the only state
\* that prevents it from operating.
SuspendedNodeStops ==
  (/\ <>[](FoundByNode /\ row.status = "suspended")
   /\ NoMoreFaults /\ NoMoreRestarts)
    => <>[]locked

\* dbtimeout.go:20-22: a request whose query timed out is answered with 503.
TimeoutIs503 == reply # NoReply /\ reply.late => reply.code = 503
===============================================================================
