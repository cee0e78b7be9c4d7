---------------------------- MODULE HeartbeatAudit ----------------------------
(***************************************************************************)
(* Heartbeat with a record of what the node has been through since its     *)
(* license was last good, for the bound on how long it keeps serving.      *)
(***************************************************************************)
EXTENDS Heartbeat

VARIABLES after,    \* the call in progress was sent to a master that refuses it
          refused   \* heartbeats that began and ended since then, up to LockAfter

auditVars == <<row, keyKnown, now, req, hb, reply, waiting, failures, locked, soft, xdp,
               after, refused>>

\* The master has no license for this node, or a revoked one.
Refusing == ~FoundByNode \/ row.status = "revoked"

AuditTypeOK == after \in BOOLEAN /\ refused \in 0..LockAfter

AuditInit == Init /\ after = FALSE /\ refused = 0

CallEnds == waiting /\ ~waiting'

\* A node that starts again begins a new count.
AuditNext ==
  \/ /\ Step \/ Fault
     /\ after' = (Refusing /\ Refusing' /\ waiting' /\ (after \/ SendHeartbeat))
     /\ refused' = IF ~Refusing' THEN 0
                   ELSE IF after /\ CallEnds /\ refused < LockAfter THEN refused + 1
                   ELSE refused
  \/ NodeRestart /\ after' = FALSE /\ refused' = 0

AuditSpec == AuditInit /\ [][AuditNext]_auditVars

-----------------------------------------------------------------------------
\* A node whose license is revoked, deleted or given a new key serves for three
\* heartbeats at most: answers that were under way when it happened, lost calls
\* and database timeouts never stretch it, as no success resets the count.  (A license
\* that Mark, from what it read before, takes from "revoked" to "expired" is no longer
\* refused: the count begins anew.)
RefusedNodeLocks == refused = LockAfter => locked
=============================================================================
