------------------------------ MODULE Heartbeat ------------------------------
(***************************************************************************)
(* The heartbeat between a client node and the master: the node's loop     *)
(* (internal/client/loops.go) with its lockdown manager (errors.go) and    *)
(* plan callback (client_waf.go), and the master's handler                 *)
(* (internal/master/handlers/api.go), which reads the license row, may     *)
(* mark it expired and answers from what it read, while the operations of  *)
(* License change the row.                                                 *)
(*                                                                         *)
(* The node sends an empty fingerprint (client_waf.go:164), so that the    *)
(* handler's integrity check never applies.  The node's loop is one        *)
(* goroutine and its interval is far above the handler's 5 s of database   *)
(* time: the next request finds no handler of an earlier one.              *)
(***************************************************************************)
EXTENDS License, FiniteSets

CONSTANTS ConfiguredWithID,  \* the node's key is the license_id, not the key
          NoReply

ASSUME HeartbeatAssumption ==
  /\ ConfiguredWithID \in BOOLEAN
  /\ Plans \subseteq {"community", "pro", "enterprise"}

VARIABLES hb,        \* the handler: its step, the row it read, and what it found
          reply,     \* the answer on its way to the node
          waiting,   \* the node's loop is in client.Do
          failures,  \* failureCount of the lockdown manager, and its
          locked,    \* flag: the node serves admins only
          soft,      \* requests per minute and IP that the node lets pass
          xdp        \* the XDP components have been started

nodeVars == <<waiting, failures, locked, soft, xdp>>
vars == <<row, keyKnown, now, req, hb, reply, waiting, failures, locked, soft, xdp>>

(* models.PlanConfigs: requests per minute and IP, 0 = unlimited, and XDP.   *)
PlanConfig(p) ==
  CASE p = "community"  -> [rpm |-> 60, xdp |-> FALSE]
    [] p = "pro"        -> [rpm |-> 120, xdp |-> TRUE]
    [] p = "enterprise" -> [rpm |-> 0, xdp |-> TRUE]

FromEnvironment == 1    \* the soft threshold before any plan was received
Thresholds == {FromEnvironment, 60, 120}
LockAfter == 3

NoHandler == [step |-> "none", seen |-> NoRow, expired |-> FALSE, late |-> FALSE]

Replies == [code : {200, 500, 503}, lock : BOOLEAN, plan : Plans \cup {"none"},
            late : BOOLEAN]

TypeOK ==
  /\ LicenseTypeOK
  /\ hb \in [step : {"none", "lookup", "mark", "answer"}, seen : Rows \cup {NoRow},
             expired : BOOLEAN, late : BOOLEAN]
  /\ reply \in Replies \cup {NoReply}
  /\ waiting \in BOOLEAN /\ failures \in 0..LockAfter /\ locked \in BOOLEAN
  /\ soft \in Thresholds /\ xdp \in BOOLEAN
  /\ reply # NoReply => waiting
  /\ hb.step \in {"mark", "answer"} => hb.seen \in Rows

Init ==
  /\ LicenseInit
  /\ hb = NoHandler
  /\ reply = NoReply
  /\ waiting = FALSE /\ failures = 0 /\ locked = FALSE
  /\ soft = FromEnvironment /\ xdp = FALSE

-----------------------------------------------------------------------------
(* The handler.  IsContextTimeout compares with ==, and the functions of the *)
(* db package wrap the error that they return.                               *)
ErrorOfDB == "wrapped deadline"
IsContextTimeout(err) == err \in {"deadline", "canceled"}

Answer(code, lock, plan, late) ==
  [code |-> code, lock |-> lock, plan |-> plan, late |-> late]

RespondToAnyone(answer) == hb' = NoHandler /\ reply' = answer   \* mutant

\* The answer reaches a node that still waits for it.
Respond(answer) ==
  /\ hb' = NoHandler
  /\ reply' = IF waiting THEN answer ELSE NoReply

FoundByNode == row # NoRow /\ (keyKnown \/ ConfiguredWithID)

Refusal(l) ==
  {Answer(200, status = "revoked", "none", FALSE) :
      status \in {l.status} \cap {"revoked", "suspended"}}

Lookup ==
  /\ hb.step = "lookup"
  /\ \/ ~FoundByNode /\ Respond(Answer(200, TRUE, "none", FALSE))
     \/ FoundByNode /\ \E answer \in Refusal(row) : Respond(answer)
     \/ /\ FoundByNode /\ Refusal(row) = {}
        /\ hb' = [hb EXCEPT !.step = "mark", !.seen = row, !.expired = Expired(row)]
        /\ UNCHANGED reply
  /\ UNCHANGED <<row, keyKnown, now, req>> /\ UNCHANGED nodeVars

LookupTimesOut ==
  /\ hb.step = "lookup"
  /\ Respond(Answer(IF IsContextTimeout(ErrorOfDB) THEN 503 ELSE 500, FALSE, "none", TRUE))
  /\ UNCHANGED <<row, keyKnown, now, req>> /\ UNCHANGED nodeVars

\* No row has this key, and the search by license_id fails: its error is dropped,
\* and the node is told that its license does not exist.
FallbackFails ==
  /\ hb.step = "lookup"
  /\ row = NoRow \/ ~keyKnown \/ ConfiguredWithID
  /\ Respond(Answer(200, TRUE, "none", FALSE))
  /\ UNCHANGED <<row, keyKnown, now, req>> /\ UNCHANGED nodeVars

\* UpdateLicenseStatusCtx writes the status alone, whatever the row has become.
Mark ==
  /\ hb.step = "mark"
  /\ IF hb.expired /\ hb.seen.status = "active"
       THEN \/ /\ row' = IF row = NoRow THEN NoRow ELSE [row EXCEPT !.status = "expired"]
               /\ hb' = [hb EXCEPT !.step = "answer"]
            \/ hb' = [hb EXCEPT !.step = "answer", !.late = TRUE] /\ UNCHANGED row
       ELSE hb' = [hb EXCEPT !.step = "answer"] /\ UNCHANGED row
  /\ UNCHANGED <<keyKnown, now, req, reply>> /\ UNCHANGED nodeVars

ServedPlanAsSold == hb.seen.plan   \* mutant: expiry does not matter

ServedPlan == IF hb.expired THEN "community" ELSE hb.seen.plan

\* The heartbeat is logged and the license touched, and the row that was read is
\* answered; a write that fails is a line in the log, unless it is recognised as
\* a timeout.
AnswerHeartbeat ==
  /\ hb.step = "answer"
  /\ \E late \in {hb.late, TRUE} :
       Respond(IF late /\ ~hb.late /\ IsContextTimeout(ErrorOfDB)
                 THEN Answer(503, FALSE, "none", TRUE)
                 ELSE Answer(200, FALSE, ServedPlan, late))
  /\ UNCHANGED <<row, keyKnown, now, req>> /\ UNCHANGED nodeVars

\* The request never arrived, or the server saw the node hang up.
Cancelled ==
  /\ hb.step # "none"
  /\ ~waiting
  /\ hb' = NoHandler
  /\ UNCHANGED <<row, keyKnown, now, req, reply>> /\ UNCHANGED nodeVars

-----------------------------------------------------------------------------
(* The node.                                                                 *)
SendHeartbeat ==
  /\ ~waiting /\ hb.step = "none"
  /\ waiting' = TRUE
  /\ hb' = [NoHandler EXCEPT !.step = "lookup"]
  /\ UNCHANGED <<row, keyKnown, now, req, reply, failures, locked, soft, xdp>>

RecordHeartbeatFailureLate ==     \* mutant: > for >=
  LET count == IF failures < LockAfter THEN failures + 1 ELSE LockAfter
  IN  failures' = count /\ locked' = (locked \/ count > LockAfter)

\* Failures above LockAfter make no difference.
RecordHeartbeatFailure ==
  LET count == IF failures < LockAfter THEN failures + 1 ELSE LockAfter
  IN  failures' = count /\ locked' = (locked \/ count >= LockAfter)

RecordHeartbeatSuccessOnly == failures' = 0 /\ UNCHANGED locked   \* mutant: no unlock

RecordHeartbeatSuccess == failures' = 0 /\ locked' = FALSE

\* UpdateThresholds ignores zeros; XDP is started once and never stopped.
OnPlanConfig(c) ==
  /\ soft' = IF c.rpm > 0 THEN c.rpm ELSE soft
  /\ xdp' = (xdp \/ c.xdp)

Accepted == reply # NoReply /\ reply.code = 200 /\ ~reply.lock

ReceiveSuccess ==
  /\ Accepted
  /\ IF reply.plan = "none" THEN UNCHANGED <<soft, xdp>>
                            ELSE OnPlanConfig(PlanConfig(reply.plan))
  /\ RecordHeartbeatSuccess
  /\ waiting' = FALSE
  /\ reply' = NoReply
  /\ UNCHANGED <<row, keyKnown, now, req, hb>>

CallFails ==
  /\ RecordHeartbeatFailure
  /\ waiting' = FALSE
  /\ reply' = NoReply
  /\ UNCHANGED <<row, keyKnown, now, req, hb, soft, xdp>>

ReceiveFailure == reply # NoReply /\ ~Accepted /\ CallFails

\* No answer within 10 s, or a broken connection; the handler may still run.
GiveUp == waiting /\ CallFails

NodeRestart ==
  /\ waiting' = FALSE /\ failures' = 0 /\ locked' = FALSE
  /\ soft' = FromEnvironment /\ xdp' = FALSE
  /\ reply' = NoReply
  /\ UNCHANGED <<row, keyKnown, now, req, hb>>

Receive == ReceiveSuccess \/ ReceiveFailure
Fault == LookupTimesOut \/ FallbackFails \/ GiveUp

Handler == Lookup \/ Mark \/ AnswerHeartbeat
LicenseStep == LicenseNext /\ UNCHANGED <<hb, reply>> /\ UNCHANGED nodeVars

\* What happens when nothing fails.
Step == LicenseStep \/ Handler \/ Cancelled \/ SendHeartbeat \/ Receive

Next == Step \/ Fault \/ NodeRestart

Spec == Init /\ [][Next]_vars
===============================================================================
