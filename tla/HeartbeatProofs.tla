--------------------------- MODULE HeartbeatProofs ---------------------------
(***************************************************************************)
(* The master's side.  First the license table: every interleaving of its  *)
(* operations keeps the row sound, and the copies of it that are about to  *)
(* be written back: a copy is stale, but it is one that the row itself     *)
(* once was.                                                               *)
(*                                                                         *)
(* Then the heartbeat: a node that the master refuses is locked within     *)
(* three of them.  The argument follows the count of refused calls next to *)
(* the lockdown manager's own: a call that began after the refusal can     *)
(* only fail, and a call that began before it ends before the first one    *)
(* that is counted, so that no success comes in between.                   *)
(***************************************************************************)
EXTENDS HeartbeatAudit, TLAPS

-----------------------------------------------------------------------------
(* The license table *)

PaidEnds(l) == l.plan # "community" => l.expires # Perpetual

\* The edit form, which may give any plan any end, is not in use.
NoEdit == \A r \in Requests : req[r] # Nothing => req[r].op # "Update"

\* The strengthening: not only the row but every copy in a goroutine is sound.
\* Only the edit form can break it; the days are counted from 1.
CopiesSound ==
  /\ now >= 1
  /\ row # NoRow => PaidEnds(row)
  /\ \A r \in Requests : req[r] # Nothing => PaidEnds(req[r].seen)

\* What any operation makes of a row is a row.
LEMMA OutcomesAreRows ==
  ASSUME now \in Nat, NEW op \in ReadWriteOps, NEW l \in Rows, NEW m \in Outcomes(op, l)
  PROVE  m \in Rows
<1> USE LicenseAssumption DEF Rows, Statuses, ReadWriteOps
<1>1. CASE op = "Activate"
  BY <1>1 DEF Outcomes
<1>2. CASE op = "Suspend"
  BY <1>2 DEF Outcomes
<1>3. CASE op = "Upgrade"
  BY <1>3 DEF Outcomes, Upgraded
<1>4. CASE op = "Update"
  BY <1>4 DEF Outcomes, EditForm
<1>5. CASE op \in {"Downgrade", "CheckExpiry"}
  BY <1>5 DEF Outcomes, ToCommunity, Perpetual
<1> QED
  BY <1>1, <1>2, <1>3, <1>4, <1>5

\* And, from a sound copy, a sound one, unless it is the edit form's.
LEMMA OutcomesAreSound ==
  ASSUME now \in Nat, NEW op \in ReadWriteOps \ {"Update"},
         NEW l \in Rows, PaidEnds(l), NEW m \in Outcomes(op, l)
  PROVE  PaidEnds(m)
<1> USE LicenseAssumption DEF Rows, Statuses, ReadWriteOps, PaidEnds
<1>1. CASE op = "Activate"
  BY <1>1 DEF Outcomes
<1>2. CASE op = "Suspend"
  BY <1>2 DEF Outcomes
<1>3. CASE op = "Upgrade"
  BY <1>3 DEF Outcomes, Upgraded, Perpetual
<1>4. CASE op \in {"Downgrade", "CheckExpiry"}
  BY <1>4 DEF Outcomes, ToCommunity, Perpetual
<1> QED
  BY <1>1, <1>2, <1>3, <1>4

LEMMA TypeInit == LicenseInit => LicenseTypeOK
  BY LicenseAssumption
     DEF LicenseInit, LicenseTypeOK, Rows, Statuses, Registered, Created, Perpetual

LEMMA TypeStep == LicenseTypeOK /\ [LicenseNext]_licenseVars => LicenseTypeOK'
<1> SUFFICES ASSUME LicenseTypeOK, [LicenseNext]_licenseVars
             PROVE  LicenseTypeOK'
  OBVIOUS
<1> USE LicenseAssumption
<1>1. ASSUME NEW r \in Requests, NEW op \in Ops, Read(r, op)
      PROVE  LicenseTypeOK'
  BY <1>1 DEF LicenseTypeOK, Read, InProgress
<1>2. ASSUME NEW r \in Requests, Write(r)
      PROVE  LicenseTypeOK'
  <2>1. req[r] \in InProgress
    BY <1>2 DEF LicenseTypeOK, Write
  <2>2. row' \in Rows \cup {NoRow}
    BY <1>2, <2>1, OutcomesAreRows DEF LicenseTypeOK, Write, InProgress
  <2> QED
    BY <1>2, <2>2 DEF LicenseTypeOK, Write
<1>3. ASSUME NEW r \in Requests, WriteFails(r)
      PROVE  LicenseTypeOK'
  BY <1>3 DEF LicenseTypeOK, WriteFails
<1>4. CASE Statement
  <2>1. CASE Renew
    <3>1. row \in Rows /\ now + row.days \in Nat
      BY <2>1 DEF LicenseTypeOK, Renew, Rows
    <3>2. Renewed(row) \in Rows
      BY <3>1 DEF Renewed, Rows, Statuses
    <3> QED
      BY <2>1, <3>2 DEF LicenseTypeOK, Renew
  <2>2. CASE Revoke
    BY <2>2 DEF LicenseTypeOK, Revoke, Rows, Statuses
  <2>3. CASE Rotate \/ Delete
    BY <2>3 DEF LicenseTypeOK, Rotate, Delete
  <2> QED
    BY <1>4, <2>1, <2>2, <2>3 DEF Statement
<1>5. CASE DayPasses
  BY <1>5 DEF LicenseTypeOK, DayPasses
<1>6. CASE UNCHANGED licenseVars
  BY <1>6 DEF LicenseTypeOK, licenseVars
<1> QED
  BY <1>1, <1>2, <1>3, <1>4, <1>5, <1>6 DEF LicenseNext

LEMMA SoundInit == LicenseInit => CopiesSound
  BY DEF LicenseInit, CopiesSound, PaidEnds, Registered, Created, Perpetual

LEMMA SoundStep ==
  ASSUME "Update" \notin Ops, LicenseTypeOK, CopiesSound, [LicenseNext]_licenseVars, NoEdit
  PROVE  /\ CopiesSound'
         /\ NoEdit'
<1> USE LicenseAssumption
<1>1. ASSUME NEW r \in Requests, NEW op \in Ops, Read(r, op)
      PROVE  /\ CopiesSound'
             /\ NoEdit'
  BY <1>1 DEF LicenseTypeOK, CopiesSound, NoEdit, Read
<1>2. ASSUME NEW r \in Requests, Write(r)
      PROVE  /\ CopiesSound'
             /\ NoEdit'
  <2>1. /\ req[r].op \in ReadWriteOps \ {"Update"} /\ req[r].seen \in Rows
        /\ PaidEnds(req[r].seen)
    BY <1>2 DEF LicenseTypeOK, CopiesSound, NoEdit, Write, InProgress
  <2>2. row' # NoRow => PaidEnds(row')
    BY <1>2, <2>1, OutcomesAreSound DEF LicenseTypeOK, CopiesSound, Write
  <2> QED
    BY <1>2, <2>2 DEF LicenseTypeOK, CopiesSound, NoEdit, Write, PaidEnds
<1>3. ASSUME NEW r \in Requests, WriteFails(r)
      PROVE  /\ CopiesSound'
             /\ NoEdit'
  BY <1>3 DEF LicenseTypeOK, CopiesSound, NoEdit, WriteFails
<1>4. CASE Statement
  <2> USE DEF LicenseTypeOK, CopiesSound, NoEdit, PaidEnds
  <2>1. CASE Renew
    BY <2>1 DEF Renew, Renewed, Rows, Statuses, Perpetual
  <2>2. CASE Revoke
    BY <2>2 DEF Revoke, Rows, Statuses
  <2>3. CASE Rotate \/ Delete
    BY <2>3 DEF Rotate, Delete
  <2> QED
    BY <1>4, <2>1, <2>2, <2>3 DEF Statement
<1>5. CASE DayPasses
  BY <1>5 DEF LicenseTypeOK, CopiesSound, NoEdit, DayPasses
<1>6. CASE UNCHANGED licenseVars
  BY <1>6 DEF LicenseTypeOK, CopiesSound, NoEdit, licenseVars
<1> QED
  BY <1>1, <1>2, <1>3, <1>4, <1>5, <1>6 DEF LicenseNext

\* Without the edit form, the row and its copies stay sound.
LEMMA RowAndCopiesSound ==
  ASSUME "Update" \notin Ops
  PROVE  LicenseSpec => [](LicenseTypeOK /\ CopiesSound)
<1> DEFINE IInv == LicenseTypeOK /\ CopiesSound /\ NoEdit
<1>1. LicenseInit => IInv
  BY TypeInit, SoundInit DEF LicenseInit, NoEdit
<1>2. IInv /\ [LicenseNext]_licenseVars => IInv'
  BY TypeStep, SoundStep
<1>3. IInv => LicenseTypeOK /\ CopiesSound
  OBVIOUS
<1> HIDE DEF IInv
<1> QED
  BY <1>1, <1>2, <1>3, PTL DEF LicenseSpec

-----------------------------------------------------------------------------
\* The row and every copy of it are always rows of the table.
THEOREM TypeCorrect == LicenseSpec => []LicenseTypeOK
<1> QED
  BY TypeInit, TypeStep, PTL DEF LicenseSpec

\* Without the edit form, no interleaving of the operations of the license table, and no copy
\* of the row that UpdateLicense writes back late, leaves a paid plan without an end.
THEOREM RowStaysSound ==
  ASSUME "Update" \notin Ops
  PROVE  LicenseSpec => []PaidPlanEnds
<1>1. LicenseTypeOK /\ CopiesSound => PaidPlanEnds
  BY DEF CopiesSound, PaidEnds, PaidPlanEnds
<1> QED
  BY <1>1, RowAndCopiesSound, PTL

-----------------------------------------------------------------------------
(* The heartbeat *)

\* A call sent since the refusal is still to be looked up, or lost, or answered
\* with a failure.
LateCallFails ==
  after => /\ Refusing /\ waiting
           /\ hb.step \in {"lookup", "none"}
           /\ ~Accepted

\* Once one such call has ended, every call in progress is such a call.
NoEarlierCall == refused > 0 => Refusing /\ (waiting => after)

LockFollowsCount ==
  /\ refused <= failures
  /\ failures = LockAfter => locked

Audited == AuditTypeOK /\ LateCallFails /\ NoEarlierCall /\ LockFollowsCount

HbTypes == [step : {"none", "lookup", "mark", "answer"}, seen : Rows \cup {NoRow},
            expired : BOOLEAN, late : BOOLEAN]

-----------------------------------------------------------------------------
LEMMA HeartbeatTypeInit == Init => TypeOK
<1> SUFFICES ASSUME Init PROVE TypeOK
  OBVIOUS
<1>1. LicenseTypeOK
  BY TypeInit DEF Init
<1>2. hb \in HbTypes /\ hb.step = "none"
  BY DEF Init, NoHandler, HbTypes
<1>3. waiting \in BOOLEAN /\ locked \in BOOLEAN /\ xdp \in BOOLEAN
  BY Zenon DEF Init
<1> QED
  BY <1>1, <1>2, <1>3 DEF Init, TypeOK, HbTypes, Thresholds, FromEnvironment, LockAfter

LEMMA RespondKeepsTypes ==
  ASSUME TypeOK, NEW answer \in Replies, Respond(answer),
         UNCHANGED <<row, keyKnown, now, req>>, UNCHANGED nodeVars
  PROVE  TypeOK'
<1>1. hb' \in HbTypes /\ hb'.step = "none"
  BY DEF Respond, NoHandler, HbTypes
<1> QED
  BY <1>1 DEF TypeOK, LicenseTypeOK, Respond, HbTypes, nodeVars

LEMMA LookupTypes == TypeOK /\ Lookup => TypeOK'
<1> SUFFICES ASSUME TypeOK, Lookup PROVE TypeOK'
  OBVIOUS
<1> USE LicenseAssumption
<1> USE DEF Lookup
<1>1. CASE Respond(Answer(200, TRUE, "none", FALSE))
  <2>1. Answer(200, TRUE, "none", FALSE) \in Replies
    BY DEF Answer, Replies
  <2> QED
    BY <1>1, <2>1, RespondKeepsTypes
<1>2. CASE \E answer \in Refusal(row) : Respond(answer)
  <2>1. PICK answer \in Refusal(row) : Respond(answer)
    BY <1>2
  <2>2. answer \in Replies
    <3>1. PICK status : answer = Answer(200, status = "revoked", "none", FALSE)
      BY <2>1, Zenon DEF Refusal
    <3>2. (status = "revoked") \in BOOLEAN
      OBVIOUS
    <3> QED
      BY <3>1, <3>2 DEF Answer, Replies
  <2> QED
    BY <2>1, <2>2, RespondKeepsTypes
<1>3. CASE /\ FoundByNode
           /\ hb' = [hb EXCEPT !.step = "mark", !.seen = row, !.expired = Expired(row)]
           /\ UNCHANGED reply
  <2>1. row \in Rows /\ Expired(row) \in BOOLEAN
    BY <1>3 DEF FoundByNode, TypeOK, LicenseTypeOK, Expired
  <2>2. hb' \in HbTypes /\ hb'.seen \in Rows
    BY <1>3, <2>1 DEF TypeOK, HbTypes
  <2> QED
    BY <1>3, <2>2 DEF Lookup, TypeOK, LicenseTypeOK, HbTypes, nodeVars
<1> QED
  BY <1>1, <1>2, <1>3 DEF Lookup

LEMMA MarkTypes == TypeOK /\ Mark => TypeOK'
<1> SUFFICES ASSUME TypeOK, Mark PROVE TypeOK'
  OBVIOUS
<1>1. hb' \in HbTypes /\ hb'.step = "answer" /\ hb'.seen = hb.seen
  BY DEF TypeOK, Mark, HbTypes
<1>2. row' \in Rows \cup {NoRow}
  BY DEF TypeOK, LicenseTypeOK, Mark, Rows, Statuses
<1> QED
  BY <1>1, <1>2 DEF TypeOK, LicenseTypeOK, Mark, HbTypes, nodeVars

LEMMA PlanConfigTypes ==
  ASSUME NEW p \in Plans
  PROVE  PlanConfig(p).rpm \in {0, 60, 120}
  BY HeartbeatAssumption DEF PlanConfig

LEMMA HeartbeatTypeStep == TypeOK /\ [Next]_vars => TypeOK'
<1> SUFFICES ASSUME TypeOK, [Next]_vars PROVE TypeOK'
  OBVIOUS
<1> USE LicenseAssumption, HeartbeatAssumption
<1>1. CASE LicenseStep
  BY <1>1, TypeStep DEF LicenseStep, TypeOK, nodeVars
<1>2. CASE Lookup
  BY <1>2, LookupTypes
<1>3. CASE Mark
  BY <1>3, MarkTypes
<1>4. CASE AnswerHeartbeat
  <2>1. PICK late \in {hb.late, TRUE} :
          Respond(IF late /\ ~hb.late /\ IsContextTimeout(ErrorOfDB)
                    THEN Answer(503, FALSE, "none", TRUE)
                    ELSE Answer(200, FALSE, ServedPlan, late))
    BY <1>4 DEF AnswerHeartbeat
  <2>2. late \in BOOLEAN /\ ServedPlan \in Plans
    BY <1>4 DEF TypeOK, AnswerHeartbeat, ServedPlan, Rows
  <2> QED
    <3>1. Answer(503, FALSE, "none", TRUE) \in Replies
      BY DEF Answer, Replies
    <3>2. Answer(200, FALSE, ServedPlan, late) \in Replies
      BY <2>2 DEF Answer, Replies
    <3> QED
      BY <1>4, <2>1, <3>1, <3>2, RespondKeepsTypes, ZenonT(60) DEF AnswerHeartbeat
<1>5. CASE LookupTimesOut
  <2>1. /\ Answer(503, FALSE, "none", TRUE) \in Replies
        /\ Answer(500, FALSE, "none", TRUE) \in Replies
    BY DEF Answer, Replies
  <2> QED
    BY <1>5, <2>1, RespondKeepsTypes DEF LookupTimesOut
<1>6. CASE Cancelled
  <2>1. hb' \in HbTypes /\ hb'.step = "none"
    BY <1>6 DEF Cancelled, NoHandler, HbTypes
  <2> QED
    BY <1>6, <2>1 DEF Cancelled, TypeOK, LicenseTypeOK, HbTypes, nodeVars
<1>7. CASE SendHeartbeat
  <2>1. hb' \in HbTypes /\ hb'.step = "lookup"
    BY <1>7 DEF SendHeartbeat, NoHandler, HbTypes
  <2> QED
    BY <1>7, <2>1 DEF SendHeartbeat, TypeOK, LicenseTypeOK, HbTypes
<1>8. CASE ReceiveSuccess
  <2>1. soft' \in Thresholds
    <3>1. CASE reply.plan = "none"
      BY <1>8, <3>1 DEF ReceiveSuccess, TypeOK
    <3>2. CASE reply.plan \in Plans
      <4>1. PlanConfig(reply.plan).rpm \in {0, 60, 120} /\ reply.plan # "none"
        BY <3>2, PlanConfigTypes, ZenonT(60)
      <4>2. soft' = IF PlanConfig(reply.plan).rpm > 0 THEN PlanConfig(reply.plan).rpm ELSE soft
        BY <1>8, <4>1, Zenon DEF ReceiveSuccess, OnPlanConfig
      <4> QED
        BY <4>1, <4>2 DEF TypeOK, Thresholds
    <3> QED
      BY <1>8, <3>1, <3>2 DEF ReceiveSuccess, Accepted, TypeOK, Replies
  <2>2. xdp' \in BOOLEAN
    BY <1>8, Zenon DEF ReceiveSuccess, OnPlanConfig, TypeOK
  <2>3. waiting' \in BOOLEAN /\ locked' \in BOOLEAN
    BY <1>8, Zenon DEF ReceiveSuccess, RecordHeartbeatSuccess
  <2> QED
    BY <1>8, <2>1, <2>2, <2>3
       DEF ReceiveSuccess, RecordHeartbeatSuccess, TypeOK, LicenseTypeOK, LockAfter
<1>9. CASE CallFails
  <2>1. waiting' \in BOOLEAN /\ locked' \in BOOLEAN
    BY <1>9, Zenon DEF CallFails, RecordHeartbeatFailure
  <2>2. failures' \in 0..LockAfter
    BY <1>9 DEF CallFails, RecordHeartbeatFailure, TypeOK, LockAfter
  <2> QED
    BY <1>9, <2>1, <2>2 DEF CallFails, TypeOK, LicenseTypeOK
<1>10. CASE NodeRestart
  <2>1. waiting' \in BOOLEAN /\ locked' \in BOOLEAN /\ xdp' \in BOOLEAN
    BY <1>10, Zenon DEF NodeRestart
  <2> QED
    BY <1>10, <2>1
       DEF NodeRestart, TypeOK, LicenseTypeOK, Thresholds, FromEnvironment, LockAfter
<1>11. CASE UNCHANGED vars
  BY <1>11 DEF vars, TypeOK, LicenseTypeOK
<1>12. CASE FallbackFails
  <2>1. Answer(200, TRUE, "none", FALSE) \in Replies
    BY DEF Answer, Replies
  <2> QED
    BY <1>12, <2>1, RespondKeepsTypes DEF FallbackFails
<1> QED
  BY <1>1, <1>2, <1>3, <1>4, <1>5, <1>6, <1>7, <1>8, <1>9, <1>10, <1>11, <1>12
     DEF Next, Step, Handler, Receive, ReceiveFailure, Fault, GiveUp

\* The license row and every part of a heartbeat keep their types.
THEOREM HeartbeatTypeCorrect == Spec => []TypeOK
<1> QED
  BY HeartbeatTypeInit, HeartbeatTypeStep, PTL DEF Spec

-----------------------------------------------------------------------------
LEMMA AuditInitHolds == AuditInit => TypeOK /\ Audited
<1> SUFFICES ASSUME AuditInit PROVE TypeOK /\ Audited
  OBVIOUS
<1>1. after \in BOOLEAN
  BY Zenon DEF AuditInit
<1> QED
  BY <1>1, HeartbeatTypeInit
     DEF AuditInit, Init, Audited, AuditTypeOK, LateCallFails, NoEarlierCall,
         LockFollowsCount, LockAfter

\* What a step does to the node.
LEMMA NodeStep ==
  ASSUME Step \/ Fault
  PROVE  \/ ReceiveSuccess \/ CallFails \/ SendHeartbeat
         \/ UNCHANGED nodeVars
  BY DEF Step, nodeVars, LicenseStep, Handler, Lookup, Mark, AnswerHeartbeat, Cancelled,
         Receive, ReceiveFailure, Fault, GiveUp, LookupTimesOut, FallbackFails

\* Asked by a node it refuses, the master answers with a lock.
LEMMA RefusedLookup ==
  ASSUME TypeOK, Lookup, Refusing, waiting
  PROVE  hb'.step = "none" /\ ~Accepted'
<1>1. CASE ~FoundByNode
  BY <1>1 DEF Lookup, Respond, NoHandler, Answer, Accepted
<1>2. CASE FoundByNode
  <2>1. row.status = "revoked"
    BY <1>2 DEF Refusing
  <2>2. \A answer \in Refusal(row) : answer = Answer(200, TRUE, "none", FALSE)
    BY <2>1, Zenon DEF Refusal
  <2>3. Answer(200, "revoked" = "revoked", "none", FALSE) \in Refusal(row)
    BY <2>1 DEF Refusal
  <2>4. Respond(Answer(200, TRUE, "none", FALSE))
    BY <1>2, <2>2, <2>3 DEF Lookup
  <2> QED
    BY <2>4 DEF Respond, NoHandler, Answer, Accepted
<1> QED
  BY <1>1, <1>2

\* A call that began under a refusal is never accepted while the refusal lasts.
LEMMA LateCallStep ==
  ASSUME TypeOK, Audited, AuditNext
  PROVE  LateCallFails'
<1> SUFFICES ASSUME after'
             PROVE  Refusing' /\ waiting' /\ hb'.step \in {"lookup", "none"} /\ ~Accepted'
  BY DEF LateCallFails
<1>1. Refusing /\ Refusing' /\ waiting' /\ (after \/ SendHeartbeat)
  BY Zenon DEF AuditNext
<1>2. CASE SendHeartbeat
  BY <1>1, <1>2 DEF SendHeartbeat, NoHandler, TypeOK, Accepted
<1>3. CASE after
  <2>1. waiting /\ hb.step \in {"lookup", "none"} /\ ~Accepted
    BY <1>3 DEF Audited, LateCallFails
  <2>2. CASE Lookup
    BY <1>1, <2>1, <2>2, RefusedLookup
  <2>3. CASE LookupTimesOut
    BY <1>1, <2>1, <2>3 DEF LookupTimesOut, Respond, NoHandler, Answer, Accepted
  <2>4. CASE FallbackFails
    BY <1>1, <2>1, <2>4 DEF FallbackFails, Respond, NoHandler, Answer, Accepted
  <2>5. CASE LicenseStep
    BY <1>1, <2>1, <2>5 DEF LicenseStep, Accepted
  <2> QED
    BY <1>1, <2>1, <2>2, <2>3, <2>4, <2>5
       DEF AuditNext, Step, Handler, Mark, AnswerHeartbeat, Cancelled, SendHeartbeat,
           Receive, ReceiveSuccess, ReceiveFailure, CallFails, Fault, GiveUp, NodeRestart
<1> QED
  BY <1>1, <1>2, <1>3

\* The audit's count follows the node's: it only grows with a failed call.
LEMMA CountStep ==
  ASSUME TypeOK, Audited, AuditNext
  PROVE  AuditTypeOK' /\ NoEarlierCall' /\ LockFollowsCount'
<1>1. after' \in BOOLEAN
  BY Zenon DEF AuditNext
<1>2. \/ refused' = 0
      \/ (Step \/ Fault) /\ refused' = refused /\ Refusing'
      \/ /\ refused' = refused + 1 /\ refused < LockAfter
         /\ after /\ waiting /\ ~waiting' /\ Refusing'
  BY DEF AuditNext, CallEnds
<1>3. refused \in 0..LockAfter /\ failures \in 0..LockAfter
  BY DEF Audited, AuditTypeOK, TypeOK
<1>4. refused' \in 0..LockAfter
  BY <1>2, <1>3 DEF LockAfter
<1>5. refused' > 0 => Refusing'
  BY <1>2
<1>6. refused' > 0 /\ waiting' => after'
  <2> SUFFICES ASSUME refused' > 0, waiting' PROVE after'
    OBVIOUS
  <2>1. Step \/ Fault
    BY <1>2
  <2>2. refused' = refused /\ Refusing /\ (waiting => after)
    BY <1>2 DEF Audited, NoEarlierCall
  <2>3. waiting \/ SendHeartbeat
    <3>1. ReceiveSuccess \/ CallFails \/ SendHeartbeat \/ UNCHANGED nodeVars
      BY <2>1, NodeStep
    <3> QED
      BY <3>1 DEF ReceiveSuccess, CallFails, nodeVars
  <2>4. after' = (Refusing /\ Refusing' /\ waiting' /\ (after \/ SendHeartbeat))
    <3>1. \/ after' = (Refusing /\ Refusing' /\ waiting' /\ (after \/ SendHeartbeat))
          \/ refused' = 0
      BY Zenon DEF AuditNext
    <3> QED
      BY <3>1
  <2> QED
    BY <1>5, <2>2, <2>3, <2>4
<1>7. LockFollowsCount'
  <2>1. CASE ReceiveSuccess
    <3>1. waiting /\ ~after
      BY <2>1 DEF ReceiveSuccess, Accepted, TypeOK, Audited, LateCallFails
    <3>2. refused = 0
      BY <1>3, <3>1 DEF Audited, NoEarlierCall
    <3> QED
      BY <1>2, <2>1, <3>1, <3>2
         DEF ReceiveSuccess, RecordHeartbeatSuccess, LockFollowsCount, LockAfter
  <2>2. CASE CallFails
    <3>1. failures' = IF failures < LockAfter THEN failures + 1 ELSE LockAfter
      BY <2>2 DEF CallFails, RecordHeartbeatFailure
    <3>2. failures' = LockAfter => locked'
      <4> SUFFICES ASSUME failures' = LockAfter PROVE locked'
        OBVIOUS
      <4>1. locked' = (locked \/ failures' >= LockAfter)
        BY <2>2, Zenon DEF CallFails, RecordHeartbeatFailure
      <4>2. failures' >= LockAfter
        BY DEF LockAfter
      <4> QED
        BY <4>1, <4>2, Zenon
    <3>3. refused' <= failures'
      <4>1. refused <= failures
        BY DEF Audited, LockFollowsCount
      <4>2. refused' \in {0, refused, refused + 1} /\ refused' <= LockAfter
        BY <1>2, <1>3 DEF LockAfter
      <4> QED
        BY <1>3, <3>1, <4>1, <4>2 DEF LockAfter
    <3> QED
      BY <3>2, <3>3 DEF LockFollowsCount
  <2>3. CASE NodeRestart /\ refused' = 0
    <3>1. refused' = 0
      BY <2>3
    <3>2. failures' = 0
      BY <2>3 DEF NodeRestart
    <3> QED
      BY <3>1, <3>2 DEF LockFollowsCount, LockAfter
  <2>4. CASE SendHeartbeat
    <3>1. failures' = failures /\ locked' = locked /\ waiting'
      BY <2>4 DEF SendHeartbeat
    <3>2. refused' = 0 \/ refused' = refused
      BY <1>2, <3>1
    <3> QED
      BY <1>3, <3>1, <3>2 DEF Audited, LockFollowsCount
  <2>5. CASE UNCHANGED nodeVars
    BY <1>2, <1>3, <2>5 DEF nodeVars, Audited, LockFollowsCount
  <2> QED
    BY NodeStep, <2>1, <2>2, <2>3, <2>4, <2>5 DEF AuditNext
<1> QED
  BY <1>1, <1>4, <1>5, <1>6, <1>7 DEF AuditTypeOK, NoEarlierCall

LEMMA AuditStep == TypeOK /\ Audited /\ [AuditNext]_auditVars => (TypeOK /\ Audited)'
<1> SUFFICES ASSUME TypeOK, Audited, [AuditNext]_auditVars
             PROVE  TypeOK' /\ Audited'
  OBVIOUS
<1>1. CASE AuditNext
  BY <1>1, HeartbeatTypeStep, LateCallStep, CountStep DEF AuditNext, Next, Audited
<1>2. CASE UNCHANGED auditVars
  <2>1. TypeOK'
    BY <1>2, HeartbeatTypeStep DEF auditVars, vars
  <2>2. Audited'
    BY <1>2 DEF auditVars, Audited, AuditTypeOK, LateCallFails, NoEarlierCall, LockFollowsCount,
                Refusing, FoundByNode, Accepted
  <2> QED
    BY <2>1, <2>2
<1> QED
  BY <1>1, <1>2

\* A node whose license is revoked, deleted or given a new key is locked by the
\* time three heartbeats have begun and ended since.
THEOREM RefusedNodeIsLocked == AuditSpec => []RefusedNodeLocks
<1>1. TypeOK /\ Audited => RefusedNodeLocks
  BY DEF Audited, AuditTypeOK, TypeOK, LockFollowsCount, RefusedNodeLocks, LockAfter
<1> QED
  BY <1>1, AuditInitHolds, AuditStep, PTL DEF AuditSpec
=============================================================================
