-------------------------- MODULE EscalationAudit --------------------------
(***************************************************************************)
(* Escalation with history variables that remember, across the steps of    *)
(* several goroutines, when and why the level of the address last rose.    *)
(* They observe the engine and constrain no step of it.                    *)
(***************************************************************************)
EXTENDS Escalation

VARIABLES earned,      \* failures since the level last rose
          peak,        \* level reached when it last rose
          sincePeak,   \* age of that escalation
          overtaken,   \* goroutines whose copy is older than it
          undercut     \* such a goroutine has stored its level since

audit == <<earned, peak, sincePeak, overtaken, undercut>>
auditVars == <<vars, audit>>

AuditTypeOK ==
  /\ earned \in 0..FailureCap
  /\ peak \in Levels
  /\ sincePeak \in 0..EscalationAgeCap
  /\ overtaken \subseteq Threads
  /\ undercut \in BOOLEAN

AuditInit ==
  /\ Init
  /\ earned = 0
  /\ peak = 1
  /\ sincePeak = 0
  /\ overtaken = {}
  /\ undercut = FALSE

InGetLevel == {t \in Threads : call[t].at # "idle"}

\* The level starts to count anew: an escalation, or an entry that is dropped.
NewPeak(l) ==
  /\ peak' = l
  /\ sincePeak' = 0
  /\ overtaken' = InGetLevel
  /\ undercut' = FALSE

AuditFailure ==
  /\ RecordFailure
  /\ IF level' > level
       THEN NewPeak(level') /\ earned' = 0
       ELSE /\ earned' = Lower(earned + 1, FailureCap)
            /\ UNCHANGED <<peak, sincePeak, overtaken, undercut>>

AuditCleanup ==
  /\ Cleanup
  /\ NewPeak(1)
  /\ UNCHANGED earned

AuditCopy(t) == CopyState(t) /\ UNCHANGED audit

AuditDecide(t) ==
  /\ DecideLevel(t)
  /\ overtaken' = IF call'[t].at = "idle" THEN overtaken \ {t} ELSE overtaken
  /\ UNCHANGED <<earned, peak, sincePeak, undercut>>

AuditStore(t) ==
  /\ StoreLevel(t)
  /\ overtaken' = overtaken \ {t}
  /\ undercut' = (undercut \/ (exists /\ t \in overtaken))
  /\ UNCHANGED <<earned, peak, sincePeak>>

AuditTick ==
  /\ Tick
  /\ sincePeak' = Lower(sincePeak + 1, EscalationAgeCap)
  /\ UNCHANGED <<earned, peak, overtaken, undercut>>

AuditNext ==
  \/ \E t \in Threads : AuditCopy(t) \/ AuditDecide(t) \/ AuditStore(t)
  \/ AuditFailure
  \/ RecordSuccess /\ UNCHANGED audit
  \/ AuditCleanup
  \/ AuditTick

AuditSpec == AuditInit /\ [][AuditNext]_auditVars

-----------------------------------------------------------------------------
\* A failure raises the level only if at least Threshold failures were recorded
\* since the previous raise: neither the count that stays behind at the ban level
\* nor stores by concurrent GetLevel calls let one series of failures pay for
\* two escalations (RecordFailure).
EscalationEarned ==
  [][RecordFailure /\ level' > level => earned >= Threshold]_auditVars

PaidLevel == IF sincePeak \div Cooldown > peak THEN 0 ELSE peak - sincePeak \div Cooldown

\* As long as no GetLevel call that copied the entry before an escalation stores
\* its result after it, an address is never forgiven faster than one level per
\* cooldown since that escalation, whatever calls run concurrently: two readers
\* of the same expired cooldown take back one level, not two.
ForgivenNoFaster == ~undercut => level >= PaidLevel

\* engine.go:82 takes back one level for each cooldown that has passed.  A stale
\* store breaks it: it overwrites an escalation recorded after the copy.
OneLevelPerCooldown == level >= PaidLevel
=============================================================================
