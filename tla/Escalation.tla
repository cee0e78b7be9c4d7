----------------------------- MODULE Escalation -----------------------------
(***************************************************************************)
(* The per-address escalation state of the client node                     *)
(* (internal/client/escalation/engine.go).  The engine is a map from       *)
(* addresses to IPState under one RWMutex; entries never influence each    *)
(* other, so the module follows the entry of one address that is not on    *)
(* the admin allowlist.                                                    *)
(*                                                                         *)
(* RecordFailure, RecordSuccess and Cleanup run under the write lock and   *)
(* are atomic.  GetLevel is not: it copies the entry under the read lock,  *)
(* releases it, computes a new level from the copy and takes the write     *)
(* lock to store it.  Each goroutine inside GetLevel has a record in call. *)
(*                                                                         *)
(* A time is represented by its age, now - time, saturating where the code *)
(* no longer tells larger values apart.                                    *)
(***************************************************************************)
EXTENDS Integers

CONSTANTS Threads,    \* goroutines that may be inside GetLevel
          Threshold,  \* EscalationConfig.FailureThreshold
          Window,     \* EscalationConfig.FailureWindow, in ticks
          Cooldown    \* EscalationConfig.CooldownDuration, in ticks

ASSUME EscalationAssumption ==
  /\ Threshold \in Nat \ {0}
  /\ Window \in Nat \ {0}
  /\ Cooldown \in Nat \ {0}

MaxLevel == 4                    \* ban
Never == -1                      \* the zero time.Time
FailureCap == Threshold + 1      \* the count is only compared with Threshold
FailureAgeCap == Window + Cooldown
EscalationAgeCap == MaxLevel * Cooldown
ActivityAgeCap == 2 * Cooldown + 1

VARIABLES exists,          \* the address has an entry in states
          level,
          failureCount,
          lastFailure,     \* ages of the three times of IPState
          lastEscalation,
          lastActivityAt,
          call             \* per goroutine: the step it is at in GetLevel

entry == <<exists, level, failureCount, lastFailure, lastEscalation, lastActivityAt>>
vars == <<entry, call>>

Levels == 0..MaxLevel
Age(cap) == {Never} \cup 0..cap
Idle == [at |-> "idle", level |-> 0, age |-> 0]
Calls == [at : {"idle", "copied", "store"}, level : Levels, age : Age(EscalationAgeCap)]

TypeOK ==
  /\ exists \in BOOLEAN
  /\ level \in Levels
  /\ failureCount \in 0..FailureCap
  /\ lastFailure \in Age(FailureAgeCap)
  /\ lastEscalation \in Age(EscalationAgeCap)
  /\ lastActivityAt \in 0..ActivityAgeCap
  /\ call \in [Threads -> Calls]

\* Without an entry the fields hold what RecordFailure would create.
Init ==
  /\ exists = FALSE
  /\ level = 1
  /\ failureCount = 0
  /\ lastFailure = Never
  /\ lastEscalation = Never
  /\ lastActivityAt = 0
  /\ call = [t \in Threads |-> Idle]

-----------------------------------------------------------------------------
Lower(n, cap) == IF n < cap THEN n ELSE cap

CooledOneTooMany(l, age) ==                        \* mutant: off by one
  LET deEscalations == age \div Cooldown + 1
  IN  IF deEscalations > l THEN 0 ELSE l - deEscalations

\* The level after the cooldown periods that fit in an age.
Cooled(l, age) ==
  LET deEscalations == age \div Cooldown
  IN  IF deEscalations > l THEN 0 ELSE l - deEscalations

\* GetLevel, read lock: copy Level and LastEscalation.  Without an entry the
\* call returns 1 and changes nothing.
CopyState(t) ==
  /\ call[t].at = "idle"
  /\ exists
  /\ call' = [call EXCEPT ![t] = [at |-> "copied", level |-> level, age |-> lastEscalation]]
  /\ UNCHANGED entry

\* GetLevel, no lock held: read the clock, decide from the copy.
DecideLevel(t) ==
  /\ call[t].at = "copied"
  /\ LET copy == call[t]
         due  == copy.level > 0 /\ copy.age # Never /\ copy.age \div Cooldown > 0
     IN  call' = [call EXCEPT ![t] =
           IF due THEN [at |-> "store", level |-> Cooled(copy.level, copy.age), age |-> 0]
                  ELSE Idle]
  /\ UNCHANGED entry

\* GetLevel, write lock: store the level computed from the copy, with the time
\* at which it was computed, if there is still an entry.
StoreLevel(t) ==
  /\ call[t].at = "store"
  /\ call' = [call EXCEPT ![t] = Idle]
  /\ IF exists
       THEN /\ level' = call[t].level
            /\ lastEscalation' = call[t].age
            /\ lastActivityAt' = Lower(call[t].age, ActivityAgeCap)
            /\ UNCHANGED <<exists, failureCount, lastFailure>>
       ELSE UNCHANGED entry

\* RecordFailure; the failure that passes the threshold raises the level and
\* starts a new count.
CountAfterFailure ==
  LET expired == lastFailure # Never /\ lastFailure > Window
  IN  Lower((IF expired THEN 0 ELSE failureCount) + 1, FailureCap)

EscalateKeepingCount ==   \* mutant: the old count pays for the next level too
  /\ level' = level + 1
  /\ lastEscalation' = 0
  /\ failureCount' = CountAfterFailure

Escalate ==
  /\ level' = level + 1
  /\ lastEscalation' = 0
  /\ failureCount' = 0

RecordFailure ==
  /\ exists' = TRUE
  /\ lastFailure' = 0
  /\ lastActivityAt' = 0
  /\ IF CountAfterFailure > Threshold /\ level < MaxLevel
       THEN Escalate
       ELSE /\ failureCount' = CountAfterFailure
            /\ UNCHANGED <<level, lastEscalation>>
  /\ UNCHANGED call

RecordSuccess ==
  /\ exists
  /\ failureCount' = 0
  /\ lastActivityAt' = 0
  /\ UNCHANGED <<exists, level, lastFailure, lastEscalation, call>>

InactiveAndCold == level <= 1 /\ lastActivityAt > 2 * Cooldown   \* mutant: spares offenders

Inactive == lastActivityAt > 2 * Cooldown

\* Cleanup, every five minutes: drop an entry without activity for two cooldowns.
Cleanup ==
  /\ exists
  /\ Inactive
  /\ exists' = FALSE
  /\ level' = 1
  /\ failureCount' = 0
  /\ lastFailure' = Never
  /\ lastEscalation' = Never
  /\ lastActivityAt' = 0
  /\ UNCHANGED call

Older(age, cap) == IF age = Never THEN Never ELSE Lower(age + 1, cap)

\* Time passes for the entry and for the times held by calls in progress.
Tick ==
  /\ lastFailure' = Older(lastFailure, FailureAgeCap)
  /\ lastEscalation' = Older(lastEscalation, EscalationAgeCap)
  /\ lastActivityAt' = IF exists THEN Lower(lastActivityAt + 1, ActivityAgeCap) ELSE 0
  /\ call' = [t \in Threads |->
       IF call[t].at = "idle" THEN Idle
       ELSE [call[t] EXCEPT !.age = Older(call[t].age, EscalationAgeCap)]]
  /\ UNCHANGED <<exists, level, failureCount>>

GetLevelStep(t) == CopyState(t) \/ DecideLevel(t) \/ StoreLevel(t)

Next ==
  \/ \E t \in Threads : GetLevelStep(t)
  \/ RecordFailure
  \/ RecordSuccess
  \/ Cleanup
  \/ Tick

Spec == Init /\ [][Next]_vars

\* A call that copied the entry runs to its end; time passes; the cleanup
\* goroutine of client_waf.go keeps its ticker.  Nothing makes a client send
\* another request.
Fairness ==
  /\ \A t \in Threads : WF_vars(DecideLevel(t) \/ StoreLevel(t))
  /\ WF_vars(Cleanup)
  /\ WF_vars(Tick)

FairSpec == Spec /\ Fairness

-----------------------------------------------------------------------------
\* Once an address neither fails nor passes challenges any more, it is brought
\* back to the standing of a new visitor or better for good, by GetLevel's
\* cooldown or by Cleanup, whether or not it sends further requests.
Forgiveness ==
  <>[][~RecordFailure /\ ~RecordSuccess]_vars => <>[](level <= 1)
=============================================================================
