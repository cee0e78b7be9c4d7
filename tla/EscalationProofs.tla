--------------------------- MODULE EscalationProofs ---------------------------
(***************************************************************************)
(* The escalation engine of one address with the history of                *)
(* EscalationAudit, for any goroutines, threshold, window and cooldown.    *)
(***************************************************************************)
EXTENDS EscalationAudit, TLAPS

\* The engine never counts more failures than there were since the level last rose.
CountInv == failureCount <= earned

\* A call that is about to store has read the clock.
StoreInv == \A t \in Threads : call[t].at = "store" => call[t].age # Never

\* From level l, last changed a ago, cooling never undercuts what the last escalation
\* still costs: either that one is so old that it costs nothing, or the cooldowns between
\* it and the change account for the levels that were taken back.
Paid(l, a) == sincePeak = EscalationAgeCap \/ (peak - l) * Cooldown <= sincePeak - a

\* It holds of the entry and of every copy of it that is not older than the escalation.
PaidInv ==
  ~undercut =>
    /\ IF lastEscalation = Never THEN level >= peak ELSE Paid(level, lastEscalation)
    /\ \A t \in Threads \ overtaken :
         call[t].at # "idle" /\ call[t].age # Never => Paid(call[t].level, call[t].age)

IInv == TypeOK /\ AuditTypeOK /\ CountInv /\ StoreInv /\ PaidInv

-----------------------------------------------------------------------------
(* Whole cooldowns *)

LEMMA DivFacts ==
  ASSUME NEW a \in Nat, NEW C \in Nat \ {0}
  PROVE  /\ a \div C \in Nat
         /\ C * (a \div C) <= a
         /\ a < C * (a \div C) + C
OBVIOUS

LEMMA DivAtLeast ==
  ASSUME NEW a \in Nat, NEW C \in Nat \ {0}, NEW n \in Int, n * C <= a
  PROVE  n <= a \div C
<1> DEFINE q == a \div C
<1>1. q \in Nat /\ a < C * q + C
  BY DivFacts
<1> HIDE DEF q
<1>2. n * C < (q + 1) * C
  BY <1>1
<1>3. n < q + 1
  BY <1>1, <1>2
<1>4. QED BY <1>1, <1>3 DEF q

LEMMA Constants ==
  /\ Threshold \in Nat \ {0} /\ Window \in Nat \ {0} /\ Cooldown \in Nat \ {0}
  /\ FailureCap \in Nat /\ FailureCap = Threshold + 1
  /\ FailureAgeCap \in Nat /\ EscalationAgeCap \in Nat /\ ActivityAgeCap \in Nat
  /\ EscalationAgeCap = 4 * Cooldown /\ MaxLevel = 4 /\ Levels = 0..4 /\ Never = -1
BY EscalationAssumption DEF FailureCap, FailureAgeCap, EscalationAgeCap, ActivityAgeCap, MaxLevel,
   Levels, Never

LEMMA CooledLevel ==
  ASSUME NEW l \in Levels, NEW a \in Nat
  PROVE  /\ Cooled(l, a) \in Levels
         /\ \/ Cooled(l, a) = 0 /\ l < a \div Cooldown
            \/ Cooled(l, a) = l - a \div Cooldown
<1>1. a \div Cooldown \in Nat
  BY DivFacts, Constants
<1>2. QED BY <1>1, Constants DEF Cooled

LEMMA AgesGrow ==
  ASSUME NEW cap \in Nat, NEW a \in Age(cap)
  PROVE  /\ Older(a, cap) \in Age(cap)
         /\ Older(a, cap) = Never <=> a = Never
         /\ a # Never => Older(a, cap) <= a + 1
BY DEF Age, Older, Lower, Never

-----------------------------------------------------------------------------
LEMMA TypeKept ==
  ASSUME TypeOK, AuditTypeOK, StoreInv, [AuditNext]_auditVars
  PROVE  TypeOK' /\ AuditTypeOK' /\ StoreInv'
<1> USE Constants
<1>0. /\ \A a \in Age(FailureAgeCap) : Older(a, FailureAgeCap) \in Age(FailureAgeCap)
      /\ \A a \in Age(EscalationAgeCap) :
           /\ Older(a, EscalationAgeCap) \in Age(EscalationAgeCap)
           /\ a # Never => Older(a, EscalationAgeCap) # Never
      /\ 0 \in Age(FailureAgeCap) /\ 0 \in Age(EscalationAgeCap)
      /\ Never \in Age(FailureAgeCap) /\ Never \in Age(EscalationAgeCap)
      /\ \A n \in Nat, cap \in Nat : Lower(n, cap) \in 0..cap
      /\ \A a \in Age(EscalationAgeCap) : a # Never => a \in Nat
  BY AgesGrow DEF Age, Lower
<1>1. ASSUME NEW t \in Threads, AuditCopy(t) PROVE TypeOK' /\ AuditTypeOK' /\ StoreInv'
  BY <1>1 DEF AuditCopy, CopyState, TypeOK, AuditTypeOK, StoreInv, Calls, entry, audit
<1>2. ASSUME NEW t \in Threads, AuditDecide(t) PROVE TypeOK' /\ AuditTypeOK' /\ StoreInv'
  <2> DEFINE copy == call[t]
  <2>1. PICK due \in BOOLEAN :
          /\ due => copy.level > 0 /\ copy.age # Never
          /\ call' = [call EXCEPT ![t] =
               IF due THEN [at |-> "store", level |-> Cooled(copy.level, copy.age), age |-> 0]
                      ELSE Idle]
    BY <1>2 DEF AuditDecide, DecideLevel
  <2>2. copy \in Calls /\ copy.level \in Levels /\ copy.age \in Age(EscalationAgeCap)
    BY DEF TypeOK, Calls
  <2>3. due => Cooled(copy.level, copy.age) \in Levels
    BY <1>0, <2>1, <2>2, CooledLevel
  <2>4. ASSUME due
        PROVE  [at |-> "store", level |-> Cooled(copy.level, copy.age), age |-> 0] \in Calls
    BY <1>0, <2>3, <2>4 DEF Calls
  <2>5. Idle \in Calls
    BY <1>0 DEF Idle, Calls
  <2>6. call' \in [Threads -> Calls]
    BY <2>1, <2>4, <2>5 DEF TypeOK
  <2>7. StoreInv'
    BY <2>1, <2>6 DEF StoreInv, TypeOK, Idle
  <2>8. TypeOK' /\ AuditTypeOK'
    BY <1>2, <2>6 DEF AuditDecide, DecideLevel, TypeOK, AuditTypeOK, entry
  <2>9. QED BY <2>7, <2>8
<1>3. ASSUME NEW t \in Threads, AuditStore(t) PROVE TypeOK' /\ AuditTypeOK' /\ StoreInv'
  <2>1. call' \in [Threads -> Calls] /\ StoreInv'
    <3>1. Idle \in Calls /\ Idle.at = "idle"
      BY <1>0 DEF Idle, Calls
    <3>2. call' = [call EXCEPT ![t] = Idle] /\ call \in [Threads -> Calls]
      BY <1>3 DEF AuditStore, StoreLevel, TypeOK
    <3>3. QED BY <3>1, <3>2 DEF StoreInv
  <2>2. /\ call[t].level \in Levels /\ call[t].age \in Age(EscalationAgeCap)
        /\ call[t].age # Never
    BY <1>3 DEF AuditStore, StoreLevel, TypeOK, StoreInv, Calls
  <2>3. Lower(call[t].age, ActivityAgeCap) \in 0..ActivityAgeCap
    BY <1>0, <2>2
  <2>4. TypeOK'
    BY <1>3, <2>1, <2>2, <2>3 DEF AuditStore, StoreLevel, TypeOK, entry
  <2>5. AuditTypeOK'
    BY <1>3 DEF AuditStore, AuditTypeOK
  <2>6. QED BY <2>1, <2>4, <2>5
<1>4. ASSUME AuditFailure PROVE TypeOK' /\ AuditTypeOK' /\ StoreInv'
  <2>1. CountAfterFailure \in 0..FailureCap /\ Lower(earned + 1, FailureCap) \in 0..FailureCap
    <3>1. failureCount \in Nat /\ earned \in Nat
      BY DEF TypeOK, AuditTypeOK
    <3>2. \A n \in Nat : Lower(n + 1, FailureCap) \in 0..FailureCap
      BY DEF Lower
    <3>3. QED BY <3>1, <3>2 DEF CountAfterFailure
  <2>2. /\ level' \in Levels /\ failureCount' \in 0..FailureCap
        /\ lastEscalation' \in Age(EscalationAgeCap)
    <3>1. /\ level \in 0..4 /\ lastEscalation \in Age(EscalationAgeCap)
          /\ 0 \in 0..FailureCap
      BY DEF TypeOK
    <3>2. CASE CountAfterFailure > Threshold /\ level < MaxLevel
      <4>1. level' = level + 1 /\ failureCount' = 0 /\ lastEscalation' = 0
        BY <1>4, <3>2 DEF AuditFailure, RecordFailure, Escalate
      <4>2. level + 1 \in 0..4
        BY <3>1, <3>2
      <4>3. QED BY <1>0, <3>1, <4>1, <4>2
    <3>3. CASE ~(CountAfterFailure > Threshold /\ level < MaxLevel)
      <4>1. level' = level /\ failureCount' = CountAfterFailure /\ lastEscalation' = lastEscalation
        BY <1>4, <3>3 DEF AuditFailure, RecordFailure
      <4>2. QED BY <2>1, <3>1, <4>1
    <3>4. QED BY <3>2, <3>3
  <2>3. TypeOK' /\ StoreInv'
    BY <1>0, <1>4, <2>2 DEF AuditFailure, RecordFailure, TypeOK, StoreInv
  <2>4. InGetLevel \subseteq Threads
    BY DEF InGetLevel
  <2>5. AuditTypeOK'
    <3>1. 0 \in 0..FailureCap /\ 0 \in 0..EscalationAgeCap
      OBVIOUS
    <3>2. CASE level' > level
      BY <1>4, <2>2, <2>4, <3>1, <3>2 DEF AuditFailure, NewPeak, AuditTypeOK
    <3>3. CASE ~(level' > level)
      BY <1>4, <2>1, <3>3 DEF AuditFailure, AuditTypeOK
    <3>4. QED BY <3>2, <3>3
  <2>6. QED BY <2>3, <2>5
<1>5. ASSUME RecordSuccess /\ UNCHANGED audit PROVE TypeOK' /\ AuditTypeOK' /\ StoreInv'
  BY <1>5 DEF RecordSuccess, TypeOK, AuditTypeOK, StoreInv, audit
<1>6. ASSUME AuditCleanup PROVE TypeOK' /\ AuditTypeOK' /\ StoreInv'
  <2>1. /\ 0 \in 0..FailureCap /\ 0 \in 0..ActivityAgeCap /\ 0 \in 0..EscalationAgeCap
        /\ 1 \in Levels
    OBVIOUS
  <2>4. TypeOK' /\ StoreInv'
    BY <1>0, <1>6, <2>1 DEF AuditCleanup, Cleanup, TypeOK, StoreInv
  <2>2. AuditTypeOK'
    BY <1>6, <2>1 DEF AuditCleanup, NewPeak, InGetLevel, AuditTypeOK
  <2>3. QED BY <2>2, <2>4
<1>7. ASSUME AuditTick PROVE TypeOK' /\ AuditTypeOK' /\ StoreInv'
  <2>1. \A t \in Threads :
          LET aged == [call[t] EXCEPT !.age = Older(call[t].age, EscalationAgeCap)]
          IN  /\ aged \in Calls /\ Idle \in Calls
              /\ aged.at = call[t].at /\ aged.age = Older(call[t].age, EscalationAgeCap)
              /\ call[t].age \in Age(EscalationAgeCap)
    BY <1>0 DEF TypeOK, Calls, Idle
  <2>2. call' \in [Threads -> Calls]
    BY <1>7, <2>1 DEF AuditTick, Tick
  <2>3. StoreInv'
    BY <1>0, <1>7, <2>1 DEF AuditTick, Tick, StoreInv, Idle
  <2>4. lastActivityAt' \in 0..ActivityAgeCap
    <3>1. lastActivityAt + 1 \in Nat
      BY DEF TypeOK
    <3>2. QED BY <1>0, <1>7, <3>1 DEF AuditTick, Tick
  <2>5. sincePeak' \in 0..EscalationAgeCap
    <3>1. sincePeak + 1 \in Nat
      BY DEF AuditTypeOK
    <3>2. QED BY <1>0, <1>7, <3>1 DEF AuditTick
  <2>6. TypeOK'
    BY <1>0, <1>7, <2>2, <2>4 DEF AuditTick, Tick, TypeOK
  <2>7. AuditTypeOK'
    BY <1>7, <2>5 DEF AuditTick, AuditTypeOK
  <2>8. QED BY <2>3, <2>6, <2>7
<1>8. ASSUME UNCHANGED auditVars PROVE TypeOK' /\ AuditTypeOK' /\ StoreInv'
  BY <1>8 DEF auditVars, vars, entry, audit, TypeOK, AuditTypeOK, StoreInv
<1>9. QED
  BY <1>1, <1>2, <1>3, <1>4, <1>5, <1>6, <1>7, <1>8 DEF AuditNext

LEMMA CountKept ==
  ASSUME TypeOK, AuditTypeOK, CountInv, [AuditNext]_auditVars
  PROVE  CountInv' /\ (RecordFailure /\ level' > level => earned >= Threshold)
<1> USE Constants
<1>0. failureCount \in 0..FailureCap /\ earned \in 0..FailureCap /\ failureCount <= earned
      /\ level \in Nat
  BY DEF TypeOK, AuditTypeOK, CountInv
<1>1. RecordFailure =>
        /\ CountAfterFailure <= Lower(earned + 1, FailureCap)
        /\ level' > level => CountAfterFailure > Threshold /\ failureCount' = 0
        /\ level' <= level => failureCount' = CountAfterFailure
  <2>1. CountAfterFailure <= Lower(earned + 1, FailureCap)
    BY <1>0 DEF CountAfterFailure, Lower
  <2>2. QED BY <1>0, <2>1 DEF RecordFailure, Escalate
<1>2. RecordFailure /\ level' > level => earned >= Threshold
  <2>1. RecordFailure /\ level' > level => Lower(earned + 1, FailureCap) > Threshold
    <3>1. Lower(earned + 1, FailureCap) \in Nat /\ CountAfterFailure \in Int
      BY <1>0 DEF Lower, CountAfterFailure
    <3>2. QED BY <1>1, <3>1
  <2>2. Lower(earned + 1, FailureCap) > Threshold => earned >= Threshold
    BY <1>0 DEF Lower
  <2>3. QED BY <2>1, <2>2
<1>3. ASSUME AuditFailure PROVE CountInv'
  <2>1. CASE level' > level
    BY <1>1, <1>3, <2>1 DEF AuditFailure, CountInv
  <2>2. CASE ~(level' > level)
    <3>1. level' <= level
      BY <1>0, <1>3, <2>2 DEF AuditFailure, RecordFailure, Escalate
    <3>2. QED BY <1>1, <1>3, <2>2, <3>1 DEF AuditFailure, CountInv
  <2>3. QED BY <2>1, <2>2
<1>4. ASSUME NEW t \in Threads, AuditCopy(t) \/ AuditDecide(t) \/ AuditStore(t) PROVE CountInv'
  BY <1>4 DEF AuditCopy, CopyState, AuditDecide, DecideLevel, AuditStore, StoreLevel, entry, audit,
              CountInv
<1>5. ASSUME (RecordSuccess /\ UNCHANGED audit) \/ AuditCleanup \/ AuditTick \/ UNCHANGED auditVars
      PROVE  CountInv'
  BY <1>0, <1>5 DEF RecordSuccess, AuditCleanup, Cleanup, AuditTick, Tick, auditVars, vars, entry,
                    audit, CountInv
<1>6. QED BY <1>2, <1>3, <1>4, <1>5 DEF AuditNext

-----------------------------------------------------------------------------
(* What an escalation has cost stays paid. *)

\* Time passing, which ages both sides alike until one is capped.
LEMMA PaidLater ==
  ASSUME AuditTypeOK, NEW l \in Levels, NEW a \in Nat, NEW b \in Nat, b <= a + 1, Paid(l, a),
         sincePeak' = Lower(sincePeak + 1, EscalationAgeCap), peak' = peak
  PROVE  sincePeak' = EscalationAgeCap \/ (peak' - l) * Cooldown <= sincePeak' - b
<1>1. sincePeak \in 0..EscalationAgeCap /\ peak \in Nat /\ (peak - l) * Cooldown \in Int
  BY Constants DEF AuditTypeOK
<1>2. CASE sincePeak' = EscalationAgeCap
  BY <1>2 DEF Paid
<1>3. CASE sincePeak' # EscalationAgeCap
  <2>1. sincePeak # EscalationAgeCap /\ sincePeak' = sincePeak + 1
    BY <1>1, <1>3, Constants DEF Lower
  <2>2. sincePeak - a <= sincePeak' - b
    BY <1>1, <2>1
  <2>3. (peak - l) * Cooldown <= sincePeak - a
    BY <2>1 DEF Paid
  <2> DEFINE owed == (peak - l) * Cooldown
  <2>4. owed \in Int /\ owed <= sincePeak - a
    BY <1>1, <2>3
  <2> HIDE DEF owed
  <2>5. owed <= sincePeak' - b
    BY <1>1, <2>1, <2>2, <2>4
  <2>6. QED BY <2>5 DEF Paid, owed
<1>4. QED BY <1>2, <1>3

\* GetLevel taking back what the copy has cooled down by now.
LEMMA PaidCooled ==
  ASSUME AuditTypeOK, NEW l \in Levels, NEW a \in Nat, Paid(l, a)
  PROVE  Paid(Cooled(l, a), 0)
<1> DEFINE q == a \div Cooldown
           C == Cooldown
<1>1. sincePeak \in 0..EscalationAgeCap /\ peak \in Nat /\ l \in Nat /\ C \in Nat \ {0}
  BY Constants DEF AuditTypeOK
<1>2. q \in Nat /\ C * q <= a
  BY DivFacts, Constants
<1>3. CASE sincePeak = EscalationAgeCap
  BY <1>3 DEF Paid
<1>4. CASE sincePeak # EscalationAgeCap
  <2>1. (peak - l) * C <= sincePeak - a
    BY <1>4 DEF Paid
  <2>2. Cooled(l, a) \in Nat /\ Cooled(l, a) >= l - q
    BY <1>1, <1>2, CooledLevel, Constants
  <2> HIDE DEF q, C
  <2>3. (peak - l + q) * C <= sincePeak
    BY <1>1, <1>2, <2>1
  <2> DEFINE k == Cooled(l, a)
  <2>4. k \in Nat /\ peak - k <= peak - l + q
    BY <1>1, <1>2, <2>2
  <2> HIDE DEF k
  <2>5. (peak - k) * C <= (peak - l + q) * C
    BY <1>1, <1>2, <2>4
  <2>6. (peak - k) * C <= sincePeak
    <3> DEFINE x == (peak - k) * C
               y == (peak - l + q) * C
    <3>1. x \in Int /\ y \in Int
      BY <1>1, <1>2, <2>4
    <3> HIDE DEF x, y
    <3>2. x <= y /\ y <= sincePeak
      BY <2>3, <2>5 DEF x, y
    <3>3. x <= sincePeak
      BY <1>1, <3>1, <3>2
    <3>4. QED BY <3>3 DEF x
  <2>7. QED BY <1>1, <2>6 DEF Paid, k, C
<1>5. QED BY <1>3, <1>4

LEMMA PaidKept ==
  ASSUME TypeOK, AuditTypeOK, StoreInv, PaidInv, [AuditNext]_auditVars
  PROVE  PaidInv'
<1> USE Constants
<1>0. /\ \A t \in Threads : call[t].level \in Levels /\ call[t].age \in Age(EscalationAgeCap)
      /\ \A t \in Threads : call[t].at \in {"idle", "copied", "store"}
      /\ \A a \in Age(EscalationAgeCap) : a # Never => a \in Nat
      /\ call \in [Threads -> Calls] /\ level \in Levels /\ lastEscalation \in Age(EscalationAgeCap)
      /\ Idle.at = "idle"
  BY DEF TypeOK, Calls, Age, Idle
<1>1. ASSUME NEW t \in Threads, AuditCopy(t) PROVE PaidInv'
  <2>1. /\ call' = [call EXCEPT ![t] = [at |-> "copied", level |-> level, age |-> lastEscalation]]
        /\ UNCHANGED entry /\ UNCHANGED audit
    BY <1>1 DEF AuditCopy, CopyState
  <2>2. \A u \in Threads : \/ call'[u] = call[u]
                           \/ call'[u].level = level /\ call'[u].age = lastEscalation
    BY <1>0, <2>1
  <2>3. QED BY <2>1, <2>2 DEF PaidInv, Paid, entry, audit
<1>2. ASSUME NEW t \in Threads, AuditDecide(t) PROVE PaidInv'
  <2> SUFFICES ASSUME ~undercut, NEW u \in Threads \ overtaken',
                      call'[u].at # "idle", call'[u].age # Never
               PROVE  Paid(call'[u].level, call'[u].age)
    <3>1. UNCHANGED <<level, lastEscalation, peak, sincePeak, undercut>>
      BY <1>2 DEF AuditDecide, DecideLevel, entry
    <3>2. QED BY <3>1 DEF PaidInv, Paid
  <2> DEFINE copy == call[t]
             due == copy.level > 0 /\ copy.age # Never /\ copy.age \div Cooldown > 0
  <2>1. /\ call' = [call EXCEPT ![t] =
             IF due THEN [at |-> "store", level |-> Cooled(copy.level, copy.age), age |-> 0]
                    ELSE Idle]
        /\ copy.at = "copied"
    BY <1>2 DEF AuditDecide, DecideLevel
  <2>2. u \notin overtaken
    <3>1. overtaken' = IF call'[t].at = "idle" THEN overtaken \ {t} ELSE overtaken
      BY <1>2 DEF AuditDecide
    <3>2. u # t \/ overtaken' = overtaken
      BY <3>1
    <3>3. QED BY <3>1, <3>2
  <2>3. CASE u # t
    BY <1>0, <2>1, <2>2, <2>3 DEF PaidInv
  <2>4. CASE u = t
    <3>1. due /\ call'[u].level = Cooled(copy.level, copy.age) /\ call'[u].age = 0
      BY <1>0, <2>1, <2>4
    <3>2. copy.level \in Levels /\ copy.age \in Nat /\ Paid(copy.level, copy.age)
      BY <1>0, <2>1, <2>2, <2>4, <3>1 DEF PaidInv
    <3>3. QED BY <3>1, <3>2, PaidCooled
  <2>5. QED BY <2>3, <2>4
<1>3. ASSUME NEW t \in Threads, AuditStore(t) PROVE PaidInv'
  <2>1. /\ call' = [call EXCEPT ![t] = Idle] /\ overtaken' = overtaken \ {t}
        /\ undercut' = (undercut \/ (exists /\ t \in overtaken))
        /\ peak' = peak /\ sincePeak' = sincePeak
        /\ call[t].at = "store" /\ call[t].age # Never
    BY <1>3 DEF AuditStore, StoreLevel, StoreInv
  <2>2. \A u \in Threads \ overtaken' :
          call'[u].at # "idle" => call'[u] = call[u] /\ u \in Threads \ overtaken
    BY <1>0, <2>1
  <2>3. CASE exists
    <3>1. level' = call[t].level /\ lastEscalation' = call[t].age
      BY <1>3, <2>3 DEF AuditStore, StoreLevel
    <3>2. ~undercut' => Paid(call[t].level, call[t].age)
      BY <2>1, <2>3 DEF PaidInv
    <3>3. QED BY <2>1, <2>2, <3>1, <3>2 DEF PaidInv, Paid
  <2>4. CASE ~exists
    <3>1. level' = level /\ lastEscalation' = lastEscalation
      BY <1>3, <2>4 DEF AuditStore, StoreLevel, entry
    <3>2. QED BY <2>1, <2>2, <3>1 DEF PaidInv, Paid
  <2>5. QED BY <2>3, <2>4
<1>4. ASSUME AuditFailure PROVE PaidInv'
  <2>1. CASE level' > level
    <3>1. lastEscalation' = 0 /\ level' = level + 1
      BY <1>0, <1>4, <2>1 DEF AuditFailure, RecordFailure, Escalate
    <3>2. /\ peak' = level' /\ sincePeak' = 0 /\ overtaken' = InGetLevel /\ call' = call
      BY <1>4, <2>1 DEF AuditFailure, RecordFailure, NewPeak
    <3>3. \A u \in Threads \ overtaken' : call'[u].at = "idle"
      BY <3>2 DEF InGetLevel
    <3>4. Paid(level, lastEscalation)'
      BY <1>0, <3>1, <3>2 DEF Paid
    <3>5. QED BY <3>1, <3>3, <3>4 DEF PaidInv
  <2>2. CASE ~(level' > level)
    <3>1. level' = level /\ lastEscalation' = lastEscalation
      BY <1>0, <1>4, <2>2 DEF AuditFailure, RecordFailure, Escalate
    <3>2. UNCHANGED <<peak, sincePeak, overtaken, undercut, call>>
      BY <1>4, <2>2 DEF AuditFailure, RecordFailure
    <3>3. QED BY <3>1, <3>2 DEF PaidInv, Paid
  <2>3. QED BY <2>1, <2>2
<1>5. ASSUME (RecordSuccess /\ UNCHANGED audit) \/ UNCHANGED auditVars PROVE PaidInv'
  BY <1>5 DEF RecordSuccess, PaidInv, Paid, audit, auditVars, vars, entry
<1>6. ASSUME AuditCleanup PROVE PaidInv'
  <2>1. /\ lastEscalation' = Never /\ level' = 1 /\ peak' = 1 /\ overtaken' = InGetLevel
        /\ call' = call
    BY <1>6 DEF AuditCleanup, Cleanup, NewPeak
  <2>2. \A u \in Threads \ overtaken' : call'[u].at = "idle"
    BY <2>1 DEF InGetLevel
  <2>3. QED BY <2>1, <2>2 DEF PaidInv
<1>7. ASSUME AuditTick PROVE PaidInv'
  <2>1. /\ sincePeak' = Lower(sincePeak + 1, EscalationAgeCap)
        /\ UNCHANGED <<peak, overtaken, undercut, level>>
        /\ lastEscalation' = Older(lastEscalation, EscalationAgeCap)
        /\ call' = [t \in Threads |->
             IF call[t].at = "idle" THEN Idle
             ELSE [call[t] EXCEPT !.age = Older(call[t].age, EscalationAgeCap)]]
    BY <1>7 DEF AuditTick, Tick
  <2>2. \A a \in Age(EscalationAgeCap) :
          LET b == Older(a, EscalationAgeCap)
          IN  /\ b \in Age(EscalationAgeCap)
              /\ b = Never <=> a = Never
              /\ a # Never => b <= a + 1
    BY AgesGrow
  <2>3. ASSUME ~undercut, lastEscalation' # Never PROVE Paid(level, lastEscalation)'
    <3>1. /\ lastEscalation \in Nat /\ lastEscalation' \in Nat
          /\ lastEscalation' <= lastEscalation + 1
      BY <1>0, <2>1, <2>2, <2>3
    <3>2. Paid(level, lastEscalation)
      BY <2>1, <2>2, <1>0, <2>3 DEF PaidInv
    <3>3. \/ sincePeak' = EscalationAgeCap
          \/ (peak' - level) * Cooldown <= sincePeak' - lastEscalation'
      BY <1>0, <2>1, <3>1, <3>2, PaidLater
    <3>4. QED BY <2>1, <3>3 DEF Paid
  <2>4. ASSUME ~undercut, NEW t \in Threads \ overtaken, call'[t].at # "idle", call'[t].age # Never
        PROVE  Paid(call[t].level, call[t].age)'
    <3> DEFINE l == call[t].level
               a == call[t].age
               b == call'[t].age
    <3>1. call[t].at # "idle" /\ b = Older(a, EscalationAgeCap) /\ call'[t].level = l
      BY <1>0, <2>1, <2>4 DEF Calls
    <3>2. l \in Levels /\ a \in Nat /\ b \in Nat /\ b <= a + 1
      BY <1>0, <2>2, <2>4, <3>1
    <3>3. Paid(l, a)
      BY <1>0, <2>2, <2>4, <3>1 DEF PaidInv
    <3> HIDE DEF l, a, b
    <3>4. sincePeak' = EscalationAgeCap \/ (peak' - l) * Cooldown <= sincePeak' - b
      BY <2>1, <3>2, <3>3, PaidLater
    <3>5. QED BY <3>1, <3>4 DEF Paid, b
  <2>5. QED BY <2>1, <2>2, <2>3, <2>4, <1>0 DEF PaidInv
<1>8. QED
  BY <1>1, <1>2, <1>3, <1>4, <1>5, <1>6, <1>7 DEF AuditNext

-----------------------------------------------------------------------------
LEMMA InitIInv ==
  ASSUME AuditInit
  PROVE  IInv
<1> USE Constants
<1>1. /\ 1 \in Levels /\ 0 \in 0..FailureCap /\ 0 \in 0..ActivityAgeCap /\ 0 \in 0..EscalationAgeCap
      /\ Never \in Age(FailureAgeCap) /\ Never \in Age(EscalationAgeCap)
      /\ Idle \in Calls /\ Idle.at = "idle"
  BY DEF Age, Idle, Calls
<1>2. TypeOK /\ AuditTypeOK
  BY <1>1 DEF AuditInit, Init, TypeOK, AuditTypeOK
<1>3. CountInv /\ StoreInv /\ PaidInv
  BY <1>1 DEF AuditInit, Init, CountInv, StoreInv, PaidInv
<1>4. QED BY <1>2, <1>3 DEF IInv

\* All of it holds of every state that the engine and its history reach (escalation/engine.go).
THEOREM EscalationInvariant == AuditSpec => []IInv
<1>1. IInv /\ [AuditNext]_auditVars => IInv'
  BY TypeKept, CountKept, PaidKept DEF IInv
<1>2. QED BY <1>1, InitIInv, PTL DEF AuditSpec

\* The entry, the calls in progress and the history keep their types: GetLevel stores no
\* level outside none..ban, whatever it has copied.
THEOREM EscalationTypes == AuditSpec => [](TypeOK /\ AuditTypeOK)
<1>1. IInv => TypeOK /\ AuditTypeOK
  BY DEF IInv
<1>2. QED BY <1>1, EscalationInvariant, PTL

\* RecordFailure never raises the level on fewer than Threshold failures since it last did.
THEOREM EveryEscalationEarned == AuditSpec => EscalationEarned
<1>1. IInv /\ [AuditNext]_auditVars =>
        [RecordFailure /\ level' > level => earned >= Threshold]_auditVars
  BY CountKept DEF IInv
<1>2. QED BY <1>1, EscalationInvariant, PTL DEF AuditSpec, EscalationEarned

\* However many goroutines run GetLevel together, the level falls by no more than one for
\* each cooldown since it last rose, unless a copy older than the rise has been stored.
THEOREM NeverForgivenFaster == AuditSpec => []ForgivenNoFaster
<1> USE Constants
<1>1. IInv => ForgivenNoFaster
  <2> SUFFICES ASSUME IInv, ~undercut PROVE level >= PaidLevel
    BY DEF ForgivenNoFaster
  <2> DEFINE q == sincePeak \div Cooldown
  <2>1. sincePeak \in Nat /\ peak \in 0..4 /\ level \in 0..4 /\ q \in Nat
    BY DivFacts DEF IInv, TypeOK, AuditTypeOK
  <2>2. PaidLevel = IF q > peak THEN 0 ELSE peak - q
    BY DEF PaidLevel
  <2>3. CASE lastEscalation = Never
    <3>1. level >= peak
      BY <2>3 DEF IInv, PaidInv
    <3> HIDE DEF q
    <3>2. QED BY <2>1, <2>2, <3>1
  <2>4. CASE lastEscalation # Never
    <3>1. Paid(level, lastEscalation) /\ lastEscalation \in Nat
      BY <2>4 DEF IInv, PaidInv, TypeOK, Age
    <3>2. CASE sincePeak = EscalationAgeCap
      <4>1. 4 <= q
        BY <2>1, <3>2, DivAtLeast
      <4> HIDE DEF q
      <4>2. QED BY <2>1, <2>2, <4>1
    <3>3. CASE sincePeak # EscalationAgeCap
      <4>1. (peak - level) * Cooldown <= sincePeak - lastEscalation
        BY <3>1, <3>3 DEF Paid
      <4> DEFINE owed == (peak - level) * Cooldown
      <4>2. owed \in Int /\ owed <= sincePeak - lastEscalation
        BY <2>1, <4>1
      <4> HIDE DEF owed
      <4>3. owed <= sincePeak
        BY <2>1, <3>1, <4>2
      <4>4. peak - level <= q
        BY <2>1, <4>3, DivAtLeast DEF owed
      <4> HIDE DEF q
      <4>5. QED BY <2>1, <2>2, <4>4
    <3>4. QED BY <3>2, <3>3
  <2>5. QED BY <2>3, <2>4
<1>2. QED BY <1>1, EscalationInvariant, PTL
==============================================================================
