---------------------------- MODULE VisitorProofs ----------------------------
(***************************************************************************)
(* What a client node does with the requests of a visitor, proved for any  *)
(* number of concurrent requests and cookies, any thresholds, windows and  *)
(* lives, and any visitors and tokens: the pipeline of ServeHTTP           *)
(* (RequestPipeline), the access cookies and their limit (AccessCookie)    *)
(* and the challenges that earn them (Challenges).                         *)
(*                                                                         *)
(* Requests: the inductive invariant adds to the two properties that the   *)
(* records of requests that have seen the count under the limit are in the *)
(* bound before they reach the backend (UnderLimit), and that a ban that   *)
(* covers a full window is no older than anything in it (FloodCovered).    *)
(*                                                                         *)
(* Cookies: the limiter remembers a revocation as long as the history does *)
(* (Remembered), and what a cookie passed in any CookieWindow ticks is     *)
(* split at the start of its current window (Bounded).                     *)
(*                                                                         *)
(* Tokens: one that is still in the store has earned nothing and is not    *)
(* being judged, and one that is being judged is judged once.  The pages   *)
(* that the loop detector counts are in order.                             *)
(*                                                                         *)
(* At the end stands the composition (Visitor), with the escalation        *)
(* engine: each part behaves in it as it does alone, and keeps its types.  *)
(***************************************************************************)
EXTENDS Visitor, InductionLemmas, SequenceTheorems, TLAPS

-----------------------------------------------------------------------------
(* Requests *)

\* Requests that the limiter has allowed and that have not been served yet.
Under(t) ==
  \/ pc[t] \in {"cookie", "spare"}
  \/ pc[t] \in {"engine", "bypass", "serve"} /\ volume[t] = 0
UnderRecords == {mine[t] : t \in {u \in Threads : Under(u)}} \ {NoRecord}

OwnRecords ==
  /\ \A t \in Threads : mine[t] \in Logged \cup {NoRecord}
  /\ served \subseteq Logged

UnderLimit == Cardinality(served \cup UnderRecords) < Soft

FloodCovered ==
  HardBlocked =>
    \/ \E t \in Threads : pc[t] \in {"hard", "ban"}
    \/ banLeft > 0 /\ \A r \in Logged : BanTime - banLeft <= age[r]

PipelineInv == TypeOK /\ OwnRecords /\ UnderLimit /\ FloodCovered

-----------------------------------------------------------------------------
\* Sets of records are finite and their cardinality is monotonic.
LEMMA RecordSets ==
  ASSUME NEW A \in SUBSET Records, NEW B \in SUBSET A
  PROVE  /\ IsFiniteSet(A) /\ IsFiniteSet(B)
         /\ Cardinality(A) \in Nat /\ Cardinality(B) \in Nat
         /\ Cardinality(B) <= Cardinality(A)
  BY PipelineAssumption, FS_Subset, FS_CardinalityType

\* Every variable stays within its type, for any thresholds and any number of
\* goroutines in ServeHTTP.
THEOREM RequestTypes == Spec => []TypeOK
<1>1. Init => TypeOK
  BY PipelineAssumption DEF Init, TypeOK, Free, Steps
<1>2. TypeOK /\ [Next]_vars => TypeOK'
  <2> SUFFICES ASSUME TypeOK, [Next]_vars PROVE TypeOK'
    OBVIOUS
  <2> USE PipelineAssumption DEF TypeOK, Free, Steps, Goto, Unchanged
  <2>1. ASSUME NEW t \in Threads, Arrive(t) \/ Verify(t) PROVE TypeOK'
    BY <2>1 DEF Arrive, Verify
  <2>2. ASSUME NEW t \in Threads, IsBanned(t) PROVE TypeOK'
    BY <2>2 DEF IsBanned, Finish
  <2>3. ASSUME NEW t \in Threads, RecordRequest(t) PROVE TypeOK'
    BY <2>3 DEF RecordRequest
  <2>4. ASSUME NEW t \in Threads, IsHardBlocked(t) \/ Allow(t) PROVE TypeOK'
    BY <2>4 DEF IsHardBlocked, Allow
  <2>5. ASSUME NEW t \in Threads, CheckCookie(t) PROVE TypeOK'
    BY <2>5 DEF CheckCookie, ToBackend, Finish
  <2>6. ASSUME NEW t \in Threads, LevelHard(t) \/ LevelDouble(t) \/ LevelSoft(t) PROVE TypeOK'
    BY <2>6 DEF LevelHard, LevelDouble, LevelSoft, VolumeIs
  <2>7. ASSUME NEW t \in Threads, EngineLevel(t) PROVE TypeOK'
    BY <2>7 DEF EngineLevel
  <2>8. ASSUME NEW t \in Threads, MayBypass(t) \/ Serve(t) PROVE TypeOK'
    BY <2>8 DEF MayBypass, Serve, ToBackend, Finish
  <2>9. ASSUME NEW t \in Threads, Ban(t) PROVE TypeOK'
    BY <2>9 DEF Ban, Finish
  <2>10. ASSUME NEW t \in Threads, ResetIP(t) PROVE TypeOK'
    BY <2>10 DEF ResetIP
  <2>11. CASE Tick
    BY <2>11 DEF Tick, Outdated
  <2>12. CASE UNCHANGED vars
    BY <2>12 DEF vars
  <2>13. QED
    BY <2>1, <2>2, <2>3, <2>4, <2>5, <2>6, <2>7, <2>8, <2>9, <2>10, <2>11, <2>12
       DEF Next, Step
<1>3. QED
  BY <1>1, <1>2, PTL DEF Spec

-----------------------------------------------------------------------------
LEMMA UnderRecordsAreLogged ==
  ASSUME OwnRecords
  PROVE  served \cup UnderRecords \subseteq Logged
  BY DEF OwnRecords, UnderRecords

\* Two ways to keep the bound: nothing new is counted, or everything counted is in
\* a window that was just seen to be under the limit.
LEMMA BoundKept ==
  ASSUME TypeOK, UnderLimit, OwnRecords,
         (served \cup UnderRecords)' \subseteq served \cup UnderRecords
  PROVE  UnderLimit'
<1>1. served \cup UnderRecords \in SUBSET Records
  BY UnderRecordsAreLogged DEF Logged
<1>2. Cardinality((served \cup UnderRecords)') <= Cardinality(served \cup UnderRecords)
  BY <1>1, RecordSets
<1>3. /\ Cardinality((served \cup UnderRecords)') \in Nat
      /\ Cardinality(served \cup UnderRecords) \in Nat
  BY <1>1, RecordSets
<1>4. QED
  BY <1>2, <1>3, PipelineAssumption DEF UnderLimit

LEMMA BoundSeen ==
  ASSUME OwnRecords', Allowed, UNCHANGED age
  PROVE  UnderLimit'
<1>1. (served \cup UnderRecords)' \subseteq Logged
  BY DEF OwnRecords, UnderRecords, Logged
<1>2. Logged \in SUBSET Records
  BY DEF Logged
<1>3. /\ Cardinality((served \cup UnderRecords)') <= Count
      /\ Cardinality((served \cup UnderRecords)') \in Nat /\ Count \in Nat
  BY <1>1, <1>2, RecordSets DEF Count
<1>4. QED
  BY <1>3, PipelineAssumption DEF UnderLimit, Allowed

\* The records that goroutines hold are in the window.
LEMMA OwnRecordsKept ==
  ASSUME TypeOK, OwnRecords, [Next]_vars
  PROVE  OwnRecords'
<1> USE PipelineAssumption DEF OwnRecords, Logged, Goto, Unchanged
<1>1. ASSUME NEW t \in Threads,
             \/ Arrive(t) \/ Verify(t) \/ IsHardBlocked(t) \/ Allow(t)
             \/ LevelHard(t) \/ LevelDouble(t) \/ LevelSoft(t) \/ EngineLevel(t)
             \/ MayBypass(t)
      PROVE  OwnRecords'
  BY <1>1 DEF Arrive, Verify, IsHardBlocked, Allow, LevelHard, LevelDouble, LevelSoft,
              VolumeIs, EngineLevel, MayBypass
<1>2. ASSUME NEW t \in Threads, IsBanned(t) \/ CheckCookie(t) \/ Serve(t) \/ Ban(t)
      PROVE  OwnRecords'
  BY <1>2 DEF IsBanned, CheckCookie, Serve, Ban, ToBackend, Finish, TypeOK
<1>3. ASSUME NEW t \in Threads, RecordRequest(t) PROVE OwnRecords'
  BY <1>3 DEF RecordRequest, TypeOK, Free
<1>4. ASSUME NEW t \in Threads, ResetIP(t) PROVE OwnRecords'
  BY <1>4 DEF ResetIP
<1>5. CASE Tick
  BY <1>5 DEF Tick, Outdated, TypeOK, Free
<1>6. CASE UNCHANGED vars
  BY <1>6 DEF vars
<1>7. QED
  BY <1>1, <1>2, <1>3, <1>4, <1>5, <1>6 DEF Next, Step

\* A request counts under the limit from the moment the limiter allows it, at
\* which the count includes its own record.
LEMMA UnderLimitKept ==
  ASSUME TypeOK, OwnRecords, OwnRecords', UnderLimit, [Next]_vars
  PROVE  UnderLimit'
<1> USE DEF Goto, Unchanged
<1>1. ASSUME NEW t \in Threads, Arrive(t) \/ Verify(t) \/ IsHardBlocked(t)
      PROVE  UnderLimit'
  <2>1. (served \cup UnderRecords)' \subseteq served \cup UnderRecords
    BY <1>1 DEF Arrive, Verify, IsHardBlocked, UnderRecords, Under, TypeOK
  <2>2. QED
    BY <2>1, BoundKept
<1>2. ASSUME NEW t \in Threads, IsBanned(t) \/ Ban(t) PROVE UnderLimit'
  <2>1. (served \cup UnderRecords)' \subseteq served \cup UnderRecords
    BY <1>2 DEF IsBanned, Ban, Finish, UnderRecords, Under, TypeOK
  <2>2. QED
    BY <2>1, BoundKept
<1>3. ASSUME NEW t \in Threads, RecordRequest(t) PROVE UnderLimit'
  <2>1. (served \cup UnderRecords)' \subseteq served \cup UnderRecords
    BY <1>3 DEF RecordRequest, UnderRecords, Under, TypeOK
  <2>2. QED
    BY <2>1, BoundKept
<1>4. ASSUME NEW t \in Threads, Allow(t) PROVE UnderLimit'
  <2>1. CASE Allowed
    BY <1>4, <2>1, BoundSeen DEF Allow
  <2>2. CASE ~Allowed
    <3>1. (served \cup UnderRecords)' \subseteq served \cup UnderRecords
      BY <1>4, <2>2 DEF Allow, UnderRecords, Under, TypeOK
    <3>2. QED
      BY <3>1, BoundKept
  <2>3. QED
    BY <2>1, <2>2
<1>5. ASSUME NEW t \in Threads, CheckCookie(t) PROVE UnderLimit'
  <2>1. (served \cup UnderRecords)' \subseteq served \cup UnderRecords
    BY <1>5, PipelineAssumption DEF CheckCookie, ToBackend, Finish, UnderRecords, Under, TypeOK
  <2>2. QED
    BY <2>1, BoundKept
<1>6. ASSUME NEW t \in Threads, LevelHard(t) \/ LevelDouble(t) PROVE UnderLimit'
  <2>1. (served \cup UnderRecords)' \subseteq served \cup UnderRecords
    BY <1>6 DEF LevelHard, LevelDouble, VolumeIs, UnderRecords, Under, TypeOK
  <2>2. QED
    BY <2>1, BoundKept
<1>7. ASSUME NEW t \in Threads, LevelSoft(t) PROVE UnderLimit'
  <2>1. CASE Allowed
    BY <1>7, <2>1, BoundSeen DEF LevelSoft, VolumeIs
  <2>2. CASE ~Allowed
    <3>1. (served \cup UnderRecords)' \subseteq served \cup UnderRecords
      BY <1>7, <2>2 DEF LevelSoft, VolumeIs, UnderRecords, Under, TypeOK
    <3>2. QED
      BY <3>1, BoundKept
  <2>3. QED
    BY <2>1, <2>2
<1>8. ASSUME NEW t \in Threads, EngineLevel(t) PROVE UnderLimit'
  <2>1. (served \cup UnderRecords)' \subseteq served \cup UnderRecords
    BY <1>8 DEF EngineLevel, UnderRecords, Under, TypeOK
  <2>2. QED
    BY <2>1, BoundKept
<1>9. ASSUME NEW t \in Threads, Serve(t) PROVE UnderLimit'
  <2>1. (served \cup UnderRecords)' \subseteq served \cup UnderRecords
    BY <1>9, PipelineAssumption
       DEF Serve, ToBackend, Finish, UnderRecords, Under, TypeOK
  <2>2. QED
    BY <2>1, BoundKept
<1>10. ASSUME NEW t \in Threads, MayBypass(t) PROVE UnderLimit'
  <2>1. CASE Allowed
    BY <1>10, <2>1, BoundSeen DEF MayBypass
  <2>2. CASE ~Allowed
    <3>1. (served \cup UnderRecords)' \subseteq served \cup UnderRecords
      BY <1>10, <2>2 DEF MayBypass, UnderRecords, Under, TypeOK
    <3>2. QED
      BY <3>1, BoundKept
  <2>3. QED
    BY <2>1, <2>2
<1>11. ASSUME NEW t \in Threads, ResetIP(t) PROVE UnderLimit'
  <2>1. (served \cup UnderRecords)' \subseteq served \cup UnderRecords
    BY <1>11 DEF ResetIP, UnderRecords
  <2>2. QED
    BY <2>1, BoundKept
<1>12. CASE Tick
  <2>1. (served \cup UnderRecords)' \subseteq served \cup UnderRecords
    BY <1>12 DEF Tick, UnderRecords, Under, TypeOK
  <2>2. QED
    BY <2>1, BoundKept
<1>13. CASE UNCHANGED vars
  BY <1>13 DEF vars, UnderLimit, UnderRecords, Under
<1>14. QED
  BY <1>1, <1>2, <1>3, <1>4, <1>5, <1>6, <1>7, <1>8, <1>9, <1>10, <1>11, <1>12, <1>13
     DEF Next, Step

\* A window is only ever filled to Hard by a request that will look at it, and
\* time ages the window and the ban together.
LEMMA FloodCoveredKept ==
  ASSUME TypeOK, TypeOK', FloodCovered, [Next]_vars
  PROVE  FloodCovered'
<1> USE PipelineAssumption DEF Goto, Unchanged
<1>1. ASSUME NEW t \in Threads,
             \/ Arrive(t) \/ Verify(t) \/ Allow(t)
             \/ LevelHard(t) \/ LevelDouble(t) \/ LevelSoft(t) \/ EngineLevel(t)
             \/ MayBypass(t)
      PROVE  FloodCovered'
  BY <1>1, ZenonT(60) DEF FloodCovered, HardBlocked, Count, Logged, TypeOK,
              Arrive, Verify, Allow, LevelHard, LevelDouble, LevelSoft, VolumeIs,
              EngineLevel, MayBypass
<1>2. ASSUME NEW t \in Threads, IsBanned(t) \/ CheckCookie(t) \/ Serve(t)
      PROVE  FloodCovered'
  BY <1>2, SMTT(30) DEF FloodCovered, HardBlocked, Count, Logged, TypeOK,
              IsBanned, CheckCookie, Serve, ToBackend, Finish
<1>3. ASSUME NEW t \in Threads, RecordRequest(t) PROVE FloodCovered'
  BY <1>3 DEF RecordRequest, FloodCovered, TypeOK
<1>4. ASSUME NEW t \in Threads, IsHardBlocked(t) PROVE FloodCovered'
  BY <1>4 DEF IsHardBlocked, FloodCovered, HardBlocked, Count, Logged, TypeOK
<1>5. ASSUME NEW t \in Threads, Ban(t) PROVE FloodCovered'
  BY <1>5 DEF Ban, FloodCovered, Logged, TypeOK, Free
<1>6. ASSUME NEW t \in Threads, ResetIP(t) PROVE FloodCovered'
  <2>1. Logged' = {}
    BY <1>6 DEF ResetIP, Logged
  <2>2. Count' = 0
    BY <2>1, FS_EmptySet DEF Count
  <2>3. QED
    BY <2>2 DEF FloodCovered, HardBlocked
<1>7. CASE Tick
  <2> SUFFICES ASSUME HardBlocked' PROVE FloodCovered'
    BY DEF FloodCovered
  <2>1. Logged' \subseteq Logged
    BY <1>7 DEF Tick, Logged, Outdated, Free, TypeOK
  <2>2. /\ Count' <= Count /\ Count' \in Nat /\ Count \in Nat
    BY <2>1, RecordSets DEF Count, Logged
  <2>3. HardBlocked /\ Logged' # {}
    BY <2>2, FS_EmptySet DEF HardBlocked, Count
  <2>4. CASE \E t \in Threads : pc[t] \in {"hard", "ban"}
    BY <1>7, <2>4 DEF Tick, FloodCovered
  <2>5. CASE banLeft > 0 /\ \A r \in Logged : BanTime - banLeft <= age[r]
    <3>1. PICK r \in Logged' : TRUE
      BY <2>3
    <3>2. \A q \in Logged' : age[q] \in 0..Window - 1 /\ age'[q] = age[q] + 1
      BY <1>7, <2>1 DEF Tick, Logged, Outdated, Free, TypeOK
    <3>3. BanTime - banLeft <= Window - 1
      BY <2>1, <2>5, <3>1, <3>2 DEF TypeOK
    <3>4. banLeft' = banLeft - 1 /\ banLeft' > 0
      BY <1>7, <2>5, <3>3 DEF Tick, TypeOK
    <3>5. \A q \in Logged' : BanTime - banLeft' <= age'[q]
      BY <2>1, <2>5, <3>2, <3>4 DEF TypeOK
    <3>6. QED
      BY <3>4, <3>5 DEF FloodCovered
  <2>6. QED
    BY <2>3, <2>4, <2>5 DEF FloodCovered
<1>8. CASE UNCHANGED vars
  BY <1>8 DEF vars, FloodCovered, HardBlocked, Count, Logged
<1>9. QED
  BY <1>1, <1>2, <1>3, <1>4, <1>5, <1>6, <1>7, <1>8 DEF Next, Step

LEMMA PipelineInductive == Spec => []PipelineInv
<1>1. Init => PipelineInv
  <2> SUFFICES ASSUME Init PROVE PipelineInv
    OBVIOUS
  <2>1. TypeOK
    BY PipelineAssumption DEF Init, TypeOK, Free, Steps
  <2>2. Logged = {} /\ served \cup UnderRecords = {}
    BY DEF Init, Logged, UnderRecords
  <2>3. Count = 0 /\ Cardinality(served \cup UnderRecords) = 0
    BY <2>2, FS_EmptySet DEF Count
  <2>4. QED
    BY <2>1, <2>2, <2>3, PipelineAssumption
       DEF Init, PipelineInv, OwnRecords, UnderLimit, FloodCovered, HardBlocked
<1>2. TypeOK /\ TypeOK' /\ PipelineInv /\ [Next]_vars => PipelineInv'
  BY OwnRecordsKept, UnderLimitKept, FloodCoveredKept DEF PipelineInv
<1>3. QED
  BY <1>1, <1>2, RequestTypes, PTL DEF Spec

\* The limit on what reaches the backend holds for any number of requests at once
\* and any threshold (ServeHTTP and getEscalationLevel).
THEOREM SoftLimitAlwaysHolds == Spec => []SoftLimitHolds
<1>1. PipelineInv => SoftLimitHolds
  <2> SUFFICES ASSUME PipelineInv PROVE SoftLimitHolds
    OBVIOUS
  <2>1. served \cup UnderRecords \in SUBSET Records /\ served \in SUBSET (served \cup UnderRecords)
    BY UnderRecordsAreLogged DEF PipelineInv, Logged
  <2>2. /\ Cardinality(served) <= Cardinality(served \cup UnderRecords)
        /\ Cardinality(served) \in Nat /\ Cardinality(served \cup UnderRecords) \in Nat
    BY <2>1, RecordSets
  <2>3. QED
    BY <2>2, PipelineAssumption DEF PipelineInv, UnderLimit, SoftLimitHolds
<1>2. QED
  BY <1>1, PipelineInductive, PTL

\* Every flood ends in a ban, whatever else goes on, as long as a ban lasts longer
\* than the window (ServeHTTP, Ban and pruneIPState).
THEOREM FloodIsAlwaysBanned == Spec => []FloodIsBanned
<1>1. PipelineInv => FloodIsBanned
  BY DEF PipelineInv, FloodCovered, FloodIsBanned
<1>2. QED
  BY <1>1, PipelineInductive, PTL

-----------------------------------------------------------------------------
(* Cookies *)

Remembered ==
  \A k \in Cookies : banished[k] \in 0..RevocationTime - 1 => revoked[k] = banished[k]

CookieInv == CookieTypeOK /\ Remembered

-----------------------------------------------------------------------------
Counters == [count : 0..Threshold, age : {Never} \cup 0..CookieWindow]

LEMMA NoCounterType == NoCounter \in Counters
  BY CookieAssumption DEF NoCounter, Counters, Never

\* The count after one more request is within the limit or revokes the cookie.
LEMMA CountedType ==
  ASSUME NEW k \in Cookies, counter[k] \in Counters, ~Exceeds(Counted(k))
  PROVE  Counted(k) \in Counters
  BY CookieAssumption DEF Counters, Counted, Exceeds, Never

LEMMA SetCookieType ==
  ASSUME left \in [Cookies -> {Gone} \cup 0..TTL], SetAccessCookie
  PROVE  left' \in [Cookies -> {Gone} \cup 0..TTL]
  BY CookieAssumption DEF SetAccessCookie, Unused

LEMMA OlderType ==
  ASSUME NEW cap \in Nat, NEW time \in {Never} \cup 0..cap
  PROVE  Older(time, cap) \in {Never} \cup 0..cap
  BY DEF Older, Never

LEMMA CookieTypeStep == CookieTypeOK /\ [CookieNext]_cookieVars => CookieTypeOK'
<1> SUFFICES ASSUME CookieTypeOK, [CookieNext]_cookieVars PROVE CookieTypeOK'
  OBVIOUS
<1> USE CookieAssumption DEF limiterVars, historyVars, CookieGoto, Done
<1>1. CASE PassChallenge
  BY <1>1, SetCookieType DEF PassChallenge, CookieTypeOK
<1>2. ASSUME NEW t \in CookieThreads, NEW k \in Cookies, IsRevoked(t, k) PROVE CookieTypeOK'
  BY <1>2 DEF IsRevoked, CookieTypeOK
<1>3. ASSUME NEW t \in CookieThreads, ValidateCookie(t) PROVE CookieTypeOK'
  BY <1>3 DEF ValidateCookie, CookieTypeOK
<1>4. ASSUME NEW t \in CookieThreads, RefreshCookie(t) PROVE CookieTypeOK'
  BY <1>4, SetCookieType DEF RefreshCookie, CookieTypeOK
<1>5. ASSUME NEW t \in CookieThreads, RecordAndCheck(t), using[t] \in Cookies PROVE CookieTypeOK'
  <2>1. CASE Reject(t)
    BY <1>5, <2>1 DEF Reject, RecordAndCheck, CookieTypeOK
  <2>2. CASE Revoke(t)
    BY <1>5, <2>2, NoCounterType DEF Revoke, RecordAndCheck, CookieTypeOK, Counters, RevocationTime
  <2>3. CASE Pass(t)
    <3>1. Counted(using[t]) \in Counters
      BY <1>5, <2>3, CountedType DEF Pass, CookieTypeOK, Counters
    <3>2. counter' \in [Cookies -> Counters]
      BY <1>5, <2>3, <3>1 DEF Pass, CookieTypeOK, Counters
    <3>3. passed' \in [Cookies -> [Ages -> Nat]]
      BY <1>5, <2>3 DEF Pass, CookieTypeOK, Ages
    <3>4. QED
      BY <1>5, <2>3, <3>2, <3>3 DEF Pass, RecordAndCheck, CookieTypeOK, Counters
  <2>4. QED
    BY <1>5, <2>1, <2>2, <2>3 DEF RecordAndCheck
<1>6. CASE Cleanup
  BY <1>6, NoCounterType DEF Cleanup, CookieTypeOK, Counters
<1>7. CASE CookieTick
  <2>1. left' \in [Cookies -> {Gone} \cup 0..TTL]
    <3>1. ASSUME NEW k \in Cookies
          PROVE  (IF left[k] = Gone THEN Gone ELSE left[k] - 1) \in {Gone} \cup 0..TTL
      <4>1. left[k] = -1 \/ left[k] \in 0..TTL
        BY DEF CookieTypeOK, Gone
      <4>2. QED
        BY <4>1 DEF Gone
    <3>2. QED
      BY <1>7, <3>1 DEF CookieTick
  <2>2. counter' \in [Cookies -> Counters]
    <3>1. \A k \in Cookies : Older(counter[k].age, CookieWindow) \in {Never} \cup 0..CookieWindow
      BY OlderType DEF CookieTypeOK
    <3>2. QED
      BY <1>7, <3>1 DEF CookieTick, CookieTypeOK, Counters
  <2>3. RevocationTime \in Nat
    BY DEF RevocationTime
  <2>4. revoked' \in [Cookies -> {Never} \cup 0..RevocationTime]
    BY <1>7, <2>3, OlderType DEF CookieTick, CookieTypeOK
  <2>5. banished' \in [Cookies -> {Never} \cup 0..RevocationTime]
    BY <1>7, <2>3, OlderType DEF CookieTick, CookieTypeOK
  <2>6. passed' \in [Cookies -> [Ages -> Nat]]
    BY <1>7 DEF CookieTick, CookieTypeOK, Ages
  <2>7. QED
    BY <1>7, <2>1, <2>2, <2>4, <2>5, <2>6 DEF CookieTick, CookieTypeOK, Counters
<1>8. CASE UNCHANGED cookieVars
  BY <1>8 DEF cookieVars, CookieTypeOK
<1>9. ASSUME NEW t \in CookieThreads, RecordAndCheck(t), using[t] \notin Cookies PROVE CookieTypeOK'
  <2>1. UNCHANGED <<counter, revoked, banished>>
    BY <1>9 DEF RecordAndCheck, Reject, Revoke, Pass, CookieTypeOK
  <2>2. UNCHANGED passed
    BY <1>9 DEF RecordAndCheck, Reject, Revoke, Pass, CookieTypeOK
  <2>3. cookiePc' \in [CookieThreads -> {"idle", "validate", "count", "refresh"}]
    BY <1>9 DEF RecordAndCheck, Reject, Revoke, Pass, CookieTypeOK
  <2>4. using' \in [CookieThreads -> Cookies \cup {NoCookie}]
    BY <1>9 DEF RecordAndCheck, Reject, Revoke, Pass, CookieTypeOK
  <2>5. QED
    BY <1>9, <2>1, <2>2, <2>3, <2>4 DEF RecordAndCheck, CookieTypeOK
<1>10. QED
  BY <1>1, <1>2, <1>3, <1>4, <1>5, <1>6, <1>7, <1>8, <1>9 DEF CookieNext, CookieStep

\* Every variable stays within its type; a count never passes the limit.
THEOREM CookieTypes == CookieSpec => []CookieTypeOK
<1>1. CookieInit => CookieTypeOK
  BY CookieAssumption, NoCounterType
     DEF CookieInit, CookieTypeOK, Counters, NothingPassed, Ages, Gone, Never, RevocationTime
<1>2. QED
  BY <1>1, CookieTypeStep, PTL DEF CookieSpec

\* Cleanup forgets a revocation only after the two windows are over.
LEMMA RememberedStep == CookieTypeOK /\ Remembered /\ [CookieNext]_cookieVars => Remembered'
<1> SUFFICES ASSUME CookieTypeOK, Remembered, [CookieNext]_cookieVars PROVE Remembered'
  OBVIOUS
<1> USE CookieAssumption DEF Remembered, limiterVars, historyVars
<1>1. CASE UNCHANGED <<revoked, banished>>
  BY <1>1
<1>2. ASSUME NEW t \in CookieThreads, Revoke(t) PROVE Remembered'
  BY <1>2 DEF Revoke, CookieTypeOK
<1>3. CASE Cleanup
  BY <1>3 DEF Cleanup, OldRevocations, CookieTypeOK, RevocationTime
<1>4. CASE CookieTick
  BY <1>4 DEF CookieTick, Older, CookieTypeOK, RevocationTime, Never
<1>5. QED
  BY <1>1, <1>2, <1>3, <1>4
     DEF CookieNext, CookieStep, PassChallenge, IsRevoked, ValidateCookie, RecordAndCheck, Reject, Pass,
         RefreshCookie, cookieVars

LEMMA CookieInductive == CookieSpec => []CookieInv
<1>1. CookieInit => Remembered
  BY DEF CookieInit, Remembered, Never
<1>2. QED
  BY <1>1, CookieTypes, RememberedStep, PTL DEF CookieSpec, CookieInv

\* A revoked cookie lets no request through for two windows, however the requests
\* that present it, the cleanup goroutine and time interleave.
THEOREM RevocationAlwaysHolds == CookieSpec => RevocationHolds
<1>1. CookieInv /\ [CookieNext]_cookieVars
        => [\A k \in Cookies :
              banished[k] \in 0..RevocationTime - 1 => passed'[k][0] <= passed[k][0]]_cookieVars
  <2> SUFFICES ASSUME CookieInv, [CookieNext]_cookieVars, NEW k \in Cookies,
                      banished[k] \in 0..RevocationTime - 1
               PROVE  passed'[k][0] <= passed[k][0]
    OBVIOUS
  <2> USE CookieAssumption DEF limiterVars, historyVars
  <2>1. 0 \in Ages /\ passed[k][0] \in Nat
    BY DEF CookieInv, CookieTypeOK, Ages
  <2>2. revoked[k] # Never
    BY DEF CookieInv, Remembered, Never
  <2>3. CASE UNCHANGED passed
    BY <2>1, <2>3
  <2>4. ASSUME NEW t \in CookieThreads, Pass(t) PROVE passed'[k][0] <= passed[k][0]
    BY <2>1, <2>2, <2>4 DEF Pass, CookieInv, CookieTypeOK
  <2>5. CASE CookieTick
    BY <2>1, <2>5 DEF CookieTick
  <2>6. QED
    BY <2>3, <2>4, <2>5
       DEF CookieNext, CookieStep, PassChallenge, IsRevoked, ValidateCookie, RecordAndCheck, Reject, Revoke,
           RefreshCookie, Cleanup, cookieVars
<1>2. QED
  BY <1>1, CookieInductive, PTL DEF CookieSpec, RevocationHolds

-----------------------------------------------------------------------------
(* The requests of any CookieWindow ticks *)

Passes == [Ages -> Nat]
Recent(p, a) == SumOn(p, 0..a)
All(p) == SumOn(p, 0..(CookieWindow - 1))

\* The passes p of a cookie with the counter c and the revocation r.  The count covers what
\* passed in the current window, and what passed before it, in a window that was over when
\* this one began, is less than the limit: its first request is too old.  Between two windows
\* only the earlier one is left.  A revoked cookie has no counter, and lets none through.
Inside(c, p) ==
  /\ p[c.age] >= 1
  /\ Recent(p, c.age) <= c.count
  /\ All(p) - Recent(p, c.age) < Threshold

Between(p) == p[0] = 0 /\ All(p) < Threshold

Banished(c, r, p) ==
  /\ c = NoCounter
  /\ \A a \in Ages : a < r => p[a] = 0
  /\ All(p) < 2 * Threshold

Bounded(c, r, p) ==
  /\ c.age = Never => c = NoCounter
  /\ r = Never /\ c.age \in Ages => Inside(c, p)
  /\ r = Never /\ c.age \notin Ages => Between(p)
  /\ r # Never => Banished(c, r, p)

BurstInv == \A k \in Cookies : Bounded(counter[k], revoked[k], passed[k])

Revocations == {Never} \cup 0..RevocationTime

LEMMA SumsOfPasses ==
  ASSUME NEW p \in Passes
  PROVE  /\ All(p) \in Nat
         /\ \A a \in Ages : Recent(p, a) \in Nat /\ Recent(p, a) <= All(p) /\ p[a] \in Nat
         /\ 0 \in Ages /\ Recent(p, 0) = p[0]
<1> USE CookieAssumption
<1>1. CookieWindow - 1 \in Nat /\ Ages = 0..(CookieWindow - 1) /\ 0 \in Ages
      BY DEF Ages
<1>2. \A x \in 0..(CookieWindow - 1) : p[x] \in Nat
      BY <1>1 DEF Passes
<1>3. All(p) \in Nat
      BY <1>1, <1>2, SumUpToIsNat DEF All
<1>4. ASSUME NEW a \in Ages PROVE Recent(p, a) \in Nat /\ Recent(p, a) <= All(p)
  <2>1. a \in Nat /\ a \in 0..(CookieWindow - 1) /\ \A x \in 0..a : p[x] \in Nat
        BY <1>1, <1>2
  <2> QED
      BY <1>1, <1>2, <2>1, SumUpToIsNat, SumUpToGrows DEF Recent, All
<1>5. Recent(p, 0) = p[0]
      BY <1>1, <1>2, SumUpToZero DEF Recent
<1> QED
    BY <1>1, <1>2, <1>3, <1>4, <1>5

LEMMA BoundedHolds ==
  ASSUME NEW c \in Counters, NEW r \in Revocations, NEW p \in Passes, Bounded(c, r, p)
  PROVE  All(p) < 2 * Threshold
<1> USE CookieAssumption
<1>1. c.count \in 0..Threshold
      BY DEF Counters
<1>2. All(p) \in Nat
      BY SumsOfPasses
<1>3. CASE r = Never /\ c.age \in Ages
  <2>1. /\ Recent(p, c.age) \in Nat /\ Recent(p, c.age) <= c.count
        /\ All(p) - Recent(p, c.age) < Threshold
        BY <1>3, SumsOfPasses DEF Bounded, Inside
  <2> QED
      BY <1>1, <1>2, <2>1
<1>4. CASE r = Never /\ c.age \notin Ages
      BY <1>2, <1>4 DEF Bounded, Between
<1>5. CASE r # Never
      BY <1>5 DEF Bounded, Banished
<1> QED
    BY <1>3, <1>4, <1>5

\* A request passes.
LEMMA BoundedPass ==
  ASSUME NEW c \in Counters, NEW p \in Passes, Bounded(c, Never, p),
         NEW d, d = IF c = NoCounter \/ c.age >= CookieWindow
                    THEN [count |-> 1, age |-> 0] ELSE [c EXCEPT !.count = @ + 1],
         NEW q, q = [p EXCEPT ![0] = @ + 1]
  PROVE  Bounded(d, Never, q)
<1> USE CookieAssumption
<1>1. /\ 0 \in Ages /\ q \in Passes /\ q[0] = p[0] + 1 /\ p[0] \in Nat
      /\ \A a \in Ages \ {0} : q[a] = p[a]
      BY SumsOfPasses DEF Passes
<1>2. Ages = 0..(CookieWindow - 1) /\ CookieWindow - 1 \in Nat
      BY DEF Ages
<1>3. ASSUME NEW a \in Ages PROVE SumOn(q, 0..a) = SumOn(p, 0..a) + 1
  <2>1. a \in Nat /\ 0 \in 0..a /\ 0..a \subseteq Ages
        BY <1>2
  <2>2. \A x \in 0..a : p[x] \in Nat
        BY <2>1 DEF Passes
  <2>a. IsFiniteSet(0..a)
    <3>1. a \in Int /\ 0 \in Int
          BY <2>1
    <3> QED
        BY ONLY <3>1, FS_Interval
  <2>3. Addends(p, 0..a)
        BY <2>2, <2>a DEF Addends
  <2>4. \A x \in (0..a) \ {0} : q[x] = p[x]
        BY <1>1, <2>1
  <2> QED
      BY <1>1, <2>1, <2>3, <2>4, SumOnOneMore
<1>4. All(q) = All(p) + 1 /\ \A a \in Ages : Recent(q, a) = Recent(p, a) + 1
  <2>1. CookieWindow - 1 \in Ages
        BY <1>2
  <2> QED
      BY <1>3, <2>1 DEF All, Recent
<1>5. /\ All(p) \in Nat /\ Recent(p, 0) = p[0]
      /\ \A a \in Ages : Recent(p, a) \in Nat /\ p[a] \in Nat
      BY SumsOfPasses
<1>6. CASE c.age \in Ages
  <2>1. c # NoCounter /\ ~(c.age >= CookieWindow) /\ c.age # Never
        BY <1>2, <1>6 DEF NoCounter, Never
  <2>2. d.age = c.age /\ d.count = c.count + 1 /\ c.count \in Nat
        BY <2>1 DEF Counters
  <2>3. Inside(c, p)
        BY <1>6 DEF Bounded
  <2>4. q[c.age] >= 1
        BY <1>1, <1>5, <1>6, <2>3 DEF Inside
  <2>a. /\ Recent(p, c.age) \in Nat /\ Recent(q, c.age) = Recent(p, c.age) + 1
        /\ All(p) \in Nat /\ All(q) = All(p) + 1
        /\ Recent(p, c.age) <= c.count /\ All(p) - Recent(p, c.age) < Threshold
        BY <1>4, <1>5, <1>6, <2>3 DEF Inside
  <2>b. Threshold \in Nat
        OBVIOUS
  <2>5. Recent(q, c.age) <= d.count
        BY ONLY <2>2, <2>a
  <2>6. All(q) - Recent(q, c.age) < Threshold
        BY ONLY <2>a, <2>b
  <2> QED
      BY <1>6, <2>1, <2>2, <2>4, <2>5, <2>6 DEF Bounded, Inside
<1>7. CASE c.age \notin Ages
  <2>1. c = NoCounter \/ c.age >= CookieWindow
        BY <1>2, <1>7 DEF Bounded, Counters, NoCounter
  <2>2. d.age = 0 /\ d.count = 1
        BY <2>1
  <2>3. p[0] = 0 /\ All(p) < Threshold
        BY <1>7 DEF Bounded, Between
  <2>a. /\ Recent(p, 0) = 0 /\ Recent(q, 0) = Recent(p, 0) + 1
        /\ All(p) \in Nat /\ All(q) = All(p) + 1 /\ All(p) < Threshold /\ Threshold \in Nat
        BY <1>1, <1>4, <1>5, <2>3
  <2>b. q[0] = 1
        BY <1>1, <2>3
  <2>4. q[0] = 1 /\ Recent(q, 0) = 1 /\ All(q) - Recent(q, 0) < Threshold
        BY ONLY <2>a, <2>b
  <2> QED
      BY <1>1, <2>2, <2>4 DEF Bounded, Inside, Never
<1> QED
    BY <1>6, <1>7

\* A cookie is revoked.
LEMMA BoundedRevoke ==
  ASSUME NEW c \in Counters, NEW p \in Passes, Bounded(c, Never, p)
  PROVE  Bounded(NoCounter, 0, p)
<1>1. Never \in Revocations
      BY DEF Revocations
<1>2. All(p) < 2 * Threshold
      BY <1>1, BoundedHolds
<1>3. \A a \in Ages : ~(a < 0)
      BY DEF Ages
<1> QED
    BY <1>2, <1>3 DEF Bounded, Banished, NoCounter, Never

\* The cleanup goroutine takes a counter whose window is over, and an old revocation.
LEMMA BoundedCleanup ==
  ASSUME NEW c \in Counters, NEW r \in Revocations, NEW p \in Passes, Bounded(c, r, p),
         NEW d, d = IF c.age >= CookieWindow THEN NoCounter ELSE c,
         NEW s, s = IF r >= RevocationTime THEN Never ELSE r
  PROVE  Bounded(d, s, p)
<1> USE CookieAssumption
<1>1. CASE r # Never
  <2>1. d = NoCounter /\ c = NoCounter
        BY <1>1 DEF Bounded, Banished
  <2>2. CASE r >= RevocationTime
    <3>1. \A a \in Ages : a < r
      <4>1. r \in 0..RevocationTime /\ CookieWindow \in Nat \ {0}
            BY <1>1 DEF Revocations
      <4> QED
          BY <2>2, <4>1 DEF Ages, RevocationTime
    <3>2. \A a \in Ages : p[a] = 0
          BY <1>1, <3>1 DEF Bounded, Banished
    <3>3. CookieWindow - 1 \in Nat /\ \A a \in 0..(CookieWindow - 1) : p[a] = 0
          BY <3>2 DEF Ages
    <3>4. All(p) = 0 /\ p[0] = 0
          BY <3>3, SumOnZero DEF All
    <3>5. d.age = Never /\ Never \notin Ages
          BY <2>1 DEF NoCounter, Never, Ages
    <3> QED
        BY <2>1, <2>2, <3>4, <3>5 DEF Bounded, Between
  <2>3. CASE ~(r >= RevocationTime)
        BY <1>1, <2>1, <2>3 DEF Bounded
  <2> QED
      BY <2>2, <2>3
<1>2. CASE r = Never
  <2>1. s = Never
        BY <1>2 DEF Never, RevocationTime
  <2>2. CASE c.age >= CookieWindow
    <3>1. c.age \notin Ages /\ d = NoCounter /\ d.age = Never /\ Never \notin Ages
          BY <2>2 DEF NoCounter, Never, Ages
    <3> QED
        BY <1>2, <2>1, <3>1 DEF Bounded
  <2>3. CASE ~(c.age >= CookieWindow)
        BY <1>2, <2>1, <2>3
  <2> QED
      BY <2>2, <2>3
<1> QED
    BY <1>1, <1>2

\* Time passes.
LEMMA BoundedTick ==
  ASSUME NEW c \in Counters, NEW r \in Revocations, NEW p \in Passes, Bounded(c, r, p),
         NEW d, d = [c EXCEPT !.age = Older(@, CookieWindow)],
         NEW s, s = Older(r, RevocationTime),
         NEW q, q = [a \in Ages |-> IF a = 0 THEN 0 ELSE p[a - 1]]
  PROVE  Bounded(d, s, q)
<1> USE CookieAssumption
<1> DEFINE last == CookieWindow - 1
<1>1. Ages = 0..last /\ last \in Nat /\ CookieWindow = last + 1 /\ 0 \in Ages
      BY DEF Ages
<1>2. q \in Passes /\ q[0] = 0 /\ \A a \in Ages \ {0} : a - 1 \in Ages /\ q[a] = p[a - 1]
  <2>1. \A a \in Ages \ {0} : a - 1 \in Ages /\ p[a - 1] \in Nat
        BY <1>1 DEF Passes
  <2> QED
      BY <1>1, <2>1 DEF Passes
<1>3. /\ All(p) \in Nat /\ All(q) \in Nat /\ Recent(q, 0) = 0
      /\ \A a \in Ages : /\ Recent(p, a) \in Nat /\ Recent(p, a) <= All(p) /\ p[a] \in Nat
                         /\ Recent(q, a) \in Nat
      BY <1>2, SumsOfPasses
<1>4. ASSUME NEW a \in Nat, a + 1 \in Ages PROVE Recent(q, a + 1) = Recent(p, a)
  <2>1. \A x \in 0..a : x \in Ages /\ p[x] \in Nat
        BY <1>1, <1>4 DEF Passes
  <2>2. \A x \in 1..(a + 1) : q[x] = p[x - 1]
        BY <1>1, <1>2, <1>4
  <2> QED
      BY <1>2, <2>1, <2>2, SumUpToShifts DEF Recent
\* All that is left is what was not of the greatest age.
<1>5. All(q) + p[last] = All(p)
  <2>1. last \in Ages
        BY <1>1
  <2>2. CASE last = 0
    <3>1. All(q) = Recent(q, 0) /\ All(p) = Recent(p, 0) /\ Recent(p, 0) = p[0]
          BY <2>2, SumsOfPasses DEF All, Recent
    <3> QED
        BY <1>3, <2>2, <3>1
  <2>3. CASE last # 0
    <3>1. last - 1 \in Nat /\ (last - 1) + 1 = last /\ last - 1 \in Ages
          BY <1>1, <2>3
    <3>2. All(q) = Recent(p, last - 1)
      <4>1. Recent(q, (last - 1) + 1) = Recent(p, last - 1)
            BY <1>4, <2>1, <3>1
      <4> QED
          BY <3>1, <4>1 DEF All, Recent
    <3>3. SumOn(p, 0..((last - 1) + 1)) = SumOn(p, 0..(last - 1)) + p[(last - 1) + 1]
      <4>1. \A x \in 0..((last - 1) + 1) : p[x] \in Nat
            BY <1>1, <3>1 DEF Passes
      <4> HIDE DEF last
      <4> QED
          BY <3>1, <4>1, SumUpToNext
    <3> QED
        BY <3>1, <3>2, <3>3 DEF All, Recent
  <2> QED
      BY <2>2, <2>3
<1>6. All(q) <= All(p)
  <2>1. p[last] \in Nat
        BY <1>1, <1>3
  <2> QED
      BY <1>3, <1>5, <2>1
<1> HIDE DEF last
<1>7. r \in {Never} \cup Nat /\ c.age \in {Never} \cup 0..CookieWindow
      BY DEF Revocations, RevocationTime, Counters
<1>8. d.age = Older(c.age, CookieWindow) /\ d.count = c.count /\ c.count \in 0..Threshold
      BY DEF Counters
<1>9. (d.age = Never <=> c.age = Never) /\ (c = NoCounter => d = NoCounter)
  <2>1. d.age = Never <=> c.age = Never
        BY <1>7, <1>8 DEF Older, Never
  <2>2. c = NoCounter => d = NoCounter
        BY DEF Older, NoCounter, Never
  <2> QED
      BY <2>1, <2>2
<1>10. CASE r # Never
  <2>1. s # Never /\ s \in Nat /\ (s = r + 1 \/ (s = r /\ r = RevocationTime)) /\ r \in Nat
        BY <1>7, <1>10 DEF Older, Never
  <2>2. ASSUME NEW a \in Ages, a < s PROVE q[a] = 0
    <3>1. CASE a = 0
          BY <1>2, <3>1
    <3>2. CASE a # 0
      <4>1. a - 1 \in Ages /\ q[a] = p[a - 1] /\ a \in Nat
            BY <1>1, <1>2, <3>2
      <4>2. a - 1 < r
            BY <2>1, <2>2, <4>1
      <4> QED
          BY <1>10, <4>1, <4>2 DEF Bounded, Banished
    <3> QED
        BY <3>1, <3>2
  <2>3. All(p) < 2 * Threshold /\ c = NoCounter
        BY <1>10 DEF Bounded, Banished
  <2>4. All(q) < 2 * Threshold
        BY <1>3, <1>6, <2>3
  <2> QED
      BY <1>9, <2>1, <2>2, <2>3, <2>4 DEF Bounded, Banished
<1>11. CASE r = Never
  <2>1. s = Never
        BY <1>11 DEF Older
  <2>2. CASE c.age \in Ages
    <3>1. c.age \in Nat /\ c.age <= last /\ d.age = c.age + 1 /\ c.age # Never
          BY <1>1, <1>8, <2>2 DEF Older, Never
    <3>2. /\ p[c.age] >= 1 /\ Recent(p, c.age) <= c.count /\ p[c.age] \in Nat
          /\ All(p) - Recent(p, c.age) < Threshold /\ Recent(p, c.age) \in Nat
          BY <1>3, <1>11, <2>2 DEF Bounded, Inside
    <3>3. CASE d.age \in Ages
      <4>1. Recent(q, d.age) = Recent(p, c.age) /\ q[d.age] = p[c.age]
        <5>1. d.age # 0 /\ d.age - 1 = c.age
              BY <3>1
        <5> QED
            BY <1>2, <1>4, <3>1, <3>3, <5>1
      <4>2. All(q) - Recent(q, d.age) < Threshold
            BY ONLY <1>3, <1>6, <3>2, <4>1, CookieAssumption
      <4>3. q[d.age] >= 1 /\ Recent(q, d.age) <= d.count
            BY <1>8, <3>2, <4>1
      <4> QED
          BY <1>9, <2>1, <3>1, <3>3, <4>2, <4>3 DEF Bounded, Inside
    <3>4. CASE d.age \notin Ages
      <4>1. c.age = last
            BY <1>1, <3>1, <3>4
      <4>2. All(p) = Recent(p, c.age)
            BY <4>1 DEF All, Recent, last
      <4>3. c.count \in Nat /\ c.count <= Threshold
            BY <1>8
      <4>4. All(q) + p[c.age] = All(p)
            BY <1>5, <4>1
      <4>5. All(q) < Threshold
            BY ONLY <1>3, <3>2, <4>2, <4>3, <4>4, CookieAssumption
      <4> QED
          BY <1>2, <1>9, <2>1, <3>1, <3>4, <4>5 DEF Bounded, Between
    <3> QED
        BY <3>3, <3>4
  <2>3. CASE c.age \notin Ages
    <3>1. d.age \notin Ages
          BY <1>1, <1>7, <1>8, <2>3 DEF Older, Never
    <3>2. All(p) < Threshold
          BY <1>11, <2>3 DEF Bounded, Between
    <3>3. All(q) < Threshold
          BY <1>3, <1>6, <3>2
    <3>4. d.age = Never => d = NoCounter
          BY <1>9 DEF Bounded
    <3> QED
        BY <1>2, <2>1, <3>1, <3>3, <3>4 DEF Bounded, Between
  <2> QED
      BY <2>2, <2>3
<1> QED
    BY <1>10, <1>11

LEMMA BurstTypes ==
  ASSUME CookieTypeOK, NEW k \in Cookies
  PROVE  counter[k] \in Counters /\ revoked[k] \in Revocations /\ passed[k] \in Passes
BY DEF CookieTypeOK, Counters, Revocations, Passes

LEMMA BurstInit == CookieInit => BurstInv
<1> SUFFICES ASSUME CookieInit, NEW k \in Cookies
             PROVE  Bounded(counter[k], revoked[k], passed[k])
    BY DEF BurstInv
<1> USE CookieAssumption
<1>1. counter[k] = NoCounter /\ revoked[k] = Never /\ passed[k] = NothingPassed
      BY DEF CookieInit
<1>2. NoCounter.age = Never /\ Never \notin Ages
      BY DEF NoCounter, Never, Ages
<1>3. CookieWindow - 1 \in Nat /\ \A a \in 0..(CookieWindow - 1) : NothingPassed[a] = 0
      BY DEF NothingPassed, Ages
<1>4. All(NothingPassed) = 0 /\ NothingPassed[0] = 0
      BY <1>3, SumOnZero DEF All
<1> QED
    BY <1>1, <1>2, <1>4 DEF Bounded, Between

LEMMA BurstStep == CookieTypeOK /\ BurstInv /\ [CookieNext]_cookieVars => BurstInv'
<1> SUFFICES ASSUME CookieTypeOK, BurstInv, [CookieNext]_cookieVars, NEW k \in Cookies
             PROVE  Bounded(counter'[k], revoked'[k], passed'[k])
    BY DEF BurstInv
<1>1. /\ Bounded(counter[k], revoked[k], passed[k])
      /\ counter[k] \in Counters /\ revoked[k] \in Revocations /\ passed[k] \in Passes
      BY BurstTypes DEF BurstInv
<1>2. CASE UNCHANGED <<counter, revoked, passed>>
      BY <1>1, <1>2
<1>3. ASSUME NEW t \in CookieThreads, Revoke(t)
      PROVE  Bounded(counter'[k], revoked'[k], passed'[k])
  <2>1. CASE using[t] = k
    <3>1. counter'[k] = NoCounter /\ revoked'[k] = 0 /\ passed'[k] = passed[k] /\ revoked[k] = Never
          BY <1>3, <2>1 DEF Revoke, CookieTypeOK
    <3> QED
        BY <1>1, <3>1, BoundedRevoke
  <2>2. CASE using[t] # k
    <3>1. counter'[k] = counter[k] /\ revoked'[k] = revoked[k] /\ passed'[k] = passed[k]
          BY <1>3, <2>2 DEF Revoke, CookieTypeOK
    <3> QED
        BY <1>1, <3>1
  <2> QED
      BY <2>1, <2>2
<1>4. ASSUME NEW t \in CookieThreads, Pass(t)
      PROVE  Bounded(counter'[k], revoked'[k], passed'[k])
  <2>1. CASE using[t] = k
    <3>1. /\ counter'[k] = Counted(k) /\ revoked'[k] = revoked[k] /\ revoked[k] = Never
          /\ passed'[k] = [passed[k] EXCEPT ![0] = @ + 1]
          BY <1>4, <2>1 DEF Pass, CookieTypeOK
    <3> QED
        BY <1>1, <3>1, BoundedPass DEF Counted
  <2>2. CASE using[t] # k
    <3>1. counter'[k] = counter[k] /\ revoked'[k] = revoked[k] /\ passed'[k] = passed[k]
          BY <1>4, <2>2 DEF Pass, CookieTypeOK
    <3> QED
        BY <1>1, <3>1
  <2> QED
      BY <2>1, <2>2
<1>5. CASE Cleanup
  <2>1. /\ counter'[k] = IF counter[k].age >= CookieWindow THEN NoCounter ELSE counter[k]
        /\ revoked'[k] = IF revoked[k] >= RevocationTime THEN Never ELSE revoked[k]
        /\ passed'[k] = passed[k]
        BY <1>5 DEF Cleanup, EndedWindows, OldRevocations, historyVars
  <2> QED
      BY <1>1, <2>1, BoundedCleanup
<1>6. CASE CookieTick
  <2>1. /\ counter'[k] = [counter[k] EXCEPT !.age = Older(@, CookieWindow)]
        /\ revoked'[k] = Older(revoked[k], RevocationTime)
        /\ passed'[k] = [a \in Ages |-> IF a = 0 THEN 0 ELSE passed[k][a - 1]]
        BY <1>6 DEF CookieTick
  <2> QED
      BY <1>1, <2>1, BoundedTick
<1> QED
    BY <1>2, <1>3, <1>4, <1>5, <1>6
    DEF CookieNext, CookieStep, PassChallenge, IsRevoked, ValidateCookie, RecordAndCheck, Reject,
        RefreshCookie, cookieVars, limiterVars, historyVars

\* Of any CookieWindow ticks fewer than twice the limit of requests get through with one
\* cookie, for any limit and window, any number of requests at once and whatever the cleanup
\* goroutine sweeps between them (RecordAndCheck and Cleanup of ratelimit/cookie_limiter.go):
\* a fixed window lets a burst straddle two of them, and no more than that.
THEOREM BurstsStayBounded == CookieSpec => []BurstBounded
<1>1. CookieTypeOK /\ BurstInv => BurstBounded
  <2> SUFFICES ASSUME CookieTypeOK, BurstInv, NEW k \in Cookies
               PROVE  SumFunction(passed[k]) < 2 * Threshold
      BY DEF BurstBounded
  <2>1. All(passed[k]) < 2 * Threshold
        BY BurstTypes, BoundedHolds DEF BurstInv
  <2>2. DOMAIN passed[k] = 0..(CookieWindow - 1)
        BY DEF CookieTypeOK, Ages
  <2>3. SumFunction(passed[k]) = SumFunctionOnSet(passed[k], DOMAIN passed[k])
        BY DEF SumFunction
  <2>4. SumFunctionOnSet(passed[k], DOMAIN passed[k]) = SumOn(passed[k], DOMAIN passed[k])
        BY SumOnIsSum
  <2> QED
      BY <2>1, <2>2, <2>3, <2>4 DEF All
<1>2. CookieSpec => []BurstInv
      BY BurstInit, BurstStep, CookieTypes, PTL DEF CookieSpec
<1> QED
    BY <1>1, <1>2, CookieTypes, PTL

-----------------------------------------------------------------------------
(* Tokens *)

Judges(g, t) == chPc[g].step = "judge" /\ chPc[g].token = t
Unearned(t) == \A v \in Visitors : chEarned[t][v] = 0

TokenTypes ==
  /\ chEarned \in [Tokens -> [Visitors -> Nat]]
  /\ chIssued \in [Tokens -> Visitors \cup {NoToken}]
  /\ \A t \in DOMAIN chStore : t \in Tokens /\ chStore[t] \in Entry
  /\ DOMAIN chPc = ChThreads
  /\ \A g \in ChThreads :
       /\ chPc[g].step \in {"idle", "bypass?", "record", "issue", "judge"}
       /\ chPc[g].step # "idle" => chPc[g].ip \in Visitors /\ chPc[g].kind \in Kinds
       /\ chPc[g].step = "judge" => chPc[g].token \in Tokens

\* A token in the store is unspent: it names the address that it was issued for, has
\* earned nothing, and no answer that names it is being judged.
Unspent ==
  \A t \in DOMAIN chStore :
    /\ chIssued[t] = chStore[t].ip /\ chIssued[t] \in Visitors
    /\ Unearned(t)
    /\ \A g \in ChThreads : ~Judges(g, t)

\* A token whose answer is being judged is judged once, for the address it was issued for.
JudgedOnce ==
  \A g \in ChThreads, t \in Tokens :
    Judges(g, t) =>
      /\ chIssued[t] = chPc[g].ip
      /\ Unearned(t)
      /\ \A h \in ChThreads : Judges(h, t) => h = g

TokenInv == TokenTypes /\ Unspent /\ JudgedOnce /\ EarnedOnce

LEMMA TokenInit == ChallengeInit => TokenInv
<1> SUFFICES ASSUME ChallengeInit PROVE TokenInv
  OBVIOUS
<1>1. \A g \in ChThreads : chPc[g].step = "idle"
  BY DEF ChallengeInit, Idle
<1>2. DOMAIN chStore = {}
  BY DEF ChallengeInit
<1>3. TokenTypes
  BY <1>1, <1>2 DEF ChallengeInit, TokenTypes
<1>4. EarnedOnce
  BY ChallengeAssumption DEF ChallengeInit, EarnedOnce
<1>5. QED BY <1>1, <1>2, <1>3, <1>4 DEF TokenInv, Unspent, JudgedOnce, Judges

LEMMA TokenStep == TokenInv /\ [ChallengeNext]_chVars => TokenInv'
<1> SUFFICES ASSUME TokenInv, [ChallengeNext]_chVars PROVE TokenInv'
  OBVIOUS
<1> USE DEF TokenInv
\* A goroutine that neither begins nor ends a judgement, while the store only shrinks and
\* keeps what it keeps.
<1>0. ASSUME UNCHANGED <<chIssued, chEarned>>,
             DOMAIN chStore' \subseteq DOMAIN chStore,
             \A t \in DOMAIN chStore' : chStore'[t].ip = chStore[t].ip,
             \A g \in ChThreads, t \in Tokens : Judges(g, t)' => Judges(g, t) /\ chPc'[g].ip = chPc[g].ip,
             TokenTypes'
      PROVE  TokenInv'
  <2>1. Unspent'
    <3> SUFFICES ASSUME NEW t \in DOMAIN chStore'
                 PROVE  /\ chIssued'[t] = chStore'[t].ip /\ chIssued'[t] \in Visitors
                        /\ Unearned(t)' /\ \A g \in ChThreads : ~Judges(g, t)'
      BY DEF Unspent
    <3>1. t \in DOMAIN chStore /\ t \in Tokens
      BY <1>0 DEF TokenTypes
    <3>2. QED BY <1>0, <3>1 DEF Unspent, Unearned
  <2>2. JudgedOnce'
    BY <1>0 DEF JudgedOnce, Unearned
  <2>3. EarnedOnce'
    BY <1>0 DEF EarnedOnce
  <2>4. QED BY <1>0, <2>1, <2>2, <2>3
<1>1. ASSUME NEW g \in ChThreads, NEW v \in Visitors, PageAsked(g, v) PROVE TokenInv'
  BY <1>0, <1>1 DEF PageAsked, Becomes, Judges, TokenTypes
<1>2. ASSUME NEW g \in ChThreads, ShouldBypass(g) PROVE TokenInv'
  BY <1>0, <1>2 DEF ShouldBypass, At, Becomes, Judges, TokenTypes, Idle
<1>3. ASSUME NEW g \in ChThreads, Record(g) PROVE TokenInv'
  BY <1>0, <1>3 DEF Record, At, Becomes, Judges, TokenTypes
<1>4. ASSUME StoreCleanup \/ LoopCleanup \/ ChTick \/ UNCHANGED chVars PROVE TokenInv'
  <2>1. StoreCleanup => TokenInv'
    BY <1>0 DEF StoreCleanup, Restrict, Judges, TokenTypes
  <2>2. LoopCleanup \/ UNCHANGED chVars => TokenInv'
    BY <1>0 DEF LoopCleanup, Judges, TokenTypes, chVars
  <2>3. ASSUME ChTick PROVE TokenInv'
    <3>1. ASSUME NEW t \in DOMAIN chStore
          PROVE  chStore'[t] \in Entry /\ chStore'[t].ip = chStore[t].ip
      <4> DEFINE item == chStore[t]
                 older == IF item.age > item.ttl THEN item.age ELSE item.age + 1
      <4>1. /\ item \in Entry /\ item.ttl \in 0..MaxTTL /\ item.age \in 0..(MaxTTL + 1)
            /\ MaxTTL \in Nat
        BY ChallengeAssumption DEF TokenTypes, Entry, MaxTTL
      <4>2. older \in 0..(MaxTTL + 1)
        BY <4>1
      <4>3. chStore'[t] = [item EXCEPT !.age = older]
        BY <2>3 DEF ChTick
      <4> HIDE DEF item, older
      <4>4. [item EXCEPT !.age = older] \in Entry /\ [item EXCEPT !.age = older].ip = item.ip
        BY <4>1, <4>2 DEF Entry
      <4>5. QED BY <4>3, <4>4 DEF item
    <3>2. DOMAIN chStore' = DOMAIN chStore /\ UNCHANGED <<chPc, chIssued, chEarned>>
      BY <2>3 DEF ChTick
    <3>3. TokenTypes'
      BY <3>1, <3>2 DEF TokenTypes
    <3>4. QED BY <1>0, <3>1, <3>2, <3>3 DEF Judges
  <2>4. QED BY <1>4, <2>1, <2>2, <2>3
<1>5. ASSUME NEW g \in ChThreads, NEW t \in Tokens, Issue(g, t) PROVE TokenInv'
  <2> DEFINE v == chPc[g].ip
             item == Item(chPc[g].kind, chPc[g].ip)
  <2>1. /\ v \in Visitors /\ chIssued[t] = NoToken /\ Unearned(t)
        /\ \A h \in ChThreads : ~Judges(h, t)
        /\ t \notin DOMAIN chStore
    <3>1. v \in Visitors /\ chIssued[t] = NoToken /\ NoToken \notin Visitors
      BY <1>5, ChallengeAssumption DEF Issue, At, TokenTypes
    <3>2. Unearned(t)
      <4>1. \A w \in Visitors : chEarned[t][w] \in Nat /\ chEarned[t][w] <= 0
        BY <3>1 DEF EarnedOnce, TokenTypes
      <4>2. QED BY <4>1 DEF Unearned
    <3>3. \A h \in ChThreads : ~Judges(h, t)
      BY <3>1 DEF JudgedOnce, Judges, TokenTypes
    <3>4. QED BY <3>1, <3>2, <3>3 DEF Unspent
  <2>2. /\ chIssued' = [chIssued EXCEPT ![t] = v]
        /\ chStore' = [u \in DOMAIN chStore \cup {t} |-> IF u = t THEN item ELSE chStore[u]]
        /\ chPc' = [chPc EXCEPT ![g] = Idle] /\ chEarned' = chEarned /\ chPc[g].step = "issue"
    BY <1>5 DEF Issue, Becomes, At
  <2>3. item \in Entry
    <3>1. \A k \in Kinds : TTLOf[k] \in 0..MaxTTL
      BY ChallengeAssumption DEF Kinds, TTLOf, MaxTTL
    <3>2. 0 \in 0..(MaxTTL + 1)
      BY ChallengeAssumption DEF MaxTTL
    <3>3. chPc[g].kind \in Kinds
      BY <1>5 DEF Issue, At, TokenTypes
    <3>4. QED BY <2>1, <3>1, <3>2, <3>3 DEF Item, Entry
  <2>4. item.ip = v
    BY DEF Item
  <2> HIDE DEF item
  <2>5. \A h \in ChThreads, u \in Tokens : Judges(h, u)' => Judges(h, u) /\ chPc'[h] = chPc[h]
    BY <2>2 DEF Judges, Idle, TokenTypes
  <2>6. TokenTypes'
    BY <2>1, <2>2, <2>3 DEF TokenTypes, Idle
  <2>7. Unspent'
    BY <2>1, <2>2, <2>4, <2>5 DEF Unspent, Unearned, TokenTypes
  <2>8. JudgedOnce'
    BY <2>1, <2>2, <2>5 DEF JudgedOnce, Unearned, TokenTypes
  <2>9. EarnedOnce'
    BY <2>1, <2>2 DEF EarnedOnce, Unearned, TokenTypes
  <2>10. QED BY <2>6, <2>7, <2>8, <2>9
<1>6. ASSUME NEW g \in ChThreads, NEW v \in Visitors, NEW k \in Kinds, NEW t \in Tokens,
             Take(g, v, k, t)
      PROVE  TokenInv'
  <2>1. /\ DOMAIN chStore' = DOMAIN chStore \ {t}
        /\ \A u \in DOMAIN chStore' : chStore'[u] = chStore[u]
        /\ chIssued' = chIssued /\ chEarned' = chEarned
        /\ chPc[g].step = "idle"
    BY <1>6 DEF Take, Without, Restrict, At
  <2>2. CASE chPc' = chPc
    BY <1>0, <2>1, <2>2 DEF Judges, TokenTypes
  <2>3. CASE t \in DOMAIN chStore /\ Good(t, v) /\ chPc' # chPc
    <3>1. chPc' = [chPc EXCEPT ![g] = [step |-> "judge", ip |-> v, kind |-> k, token |-> t,
                                       entry |-> chStore[t]]]
      BY <1>6, <2>3 DEF Take, Becomes
    <3>2. chIssued[t] = v /\ Unearned(t) /\ \A h \in ChThreads : ~Judges(h, t)
      BY <2>3 DEF Unspent, Good
    <3>3. \A h \in ChThreads, u \in Tokens :
            Judges(h, u)' => \/ Judges(h, u) /\ chPc'[h] = chPc[h] /\ u # t /\ h # g
                             \/ h = g /\ u = t /\ chPc'[h].ip = v
      BY <2>1, <3>1, <3>2 DEF Judges, TokenTypes
    <3>4. TokenTypes'
      BY <2>1, <3>1 DEF TokenTypes
    <3>5. Unspent'
      BY <2>1, <3>2, <3>3 DEF Unspent, Unearned, TokenTypes
    <3>6. JudgedOnce'
      BY <2>1, <3>2, <3>3 DEF JudgedOnce, Unearned
    <3>7. EarnedOnce'
      BY <2>1 DEF EarnedOnce
    <3>8. QED BY <3>4, <3>5, <3>6, <3>7
  <2>4. QED BY <1>6, <2>2, <2>3 DEF Take
<1>7. ASSUME NEW g \in ChThreads, Judge(g) PROVE TokenInv'
  <2> DEFINE t == chPc[g].token
             v == chPc[g].ip
  <2>1. /\ Judges(g, t) /\ t \in Tokens /\ v \in Visitors
        /\ chPc' = [chPc EXCEPT ![g] = Idle] /\ chStore' = chStore /\ chIssued' = chIssued
    BY <1>7 DEF Judge, Becomes, At, Judges, TokenTypes
  <2>2. /\ chIssued[t] = v /\ Unearned(t) /\ \A h \in ChThreads : Judges(h, t) => h = g
        /\ t \notin DOMAIN chStore
    BY <2>1 DEF JudgedOnce, Unspent
  <2>3. \A h \in ChThreads, u \in Tokens :
          Judges(h, u)' => Judges(h, u) /\ chPc'[h] = chPc[h] /\ u # t
    BY <2>1, <2>2 DEF Judges, Idle, TokenTypes
  <2>4. CASE chEarned' = chEarned
    BY <1>0, <2>1, <2>3, <2>4 DEF TokenTypes, Idle
  <2>5. CASE chEarned' = [chEarned EXCEPT ![t][v] = @ + 1]
    <3>1. /\ chEarned' \in [Tokens -> [Visitors -> Nat]]
          /\ \A u \in Tokens \ {t} : chEarned'[u] = chEarned[u]
          /\ \A w \in Visitors : chEarned'[t][w] = IF w = v THEN 1 ELSE 0
      BY <2>1, <2>2, <2>5 DEF TokenTypes, Unearned
    <3> HIDE DEF t, v
    <3>2. TokenTypes'
      BY <2>1, <3>1 DEF TokenTypes, Idle
    <3>3. Unspent'
      BY <2>1, <2>2, <2>3, <3>1 DEF Unspent, Unearned, TokenTypes
    <3>4. JudgedOnce'
      BY <2>1, <2>2, <2>3, <3>1 DEF JudgedOnce, Unearned
    <3>5. EarnedOnce'
      BY <2>1, <2>2, <3>1 DEF EarnedOnce
    <3>6. QED BY <3>2, <3>3, <3>4, <3>5
  <2>6. QED BY <1>7, <2>4, <2>5 DEF Judge
<1>8. QED BY <1>1, <1>2, <1>3, <1>4, <1>5, <1>6, <1>7 DEF ChallengeNext

\* Whatever requests, answers and cleanups interleave, a token is worth one access cookie
\* at most, for the visitor whose page carried it.
THEOREM TokensEarnOnce == ChallengeSpec => []EarnedOnce
<1>1. TokenInv => EarnedOnce
  BY DEF TokenInv
<1>2. QED BY <1>1, TokenInit, TokenStep, PTL DEF ChallengeSpec

-----------------------------------------------------------------------------
(* The pages that the loop detector keeps *)

PageAges == 0..LoopAge

\* What is outdated among pages in order are the first ones.
LEMMA OutdatedComeFirst ==
  ASSUME NEW ages \in Seq(PageAges), InOrder(ages)
  PROVE  /\ OutdatedPages(ages) \in 0..Len(ages)
         /\ {i \in DOMAIN ages : ages[i] >= LoopWindow} = 1..OutdatedPages(ages)
<1> DEFINE D == {i \in DOMAIN ages : ages[i] >= LoopWindow}
           c == Cardinality(D)
<1>1. Len(ages) \in Nat /\ DOMAIN ages = 1..Len(ages) /\ \A i \in DOMAIN ages : ages[i] \in Nat
      BY ChallengeAssumption DEF PageAges
<1>2. D \in SUBSET (1..Len(ages)) /\ IsFiniteSet(1..Len(ages)) /\ Cardinality(1..Len(ages)) = Len(ages)
  <2>1. IsFiniteSet(1..Len(ages)) /\ Cardinality(1..Len(ages)) = Len(ages)
    <3>1. 1 \in Int /\ Len(ages) \in Int
          BY <1>1
    <3>2. /\ IsFiniteSet(1..Len(ages))
          /\ Cardinality(1..Len(ages)) = IF 1 > Len(ages) THEN 0 ELSE Len(ages) - 1 + 1
          BY ONLY <3>1, FS_Interval
    <3> HIDE DEF D
    <3> QED
        BY <1>1, <3>2
  <2>2. D \in SUBSET (1..Len(ages))
        BY <1>1
  <2> QED
      BY <2>1, <2>2, Zenon
<1>3. IsFiniteSet(D) /\ c <= Len(ages)
      BY <1>2, FS_Subset
<1>4. c \in Nat
      BY <1>3, FS_CardinalityType
<1>5. ASSUME NEW i \in D PROVE i \in 1..c
  <2>1. i \in 1..Len(ages)
        BY <1>2
  <2>2. ASSUME NEW j \in 1..i PROVE j \in D
    <3>1. j \in DOMAIN ages /\ i \in DOMAIN ages /\ j <= i /\ ages[i] >= LoopWindow
          BY <1>1, <2>1
    <3>2. ages[j] >= ages[i]
          BY <3>1 DEF InOrder
    <3> QED
        BY <1>1, <3>1, <3>2, ChallengeAssumption
  <2>3. 1..i \in SUBSET D
        BY <2>2
  <2>4. Cardinality(1..i) <= c
        BY <1>3, <2>3, FS_Subset
  <2>5. Cardinality(1..i) = i
        BY <2>1, FS_Interval
  <2> HIDE DEF c
  <2> QED
      BY <1>4, <2>1, <2>4, <2>5
<1>6. D = 1..c
  <2>1. D \in SUBSET (1..c)
        BY <1>5
  <2>2. IsFiniteSet(1..c) /\ Cardinality(1..c) = c
        BY <1>4, FS_Interval
  <2> QED
      BY <2>1, <2>2, FS_Subset
<1> HIDE DEF D
<1>7. c = OutdatedPages(ages)
      BY DEF OutdatedPages, D
<1> HIDE DEF c
<1> QED
    BY <1>1, <1>3, <1>4, <1>6, <1>7 DEF D

\* Record keeps those in the window, all of them and in order.
LEMMA FreshPagesAre ==
  ASSUME NEW ages \in Seq(PageAges), InOrder(ages)
  PROVE  /\ FreshPages(ages) \in Seq(PageAges) /\ Len(FreshPages(ages)) <= Len(ages)
         /\ InOrder(FreshPages(ages))
         /\ \A i \in DOMAIN FreshPages(ages) : FreshPages(ages)[i] < LoopWindow
         /\ Len(FreshPages(ages)) = Len(ages) - OutdatedPages(ages)
<1> DEFINE d == OutdatedPages(ages)
           fresh == SubSeq(ages, d + 1, Len(ages))
<1>1. Len(ages) \in Nat /\ DOMAIN ages = 1..Len(ages) /\ \A i \in 1..Len(ages) : ages[i] \in PageAges
      OBVIOUS
<1>2. d \in 0..Len(ages) /\ {i \in DOMAIN ages : ages[i] >= LoopWindow} = 1..d
      BY OutdatedComeFirst
<1> HIDE DEF d
<1>3. d + 1 \in Int /\ Len(ages) \in Int /\ \A i \in (d + 1)..Len(ages) : ages[i] \in PageAges
      BY <1>1, <1>2
<1>4. /\ fresh \in Seq(PageAges)
      /\ Len(fresh) = IF d + 1 <= Len(ages) THEN Len(ages) - (d + 1) + 1 ELSE 0
      /\ \A i \in 1..(Len(ages) - (d + 1) + 1) : fresh[i] = ages[(d + 1) + i - 1]
      BY <1>3, SubSeqProperties
<1> HIDE DEF fresh
<1>5. Len(fresh) = Len(ages) - d /\ DOMAIN fresh = 1..Len(fresh)
  <2>1. d \in Nat /\ d <= Len(ages)
        BY <1>1, <1>2
  <2>2. Len(fresh) = Len(ages) - d
    <3>1. Len(fresh) = IF d + 1 <= Len(ages) THEN Len(ages) - (d + 1) + 1 ELSE 0
          BY <1>4
    <3>2. Len(ages) \in Nat
          BY <1>1
    <3> QED
        BY ONLY <2>1, <3>1, <3>2
  <2>3. DOMAIN fresh = 1..Len(fresh)
        BY <1>4
  <2> QED
      BY <2>2, <2>3
<1>6. \A i \in DOMAIN fresh : i \in Int /\ d + i \in DOMAIN ages /\ fresh[i] = ages[d + i]
  <2> SUFFICES ASSUME NEW i \in 1..(Len(ages) - d)
               PROVE  i \in Int /\ d + i \in 1..Len(ages) /\ fresh[i] = ages[d + i]
      BY <1>1, <1>5
  <2>1. d \in Nat /\ d <= Len(ages) /\ i \in Nat
        BY <1>1, <1>2
  <2>2. i \in 1..(Len(ages) - (d + 1) + 1) /\ (d + 1) + i - 1 = d + i
        BY <1>1, <2>1
  <2>3. fresh[i] = ages[(d + 1) + i - 1]
        BY <1>4, <2>2
  <2>4. d + i \in 1..Len(ages)
        BY <1>1, <2>1
  <2> QED
      BY <2>1, <2>2, <2>3, <2>4
<1>7. InOrder(fresh)
      BY <1>2, <1>6 DEF InOrder
<1>8. \A i \in DOMAIN fresh : fresh[i] < LoopWindow
  <2> SUFFICES ASSUME NEW i \in DOMAIN fresh PROVE fresh[i] < LoopWindow
      OBVIOUS
  <2>1. d + i \in DOMAIN ages /\ d + i \notin 1..d
        BY <1>2, <1>5, <1>6
  <2>2. ~(ages[d + i] >= LoopWindow) /\ ages[d + i] \in PageAges
        BY <1>1, <1>2, <2>1
  <2> QED
      BY <1>6, <2>2, ChallengeAssumption DEF PageAges
<1>9. FreshPages(ages) = fresh
      BY DEF FreshPages, fresh, d
<1>10. d = OutdatedPages(ages)
      BY DEF d
<1> QED
    BY <1>1, <1>2, <1>4, <1>5, <1>7, <1>8, <1>9, <1>10

LEMMA PageAppended ==
  ASSUME NEW ages \in Seq(PageAges), InOrder(ages)
  PROVE  /\ Append(ages, 0) \in Seq(PageAges) /\ InOrder(Append(ages, 0))
         /\ Len(Append(ages, 0)) = Len(ages) + 1
<1>1. /\ Len(ages) \in Nat /\ DOMAIN ages = 1..Len(ages) /\ 0 \in PageAges
      /\ \A i \in DOMAIN ages : ages[i] \in Nat
      BY ChallengeAssumption DEF PageAges
<1> DEFINE more == Append(ages, 0)
<1>2. /\ more \in Seq(PageAges) /\ Len(more) = Len(ages) + 1
      /\ \A i \in 1..Len(ages) : more[i] = ages[i]
      /\ more[Len(ages) + 1] = 0
      BY <1>1
<1> HIDE DEF more
<1>3. InOrder(more)
  <2> SUFFICES ASSUME NEW i \in 1..(Len(ages) + 1), NEW j \in 1..(Len(ages) + 1), i <= j
               PROVE  more[i] >= more[j]
      BY <1>2 DEF InOrder
  <2>1. CASE j = Len(ages) + 1
        BY <1>1, <1>2, <2>1
  <2>2. CASE j # Len(ages) + 1
    <3>1. i \in 1..Len(ages) /\ j \in 1..Len(ages)
          BY <1>1, <2>2
    <3> QED
        BY <1>1, <1>2, <3>1 DEF InOrder
  <2> QED
      BY <2>1, <2>2
<1> QED
    BY <1>2, <1>3 DEF more

LEMMA PagesOlder ==
  ASSUME NEW ages \in Seq(PageAges), InOrder(ages)
  PROVE  LET older == [i \in DOMAIN ages |-> IF ages[i] = LoopAge THEN LoopAge ELSE ages[i] + 1]
         IN  older \in Seq(PageAges) /\ InOrder(older) /\ Len(older) = Len(ages)
<1> DEFINE older == [i \in DOMAIN ages |-> IF ages[i] = LoopAge THEN LoopAge ELSE ages[i] + 1]
<1>1. /\ Len(ages) \in Nat /\ DOMAIN ages = 1..Len(ages)
      /\ \A i \in DOMAIN ages : ages[i] \in Nat /\ ages[i] <= LoopAge
      /\ LoopAge \in Nat
      BY ChallengeAssumption DEF PageAges
<1>2. \A i \in DOMAIN ages : older[i] \in PageAges
      BY <1>1 DEF PageAges
<1>3. older \in [1..Len(ages) -> PageAges]
      BY <1>1, <1>2
<1>4. older \in Seq(PageAges) /\ Len(older) = Len(ages) /\ DOMAIN older = DOMAIN ages
      BY <1>1, <1>3
<1>5. ASSUME NEW i \in DOMAIN ages, NEW j \in DOMAIN ages, i <= j PROVE older[i] >= older[j]
  <2>1. ages[i] >= ages[j]
        BY <1>5 DEF InOrder
  <2> QED
      BY <1>1, <2>1
<1> QED
    BY <1>4, <1>5 DEF InOrder

-----------------------------------------------------------------------------
(* The types of the challenges *)

LoopsOK(loops) ==
  /\ loops \in [Visitors -> [Kinds -> Seq(PageAges)]]
  /\ \A v \in Visitors, k \in Kinds : Len(loops[v][k]) <= MaxPages /\ InOrder(loops[v][k])
StoreOK(store) == \A t \in DOMAIN store : t \in Tokens /\ store[t] \in Entry
ThreadStates == {Idle} \cup PageState \cup AnswerState

LEMMA ChallengeTypeIs ==
  ChallengeTypeOK <=>
    /\ StoreOK(chStore) /\ LoopsOK(chLoops) /\ chPc \in [ChThreads -> ThreadStates]
    /\ chIssued \in [Tokens -> Visitors \cup {NoToken}]
    /\ chEarned \in [Tokens -> [Visitors -> Nat]]
BY DEF ChallengeTypeOK, StoreOK, LoopsOK, ThreadStates, PageAges


\* What a goroutine in each of its steps knows.
LEMMA ThreadKnows ==
  ASSUME chPc \in [ChThreads -> ThreadStates], NEW g \in ChThreads
  PROVE  /\ chPc[g].step \in {"bypass?", "record", "issue"} => chPc[g] \in PageState
         /\ chPc[g].step = "judge" => chPc[g] \in AnswerState
<1>1. chPc[g] \in {Idle} \cup PageState \cup AnswerState
      BY DEF ThreadStates
<1>2. Idle.step = "idle"
      BY DEF Idle
<1>3. \A s \in PageState : s.step \in {"bypass?", "record", "issue"}
      BY DEF PageState
<1>4. \A s \in AnswerState : s.step = "judge"
      BY DEF AnswerState
<1> QED
    BY <1>1, <1>2, <1>3, <1>4

LEMMA ChallengeTypeInit == ChallengeInit => ChallengeTypeOK
<1> SUFFICES ASSUME ChallengeInit PROVE ChallengeTypeOK
    OBVIOUS
<1>1. StoreOK(chStore)
      BY DEF ChallengeInit, StoreOK
<1>2. LoopsOK(chLoops)
  <2>1. <<>> \in Seq(PageAges) /\ InOrder(<<>>) /\ Len(<<>>) <= MaxPages
        BY ChallengeAssumption DEF InOrder
  <2>2. chLoops = [v \in Visitors |-> [k \in Kinds |-> <<>>]]
        BY DEF ChallengeInit
  <2> QED
      BY <2>1, <2>2 DEF LoopsOK
<1>3. chPc \in [ChThreads -> ThreadStates]
      BY DEF ChallengeInit, ThreadStates
<1>4. /\ chIssued \in [Tokens -> Visitors \cup {NoToken}]
      /\ chEarned \in [Tokens -> [Visitors -> Nat]]
      BY DEF ChallengeInit
<1> QED
    BY <1>1, <1>2, <1>3, <1>4, ChallengeTypeIs

LEMMA ChallengeTypeStep == ChallengeTypeOK /\ [ChallengeNext]_chVars => ChallengeTypeOK'
<1> SUFFICES ASSUME ChallengeTypeOK, [ChallengeNext]_chVars PROVE ChallengeTypeOK'
    OBVIOUS
<1>t. /\ StoreOK(chStore) /\ LoopsOK(chLoops) /\ chPc \in [ChThreads -> ThreadStates]
      /\ chIssued \in [Tokens -> Visitors \cup {NoToken}]
      /\ chEarned \in [Tokens -> [Visitors -> Nat]]
      BY ChallengeTypeIs
<1>s. ASSUME StoreOK(chStore'), LoopsOK(chLoops'), chPc' \in [ChThreads -> ThreadStates],
             chIssued' \in [Tokens -> Visitors \cup {NoToken}],
             chEarned' \in [Tokens -> [Visitors -> Nat]]
      PROVE  ChallengeTypeOK'
      BY ONLY <1>s DEF ChallengeTypeOK, StoreOK, LoopsOK, ThreadStates, PageAges
<1>1. ASSUME NEW g \in ChThreads, NEW v \in Visitors, PageAsked(g, v) PROVE ChallengeTypeOK'
  <2>1. PICK k \in Kinds, step \in {"bypass?", "record"} :
          chPc' = [chPc EXCEPT ![g] = [step |-> step, ip |-> v, kind |-> k]]
        BY <1>1 DEF PageAsked, Becomes
  <2>2. UNCHANGED <<chStore, chLoops, chIssued, chEarned>>
        BY <1>1 DEF PageAsked
  <2>3. [step |-> step, ip |-> v, kind |-> k] \in ThreadStates
        BY DEF PageState, ThreadStates
  <2>4. chPc' \in [ChThreads -> ThreadStates]
        BY <1>t, <2>1, <2>3
  <2> QED
      BY <1>s, <1>t, <2>2, <2>4
<1>2. ASSUME NEW g \in ChThreads, ShouldBypass(g) PROVE ChallengeTypeOK'
  <2>1. /\ UNCHANGED <<chStore, chLoops, chIssued, chEarned>>
        /\ chPc[g].step = "bypass?"
        /\ \/ chPc' = [chPc EXCEPT ![g] = Idle]
           \/ chPc' = [chPc EXCEPT ![g] = [chPc[g] EXCEPT !.step = "record"]]
        BY <1>2 DEF ShouldBypass, Becomes, At
  <2>2. [chPc[g] EXCEPT !.step = "record"] \in ThreadStates /\ Idle \in ThreadStates
    <3>1. chPc[g] \in PageState
          BY <1>t, <2>1, ThreadKnows
    <3> QED
        BY <3>1 DEF PageState, ThreadStates
  <2>3. chPc' \in [ChThreads -> ThreadStates]
        BY <1>t, <2>1, <2>2
  <2> QED
      BY <1>s, <1>t, <2>1, <2>3
<1>3. ASSUME NEW g \in ChThreads, Record(g) PROVE ChallengeTypeOK'
  <2> DEFINE v == chPc[g].ip
             k == chPc[g].kind
             more == Append(FreshPages(chLoops[v][k]), 0)
  <2>1. /\ UNCHANGED <<chStore, chIssued, chEarned>>
        /\ chPc[g].step = "record" /\ Len(chLoops[v][k]) < MaxPages
        /\ chPc' = [chPc EXCEPT ![g] = [chPc[g] EXCEPT !.step = "issue"]]
        /\ chLoops' = [chLoops EXCEPT ![v][k] = more]
        BY <1>3 DEF Record, Becomes, At
  <2>2. chPc[g] \in PageState /\ v \in Visitors /\ k \in Kinds
        BY <1>t, <2>1, ThreadKnows DEF PageState
  <2>3. [chPc[g] EXCEPT !.step = "issue"] \in ThreadStates
        BY <2>2 DEF PageState, ThreadStates
  <2>4. chPc' \in [ChThreads -> ThreadStates]
        BY <1>t, <2>1, <2>3
  <2> HIDE DEF v, k
  <2>5. chLoops[v][k] \in Seq(PageAges) /\ InOrder(chLoops[v][k])
        BY <1>t, <2>2 DEF LoopsOK
  <2>6. /\ FreshPages(chLoops[v][k]) \in Seq(PageAges) /\ InOrder(FreshPages(chLoops[v][k]))
        /\ Len(FreshPages(chLoops[v][k])) <= Len(chLoops[v][k])
        BY <2>5, FreshPagesAre
  <2>7. /\ more \in Seq(PageAges) /\ InOrder(more)
        /\ Len(more) = Len(FreshPages(chLoops[v][k])) + 1
        BY <2>6, PageAppended
  <2>8. Len(more) <= MaxPages
    <3>1. /\ Len(chLoops[v][k]) \in Nat /\ Len(FreshPages(chLoops[v][k])) \in Nat /\ MaxPages \in Nat
          BY <2>5, <2>6, ChallengeAssumption
    <3> HIDE DEF more
    <3> QED
        BY <2>1, <2>6, <2>7, <3>1
  <2> HIDE DEF more
  <2>9. LoopsOK(chLoops')
        BY <1>t, <2>1, <2>2, <2>7, <2>8 DEF LoopsOK
  <2> QED
      BY <1>s, <1>t, <2>1, <2>4, <2>9
<1>4. ASSUME NEW g \in ChThreads, NEW t \in Tokens, Issue(g, t) PROVE ChallengeTypeOK'
  <2> DEFINE v == chPc[g].ip
             item == Item(chPc[g].kind, chPc[g].ip)
  <2>1. /\ chIssued' = [chIssued EXCEPT ![t] = v]
        /\ chStore' = [u \in DOMAIN chStore \cup {t} |-> IF u = t THEN item ELSE chStore[u]]
        /\ chPc' = [chPc EXCEPT ![g] = Idle] /\ chEarned' = chEarned /\ chLoops' = chLoops
        /\ chPc[g].step = "issue"
        BY <1>4 DEF Issue, Becomes, At
  <2>2. v \in Visitors /\ chPc[g].kind \in Kinds
        BY <1>t, <2>1, ThreadKnows DEF PageState
  <2>3. item \in Entry
    <3>1. \A k \in Kinds : TTLOf[k] \in 0..MaxTTL
          BY ChallengeAssumption DEF Kinds, TTLOf, MaxTTL
    <3>2. 0 \in 0..(MaxTTL + 1)
          BY ChallengeAssumption DEF MaxTTL
    <3> QED
        BY <2>2, <3>1, <3>2 DEF Item, Entry
  <2> HIDE DEF item, v
  <2>4. StoreOK(chStore')
        BY <1>t, <2>1, <2>3 DEF StoreOK
  <2>5. chPc' \in [ChThreads -> ThreadStates]
        BY <1>t, <2>1 DEF ThreadStates
  <2>6. chIssued' \in [Tokens -> Visitors \cup {NoToken}]
        BY <1>t, <2>1, <2>2
  <2> QED
      BY <1>s, <1>t, <2>1, <2>4, <2>5, <2>6
<1>5. ASSUME NEW g \in ChThreads, NEW v \in Visitors, NEW k \in Kinds, NEW t \in Tokens,
             Take(g, v, k, t)
      PROVE  ChallengeTypeOK'
  <2> DEFINE judging == [step |-> "judge", ip |-> v, kind |-> k, token |-> t, entry |-> chStore[t]]
  <2>1. /\ DOMAIN chStore' \subseteq DOMAIN chStore
        /\ \A u \in DOMAIN chStore' : chStore'[u] = chStore[u]
        /\ UNCHANGED <<chIssued, chEarned, chLoops>>
        BY <1>5 DEF Take, Without, Restrict
  <2>2. \/ chPc' = chPc
        \/ t \in DOMAIN chStore /\ chPc' = [chPc EXCEPT ![g] = judging]
        BY <1>5 DEF Take, Becomes
  <2>3. StoreOK(chStore')
        BY <1>t, <2>1 DEF StoreOK
  <2>4. t \in DOMAIN chStore => judging \in ThreadStates
        BY <1>t DEF StoreOK, ThreadStates, AnswerState
  <2> HIDE DEF judging
  <2>5. chPc' \in [ChThreads -> ThreadStates]
        BY <1>t, <2>2, <2>4
  <2> QED
      BY <1>s, <1>t, <2>1, <2>3, <2>5
<1>6. ASSUME NEW g \in ChThreads, Judge(g) PROVE ChallengeTypeOK'
  <2>1. /\ UNCHANGED <<chStore, chLoops, chIssued>> /\ chPc[g].step = "judge"
        /\ chPc' = [chPc EXCEPT ![g] = Idle]
        /\ \/ chEarned' = [chEarned EXCEPT ![chPc[g].token][chPc[g].ip] = @ + 1]
           \/ chEarned' = chEarned
        BY <1>6 DEF Judge, Becomes, At
  <2>2. chPc[g].token \in Tokens /\ chPc[g].ip \in Visitors
        BY <1>t, <2>1, ThreadKnows DEF AnswerState
  <2>3. chPc' \in [ChThreads -> ThreadStates]
        BY <1>t, <2>1 DEF ThreadStates
  <2>4. chEarned' \in [Tokens -> [Visitors -> Nat]]
        BY <1>t, <2>1, <2>2
  <2> QED
      BY <1>s, <1>t, <2>1, <2>3, <2>4
<1>7. CASE StoreCleanup
  <2>1. /\ UNCHANGED <<chLoops, chPc, chIssued, chEarned>>
        /\ DOMAIN chStore' \subseteq DOMAIN chStore
        /\ \A u \in DOMAIN chStore' : chStore'[u] = chStore[u]
        BY <1>7 DEF StoreCleanup, Restrict
  <2>2. StoreOK(chStore')
        BY <1>t, <2>1 DEF StoreOK
  <2> QED
      BY <1>s, <1>t, <2>1, <2>2
<1>8. CASE LoopCleanup
  <2> DEFINE F(v, k) == IF \E i \in DOMAIN chLoops[v][k] : chLoops[v][k][i] < LoopAge
                        THEN chLoops[v][k] ELSE <<>>
  <2>1. /\ UNCHANGED <<chStore, chPc, chIssued, chEarned>>
        /\ chLoops' = [v \in Visitors |-> [k \in Kinds |-> F(v, k)]]
        BY <1>8 DEF LoopCleanup
  <2>2. ASSUME NEW v \in Visitors, NEW k \in Kinds
        PROVE  F(v, k) \in Seq(PageAges) /\ InOrder(F(v, k)) /\ Len(F(v, k)) <= MaxPages
    <3>1. /\ chLoops[v][k] \in Seq(PageAges) /\ InOrder(chLoops[v][k])
          /\ Len(chLoops[v][k]) <= MaxPages
          BY <1>t DEF LoopsOK
    <3>2. <<>> \in Seq(PageAges) /\ InOrder(<<>>) /\ Len(<<>>) <= MaxPages
          BY ChallengeAssumption DEF InOrder
    <3>3. F(v, k) = chLoops[v][k] \/ F(v, k) = <<>>
          OBVIOUS
    <3> HIDE DEF F
    <3> QED
        BY <3>1, <3>2, <3>3
  <2> HIDE DEF F
  <2>3. LoopsOK(chLoops')
        BY <2>1, <2>2 DEF LoopsOK
  <2> QED
      BY <1>s, <1>t, <2>1, <2>3
<1>9. CASE ChTick
  <2> DEFINE F(v, k) == [i \in DOMAIN chLoops[v][k] |->
                           IF chLoops[v][k][i] = LoopAge THEN LoopAge ELSE chLoops[v][k][i] + 1]
  <2>1. /\ UNCHANGED <<chPc, chIssued, chEarned>>
        /\ chLoops' = [v \in Visitors |-> [k \in Kinds |-> F(v, k)]]
        /\ DOMAIN chStore' = DOMAIN chStore
        BY <1>9 DEF ChTick
  <2>2. ASSUME NEW v \in Visitors, NEW k \in Kinds
        PROVE  F(v, k) \in Seq(PageAges) /\ InOrder(F(v, k)) /\ Len(F(v, k)) <= MaxPages
    <3>1. /\ chLoops[v][k] \in Seq(PageAges) /\ InOrder(chLoops[v][k])
          /\ Len(chLoops[v][k]) <= MaxPages
          BY <1>t DEF LoopsOK
    <3>2. F(v, k) \in Seq(PageAges) /\ InOrder(F(v, k)) /\ Len(F(v, k)) = Len(chLoops[v][k])
          BY <3>1, PagesOlder
    <3> QED
        BY <3>1, <3>2
  <2> HIDE DEF F
  <2>3. LoopsOK(chLoops')
        BY <2>1, <2>2 DEF LoopsOK
  <2>4. ASSUME NEW t \in DOMAIN chStore PROVE t \in Tokens /\ chStore'[t] \in Entry
    <3> DEFINE entry == chStore[t]
               older == IF entry.age > entry.ttl THEN entry.age ELSE entry.age + 1
    <3>1. /\ t \in Tokens /\ entry \in Entry /\ entry.ttl \in 0..MaxTTL
          /\ entry.age \in 0..(MaxTTL + 1) /\ MaxTTL \in Nat
          BY <1>t, ChallengeAssumption DEF StoreOK, Entry, MaxTTL
    <3>2. older \in 0..(MaxTTL + 1)
          BY <3>1
    <3>3. chStore'[t] = [entry EXCEPT !.age = older]
          BY <1>9 DEF ChTick
    <3> HIDE DEF entry, older
    <3> QED
        BY <3>1, <3>2, <3>3 DEF Entry
  <2>5. StoreOK(chStore')
        BY <2>1, <2>4 DEF StoreOK
  <2> QED
      BY <1>s, <1>t, <2>1, <2>3, <2>5
<1>10. CASE UNCHANGED chVars
      BY <1>s, <1>t, <1>10 DEF chVars
<1> QED
    BY <1>1, <1>2, <1>3, <1>4, <1>5, <1>6, <1>7, <1>8, <1>9, <1>10 DEF ChallengeNext

\* Whatever pages, answers, cleanups and ticks interleave: the store holds tokens with items
\* no older than a tick past the longest life, the pages that the loop detector keeps are in
\* the order in which they were recorded, which is why those outside the window come first,
\* and each goroutine is where it can be (client/challenge).
THEOREM ChallengeTypes == ChallengeSpec => []ChallengeTypeOK
BY ChallengeTypeInit, ChallengeTypeStep, PTL DEF ChallengeSpec

-----------------------------------------------------------------------------
(* The engine of one address *)

\* A call that is about to store has read the clock.
StoreHasTime == \A t \in EscThreads : call[t].at = "store" => call[t].age # Esc!Never
EngineInv == Esc!TypeOK /\ StoreHasTime

LEMMA EngineConstants ==
  /\ EscThreshold \in Nat \ {0} /\ EscWindow \in Nat \ {0} /\ EscCooldown \in Nat \ {0}
  /\ Esc!FailureCap \in Nat /\ Esc!FailureCap = EscThreshold + 1
  /\ Esc!FailureAgeCap \in Nat /\ Esc!EscalationAgeCap \in Nat /\ Esc!ActivityAgeCap \in Nat
  /\ Esc!MaxLevel = 4 /\ Esc!Levels = 0..4 /\ Esc!Never = -1
BY VisitorAssumption DEF Esc!FailureCap, Esc!FailureAgeCap, Esc!EscalationAgeCap,
   Esc!ActivityAgeCap, Esc!MaxLevel, Esc!Levels, Esc!Never

LEMMA EngineAges ==
  /\ \A cap \in Nat : /\ 0 \in Esc!Age(cap) /\ Esc!Never \in Esc!Age(cap)
                      /\ \A a \in Esc!Age(cap) :
                           /\ Esc!Older(a, cap) \in Esc!Age(cap)
                           /\ a # Esc!Never => a \in Nat /\ Esc!Older(a, cap) # Esc!Never
  /\ \A n \in Nat, cap \in Nat : Esc!Lower(n, cap) \in 0..cap
BY EngineConstants DEF Esc!Age, Esc!Older, Esc!Lower

LEMMA EngineCools ==
  ASSUME NEW l \in Esc!Levels, NEW a \in Nat
  PROVE  Esc!Cooled(l, a) \in Esc!Levels
<1>1. a \div EscCooldown \in Nat
      BY EngineConstants
<1> QED
    BY <1>1, EngineConstants DEF Esc!Cooled

LEMMA IdleInGetLevel ==
  /\ Esc!Idle \in Esc!Calls /\ Esc!Idle.at = "idle"
  /\ \A c \in Esc!Calls : c.level \in Esc!Levels /\ c.age \in Esc!Age(Esc!EscalationAgeCap)
<1>1. 0 \in Esc!Levels /\ 0 \in Esc!Age(Esc!EscalationAgeCap)
      BY EngineConstants, EngineAges
<1> QED
    BY <1>1 DEF Esc!Idle, Esc!Calls

LEMMA EngineInit == Esc!Init => EngineInv
<1> SUFFICES ASSUME Esc!Init PROVE EngineInv
    OBVIOUS
<1>1. /\ exists = FALSE /\ level = 1 /\ failureCount = 0 /\ lastFailure = Esc!Never
      /\ lastEscalation = Esc!Never /\ lastActivityAt = 0
      /\ call = [t \in EscThreads |-> Esc!Idle]
      BY DEF Esc!Init
<1>2. level \in Esc!Levels /\ failureCount \in 0..Esc!FailureCap /\ exists \in BOOLEAN
  <2>1. exists \in BOOLEAN
        BY <1>1
  <2>2. level \in Esc!Levels
        BY <1>1, EngineConstants
  <2>3. failureCount \in 0..Esc!FailureCap
        BY <1>1, EngineConstants
  <2> QED
      BY <2>1, <2>2, <2>3
<1>3. /\ lastFailure \in Esc!Age(Esc!FailureAgeCap)
      /\ lastEscalation \in Esc!Age(Esc!EscalationAgeCap)
      /\ lastActivityAt \in 0..Esc!ActivityAgeCap
      BY <1>1, EngineAges, EngineConstants
<1>4. call \in [EscThreads -> Esc!Calls] /\ StoreHasTime
      BY <1>1, IdleInGetLevel DEF StoreHasTime
<1> QED
    BY <1>2, <1>3, <1>4 DEF EngineInv, Esc!TypeOK

LEMMA EngineStep == EngineInv /\ [Esc!Next]_escalationVars => EngineInv'
<1> SUFFICES ASSUME EngineInv, [Esc!Next]_escalationVars PROVE EngineInv'
    OBVIOUS
<1> USE EngineConstants DEF EngineInv, Esc!entry
<1>0. /\ Esc!Idle \in Esc!Calls /\ Esc!Idle.at = "idle"
      /\ \A c \in Esc!Calls : c.level \in Esc!Levels /\ c.age \in Esc!Age(Esc!EscalationAgeCap)
      BY IdleInGetLevel
\* A step of a goroutine that leaves the entry alone.
<1>g. ASSUME NEW t \in EscThreads, NEW c \in Esc!Calls, call' = [call EXCEPT ![t] = c],
             c.at = "store" => c.age # Esc!Never, UNCHANGED Esc!entry
      PROVE  EngineInv'
  <2>1. call' \in [EscThreads -> Esc!Calls]
        BY <1>g DEF Esc!TypeOK
  <2>2. StoreHasTime'
        BY <1>g DEF Esc!TypeOK, StoreHasTime
  <2> QED
      BY <1>g, <2>1, <2>2 DEF Esc!TypeOK
<1>1. ASSUME NEW t \in EscThreads, Esc!CopyState(t) PROVE EngineInv'
  <2>1. [at |-> "copied", level |-> level, age |-> lastEscalation] \in Esc!Calls
        BY DEF Esc!TypeOK, Esc!Calls
  <2>2. /\ call' = [call EXCEPT ![t] = [at |-> "copied", level |-> level, age |-> lastEscalation]]
        /\ UNCHANGED Esc!entry
        BY <1>1 DEF Esc!CopyState
  <2> QED
      BY <1>g, <2>1, <2>2
<1>2. ASSUME NEW t \in EscThreads, Esc!DecideLevel(t) PROVE EngineInv'
  <2> DEFINE copy == call[t]
             stored == [at |-> "store", level |-> Esc!Cooled(copy.level, copy.age), age |-> 0]
  <2>1. /\ UNCHANGED Esc!entry
        /\ \/ copy.age # Esc!Never /\ call' = [call EXCEPT ![t] = stored]
           \/ call' = [call EXCEPT ![t] = Esc!Idle]
        BY <1>2 DEF Esc!DecideLevel
  <2>2. copy.level \in Esc!Levels /\ copy.age \in Esc!Age(Esc!EscalationAgeCap)
        BY <1>0 DEF Esc!TypeOK
  <2>3. copy.age # Esc!Never => stored \in Esc!Calls
        BY <2>2, EngineAges, EngineCools DEF Esc!Calls
  <2>4. stored.age # Esc!Never
        OBVIOUS
  <2> HIDE DEF stored, copy
  <2> QED
      BY <1>0, <1>g, <2>1, <2>3, <2>4
<1>3. ASSUME NEW t \in EscThreads, Esc!StoreLevel(t) PROVE EngineInv'
  <2>1. call' = [call EXCEPT ![t] = Esc!Idle] /\ call[t].at = "store"
        BY <1>3 DEF Esc!StoreLevel
  <2>2. CASE UNCHANGED Esc!entry
        BY <1>0, <1>g, <2>1, <2>2
  <2>3. CASE ~UNCHANGED Esc!entry
    <3>1. /\ level' = call[t].level /\ lastEscalation' = call[t].age
          /\ lastActivityAt' = Esc!Lower(call[t].age, Esc!ActivityAgeCap)
          /\ exists' = exists /\ failureCount' = failureCount /\ lastFailure' = lastFailure
          BY <1>3, <2>3 DEF Esc!StoreLevel
    <3>2. call[t].age \in Nat
          BY <1>0, <2>1, EngineAges DEF Esc!TypeOK, StoreHasTime
    <3>3. lastActivityAt' \in 0..Esc!ActivityAgeCap
          BY <3>1, <3>2, EngineAges
    <3>4. call' \in [EscThreads -> Esc!Calls] /\ StoreHasTime'
          BY <1>0, <2>1 DEF Esc!TypeOK, StoreHasTime
    <3>5. level' \in Esc!Levels /\ lastEscalation' \in Esc!Age(Esc!EscalationAgeCap)
          BY <1>0, <3>1 DEF Esc!TypeOK
    <3> QED
        BY <3>1, <3>3, <3>4, <3>5 DEF Esc!TypeOK
  <2> QED
      BY <2>2, <2>3
<1>4. ASSUME Esc!RecordFailure PROVE EngineInv'
  <2>1. Esc!CountAfterFailure \in 0..Esc!FailureCap
    <3>1. failureCount \in Nat
          BY DEF Esc!TypeOK
    <3> DEFINE n == (IF lastFailure # Esc!Never /\ lastFailure > EscWindow THEN 0
                     ELSE failureCount) + 1
    <3>2. n \in Nat
          BY <3>1
    <3>3. Esc!CountAfterFailure = Esc!Lower(n, Esc!FailureCap)
          BY DEF Esc!CountAfterFailure
    <3> HIDE DEF n
    <3> QED
        BY <3>2, <3>3, EngineAges
  <2>2. /\ exists' = TRUE /\ lastFailure' = 0 /\ lastActivityAt' = 0 /\ call' = call
        /\ \/ level < 4 /\ level' = level + 1 /\ lastEscalation' = 0 /\ failureCount' = 0
           \/ failureCount' = Esc!CountAfterFailure /\ level' = level
              /\ lastEscalation' = lastEscalation
        BY <1>4 DEF Esc!RecordFailure, Esc!Escalate
  <2>3. level' \in Esc!Levels /\ failureCount' \in 0..Esc!FailureCap
        BY <2>1, <2>2 DEF Esc!TypeOK
  <2>4. lastEscalation' \in Esc!Age(Esc!EscalationAgeCap)
        BY <2>2, EngineAges DEF Esc!TypeOK
  <2>5. lastFailure' \in Esc!Age(Esc!FailureAgeCap) /\ lastActivityAt' \in 0..Esc!ActivityAgeCap
        BY <2>2, EngineAges
  <2> QED
      BY <2>2, <2>3, <2>4, <2>5 DEF Esc!TypeOK, StoreHasTime
<1>5. ASSUME Esc!RecordSuccess PROVE EngineInv'
      BY <1>5 DEF Esc!RecordSuccess, Esc!TypeOK, StoreHasTime
<1>6. ASSUME Esc!Cleanup PROVE EngineInv'
  <2>1. /\ exists' = FALSE /\ level' = 1 /\ failureCount' = 0 /\ lastFailure' = Esc!Never
        /\ lastEscalation' = Esc!Never /\ lastActivityAt' = 0 /\ call' = call
        BY <1>6 DEF Esc!Cleanup
  <2>2. level' \in Esc!Levels /\ failureCount' \in 0..Esc!FailureCap
        BY <2>1
  <2>3. /\ lastFailure' \in Esc!Age(Esc!FailureAgeCap)
        /\ lastEscalation' \in Esc!Age(Esc!EscalationAgeCap)
        /\ lastActivityAt' \in 0..Esc!ActivityAgeCap
        BY <2>1, EngineAges
  <2> QED
      BY <2>1, <2>2, <2>3 DEF Esc!TypeOK, StoreHasTime
<1>7. ASSUME Esc!Tick PROVE EngineInv'
  <2>1. /\ lastFailure' \in Esc!Age(Esc!FailureAgeCap)
        /\ lastEscalation' \in Esc!Age(Esc!EscalationAgeCap)
        BY <1>7, EngineAges DEF Esc!Tick, Esc!TypeOK
  <2>2. lastActivityAt' \in 0..Esc!ActivityAgeCap
    <3>1. lastActivityAt + 1 \in Nat
          BY DEF Esc!TypeOK
    <3> QED
        BY <1>7, <3>1, EngineAges DEF Esc!Tick
  <2>3. \A t \in EscThreads :
          LET aged == [call[t] EXCEPT !.age = Esc!Older(call[t].age, Esc!EscalationAgeCap)]
          IN  /\ aged \in Esc!Calls /\ aged.at = call[t].at
              /\ call[t].age \in Esc!Age(Esc!EscalationAgeCap)
              /\ call[t].age # Esc!Never => aged.age # Esc!Never
        BY EngineAges DEF Esc!TypeOK, Esc!Calls
  <2>4. call' = [t \in EscThreads |->
          IF call[t].at = "idle" THEN Esc!Idle
          ELSE [call[t] EXCEPT !.age = Esc!Older(call[t].age, Esc!EscalationAgeCap)]]
        BY <1>7 DEF Esc!Tick
  <2>5. call' \in [EscThreads -> Esc!Calls]
        BY <1>0, <2>3, <2>4
  <2>6. StoreHasTime'
        BY <1>0, <2>3, <2>4 DEF StoreHasTime
  <2>7. exists' = exists /\ level' = level /\ failureCount' = failureCount
        BY <1>7 DEF Esc!Tick
  <2> QED
      BY <2>1, <2>2, <2>5, <2>6, <2>7 DEF Esc!TypeOK
<1>8. CASE UNCHANGED escalationVars
      BY <1>8 DEF escalationVars, Esc!TypeOK, StoreHasTime
<1> QED
    BY <1>1, <1>2, <1>3, <1>4, <1>5, <1>6, <1>7, <1>8 DEF Esc!Next, Esc!GetLevelStep

-----------------------------------------------------------------------------
(* The parts in one system *)

InFocus(part) == focus = part

\* A step of the whole is one of the part in focus, and the focus stays.
LEMMA FocusStays ==
  [VisitorNext]_visitorVars =>
    /\ InFocus("requests")' <=> InFocus("requests")
    /\ InFocus("cookies")' <=> InFocus("cookies")
    /\ InFocus("challenges")' <=> InFocus("challenges")
    /\ InFocus("escalation")' <=> InFocus("escalation")
BY Zenon DEF VisitorNext, OnlyFocusMoves, visitorVars, InFocus

LEMMA VisitorStep ==
  [VisitorNext]_visitorVars =>
    /\ InFocus("requests") => [Next]_vars
    /\ InFocus("cookies") => [CookieNext]_cookieVars
    /\ InFocus("challenges") => [ChallengeNext]_chVars
    /\ InFocus("escalation") => [Esc!Next]_escalationVars
BY Zenon DEF VisitorNext, visitorVars, InFocus

LEMMA FocusIs ==
  /\ InFocus("requests") <=> focus = "requests"
  /\ InFocus("cookies") <=> focus = "cookies"
  /\ InFocus("challenges") <=> focus = "challenges"
  /\ InFocus("escalation") <=> focus = "escalation"
BY DEF InFocus

\* What is run as one system, the part in focus moving and the others at rest, behaves as that
\* part does on its own, and so has what is proved of it.
THEOREM VisitorIsEachPart ==
  VisitorSpec => /\ focus = "requests" => Spec
                 /\ focus = "cookies" => CookieSpec
                 /\ focus = "challenges" => ChallengeSpec
                 /\ focus = "escalation" => Esc!Spec
<1>1. VisitorInit => Init /\ CookieInit /\ ChallengeInit /\ Esc!Init
      BY DEF VisitorInit
<1>2. [Esc!Next]_escalationVars => [Esc!Next]_(Esc!vars)
      BY DEF Esc!vars, Esc!entry, escalationVars
<1> QED
    BY <1>1, <1>2, VisitorStep, FocusStays, FocusIs, PTL
    DEF VisitorSpec, Spec, CookieSpec, ChallengeSpec, Esc!Spec

\* Whichever part moves, for any numbers of goroutines, cookies, visitors and tokens and any
\* thresholds, windows and lives, everything that a node keeps about its visitors stays of its
\* type: counts and times within their bounds, goroutines where they can be.
THEOREM VisitorTypes == VisitorSpec => []VisitorTypesOK
<1>1. VisitorInit => EngineInv
      BY EngineInit DEF VisitorInit
<1>2. VisitorSpec /\ InFocus("escalation") => []EngineInv
      BY <1>1, VisitorStep, FocusStays, EngineStep, PTL DEF VisitorSpec
<1>3. EngineInv => Esc!TypeOK
      BY DEF EngineInv
<1>4. VisitorTypesOK <=> /\ focus = "requests" => TypeOK
                         /\ focus = "cookies" => CookieTypeOK
                         /\ focus = "challenges" => ChallengeTypeOK
                         /\ focus = "escalation" => Esc!TypeOK
      BY DEF VisitorTypesOK
<1> QED
    BY <1>2, <1>3, <1>4, VisitorIsEachPart, RequestTypes, CookieTypes, ChallengeTypes, FocusIs,
       FocusStays, PTL
    DEF VisitorSpec

=============================================================================
