----------------------------- MODULE NodeProofs -----------------------------
(***************************************************************************)
(* The parts of a client node that run beside its requests, and the login  *)
(* to the master, proved for any times, limits, settings, numbers of       *)
(* goroutines and numbers of CPUs: the connection to the master            *)
(* (OfflineMode), the watch on the traffic (TrafficGuard), the country     *)
(* maps (GeoIPLoader), the snapshots (Snapshots), the controller of botnet *)
(* mode (KernelConfig), the packet filter (XDPFilter), the restarts of the *)
(* service (HealthMonitor), the settings (NodeConfig) and the guesses at   *)
(* the admin key (MasterAdmin).  Each part has an inductive invariant of   *)
(* its own, stated where its section begins, and its type invariant.  The  *)
(* backoff between attempts to reconnect is a recursive function and the   *)
(* failures of a window are a recursive sum; both are reasoned about with  *)
(* InductionLemmas.                                                        *)
(*                                                                         *)
(* At the end stands the composition (Node), with the pool and the updates *)
(* proved in ConnPoolProofs and UpdateProofs: each part behaves in it as   *)
(* it does alone, and keeps its types.                                     *)
(***************************************************************************)
EXTENDS Node, ConnPoolProofs, UpdateProofs, InductionLemmas, SequenceTheorems, TLAPS

-----------------------------------------------------------------------------
(* Offline mode *)

Announces(c) == At(c, "announce")

\* Who is online was told so or is about to be; who went offline while nobody was announcing
\* was told so, and nobody announces until a contact ends the period.
TellsMode ==
  /\ ~isOffline => told = "online" \/ Announces("heartbeat") \/ Announces("reconnect")
  /\ isOffline /\ ~overtaken =>
       told = "offline" /\ ~Announces("heartbeat") /\ ~Announces("reconnect")

ModeInv ==
  /\ isOffline \in BOOLEAN
  /\ lastContact \in 0 .. OfflineThreshold + 1
  /\ contactPc \in [Contacts -> {"idle", "attempt", "check", "announce"}]
  /\ told \in {"online", "offline"} /\ overtaken \in BOOLEAN
  /\ TellsMode /\ ReportedOnce

LEMMA OfflineTimes ==
  /\ OfflineThreshold \in Nat \ {0}
  /\ ReconnectInterval \in Nat \ {0} /\ MaxReconnectBackoff \in Nat \ {0}
  /\ MaxAttempts \in Nat
BY OfflineAssumption

LEMMA NobodyAnnounces ==
  Announcing = {} <=> ~Announces("heartbeat") /\ ~Announces("reconnect")
BY DEF Announcing, Announces, Contacts

LEMMA ModeInit == OfflineInit => ModeInv
<1> SUFFICES ASSUME OfflineInit PROVE ModeInv
    OBVIOUS
<1>1. \A c \in Contacts : ~At(c, "announce")
      BY DEF OfflineInit, At
<1>2. /\ isOffline = FALSE /\ told = "online" /\ overtaken = FALSE /\ owed = 0
      BY DEF OfflineInit
<1>3. lastContact \in 0 .. OfflineThreshold + 1
      BY OfflineTimes DEF OfflineInit
<1>4. contactPc \in [Contacts -> {"idle", "attempt", "check", "announce"}]
      BY DEF OfflineInit
<1>5. ~At("heartbeat", "announce") /\ ~At("reconnect", "announce")
      BY <1>1 DEF Contacts
<1>6. TellsMode
      BY <1>2 DEF TellsMode
<1>7. ReportedOnce
      BY <1>2, <1>5 DEF ReportedOnce
<1> QED
    BY <1>2, <1>3, <1>4, <1>6, <1>7, Zenon DEF ModeInv

\* RecordMasterContact, for a caller that is not announcing.
LEMMA ContactStep ==
  ASSUME ModeInv, NEW c \in Contacts, ~At(c, "announce"), RecordMasterContact(c)
  PROVE  ModeInv'
<1> USE OfflineTimes DEF ModeInv
<1>1. CASE isOffline
  <2>1. /\ isOffline' = FALSE /\ lastContact' = 0
        /\ contactPc' = [contactPc EXCEPT ![c] = "announce"]
        /\ told' = told /\ owed' = owed /\ overtaken' = overtaken
        BY <1>1 DEF RecordMasterContact, GoesTo
  <2>2. /\ At(c, "announce")' /\ ~At(c, "announce")
        /\ \A d \in Contacts \ {c} : At(d, "announce")' <=> At(d, "announce")
        BY <2>1 DEF At
  <2>3. TellsMode'
        BY <2>1, <2>2 DEF TellsMode, Announces, Contacts
  <2>4. ReportedOnce'
        BY <1>1, <2>1, <2>2 DEF ReportedOnce, Contacts
  <2>5. contactPc' \in [Contacts -> {"idle", "attempt", "check", "announce"}]
        BY <2>1
  <2>6. lastContact' \in 0 .. OfflineThreshold + 1
        BY <2>1
  <2> QED
      BY <2>1, <2>3, <2>4, <2>5, <2>6
<1>2. CASE ~isOffline
  <2>1. /\ isOffline' = isOffline /\ lastContact' = 0
        /\ contactPc' = [contactPc EXCEPT ![c] = "idle"]
        /\ told' = told /\ owed' = owed /\ overtaken' = overtaken
        BY <1>2 DEF RecordMasterContact, GoesTo
  <2>2. \A d \in Contacts : At(d, "announce")' <=> At(d, "announce")
        BY <2>1 DEF At
  <2>3. TellsMode' /\ ReportedOnce'
        BY <2>1, <2>2 DEF TellsMode, Announces, ReportedOnce, Contacts
  <2> QED
      BY <2>1, <2>3
<1> QED
    BY <1>1, <1>2

\* A step that neither begins nor ends an announcement.
LEMMA QuietStep ==
  ASSUME ModeInv, contactPc' \in [Contacts -> {"idle", "attempt", "check", "announce"}],
         \A d \in Contacts : At(d, "announce")' <=> At(d, "announce"),
         lastContact' \in 0 .. OfflineThreshold + 1,
         UNCHANGED <<isOffline, told, owed, overtaken>>
  PROVE  ModeInv'
<1>1. TellsMode' /\ ReportedOnce'
      BY DEF ModeInv, TellsMode, Announces, ReportedOnce, Contacts
<1> QED
    BY <1>1 DEF ModeInv

\* A step of the reconnect loop that is one.
LEMMA ReconnectStep ==
  ASSUME ModeInv, NEW from, from # "announce", NEW to \in {"idle", "attempt", "check"},
         At("reconnect", from), GoesTo("reconnect", to),
         UNCHANGED <<isOffline, lastContact, told, owed, overtaken>>
  PROVE  ModeInv'
<1>1. /\ contactPc' \in [Contacts -> {"idle", "attempt", "check", "announce"}]
      /\ \A d \in Contacts : At(d, "announce")' <=> At(d, "announce")
      BY DEF ModeInv, GoesTo, At, Contacts
<1>2. lastContact' \in 0 .. OfflineThreshold + 1
      BY DEF ModeInv
<1> QED
    BY <1>1, <1>2, QuietStep

LEMMA ModeStep == ModeInv /\ [OfflineNext]_offlineVars => ModeInv'
<1> SUFFICES ASSUME ModeInv, [OfflineNext]_offlineVars PROVE ModeInv'
    OBVIOUS
<1> USE OfflineTimes
<1>1. CASE EvaluateConnectivity
  <2>1. /\ ~isOffline /\ isOffline' = TRUE /\ told' = "offline" /\ owed' = owed + 1
        /\ overtaken' = (Announcing # {}) /\ UNCHANGED <<lastContact, contactPc>>
        BY <1>1 DEF EvaluateConnectivity
  <2>2. /\ Announces("heartbeat")' <=> Announces("heartbeat")
        /\ Announces("reconnect")' <=> Announces("reconnect")
        BY <2>1 DEF Announces, At
  <2>3. TellsMode'
        BY <2>1, <2>2, NobodyAnnounces, Zenon DEF TellsMode
  <2>4. ReportedOnce'
        BY <2>1, <2>2 DEF ReportedOnce, Announces, ModeInv
  <2>5. overtaken' \in BOOLEAN
        BY <2>1, Zenon
  <2> QED
      BY <2>1, <2>3, <2>4, <2>5 DEF ModeInv
<1>2. CASE Heartbeat
      BY <1>2, ContactStep DEF Heartbeat, At, Contacts
<1>3. ASSUME NEW c \in Contacts, Announce(c) PROVE ModeInv'
  <2>1. /\ At(c, "announce") /\ contactPc' = [contactPc EXCEPT ![c] = "idle"]
        /\ owed' = owed - 1 /\ told' = "online"
        /\ UNCHANGED <<isOffline, lastContact, overtaken>>
        BY <1>3 DEF Announce, SyncAndReport, GoesTo
  <2>2. /\ ~At(c, "announce")'
        /\ \A d \in Contacts \ {c} : At(d, "announce")' <=> At(d, "announce")
        BY <2>1 DEF At, ModeInv
  <2>3. isOffline => overtaken
        BY <2>1 DEF ModeInv, TellsMode, Announces, Contacts
  <2>4. TellsMode'
        BY <2>1, <2>3 DEF TellsMode
  <2>5. ReportedOnce'
        BY <2>1, <2>2 DEF ModeInv, ReportedOnce, Contacts
  <2> QED
      BY <2>1, <2>4, <2>5 DEF ModeInv
<1>4. CASE DecideAttempt
      BY <1>4, ReconnectStep DEF DecideAttempt
<1>5. CASE CountAttempt
      BY <1>5, ReconnectStep DEF CountAttempt
<1>6. CASE ReconnectFails
      BY <1>6, ReconnectStep DEF ReconnectFails
<1>7. CASE ReconnectSucceeds
      BY <1>7, ContactStep DEF ReconnectSucceeds, At, Contacts
<1>8. CASE OfflineTick
  <2>1. lastContact' \in 0 .. OfflineThreshold + 1
        BY <1>8 DEF OfflineTick, ModeInv
  <2>2. UNCHANGED <<isOffline, contactPc, told, owed, overtaken>>
        BY <1>8 DEF OfflineTick
  <2> QED
      BY <2>1, <2>2, QuietStep DEF ModeInv, At
<1>9. CASE UNCHANGED offlineVars
      BY <1>9, QuietStep DEF offlineVars, ModeInv, At
<1> QED
    BY <1>1, <1>2, <1>3, <1>4, <1>5, <1>6, <1>7, <1>8, <1>9 DEF OfflineNext

LEMMA ModeInvariant == OfflineSpec => []ModeInv
BY ModeInit, ModeStep, PTL DEF OfflineSpec

\* A return to online is told after the mutex is released, with no bound on the time that it
\* takes.  When none is being told, the last thing that onModeChange was told is the mode that
\* the manager is in, except in an offline period that began while one was
\* (RecordMasterContact and EvaluateConnectivity of monitor/offline.go).
THEOREM CallbackToldTheMode == OfflineSpec => []ToldTheMode
<1>1. ModeInv => ToldTheMode
      BY NobodyAnnounces DEF ModeInv, TellsMode, ToldTheMode
<1> QED
    BY <1>1, ModeInvariant, PTL

\* Each offline period is reported once, whichever of the heartbeat and the reconnect loop
\* ends it, also when the next period begins before it is reported (RecordMasterContact and
\* sendOfflineReport of monitor/offline.go).
THEOREM OfflineReportedOnce == OfflineSpec => []ReportedOnce
BY ModeInvariant, PTL DEF ModeInv

\* The times and the number of attempts stay in their ranges: one that was decided on is
\* counted while there is room for it, for in between attempts only go back to zero.
TimesInv ==
  /\ lastAttempt \in 0 .. MaxReconnectBackoff
  /\ attempts \in 0 .. MaxAttempts
  /\ At("reconnect", "attempt") => attempts < MaxAttempts
  /\ backoff \in {ReconnectInterval} \cup 0 .. MaxReconnectBackoff

LEMMA TimesInit == OfflineInit => TimesInv
BY OfflineTimes DEF OfflineInit, TimesInv, At, Contacts

LEMMA TimesContact ==
  ASSUME ModeInv, TimesInv, NEW c \in Contacts, RecordMasterContact(c)
  PROVE  TimesInv'
<1>1. /\ attempts' \in {attempts, 0} /\ lastAttempt' = lastAttempt
      /\ backoff' \in {backoff, ReconnectInterval}
      BY DEF RecordMasterContact
<1>2. At("reconnect", "attempt")' => At("reconnect", "attempt")
      BY DEF RecordMasterContact, GoesTo, At, ModeInv, Contacts
<1>3. attempts' \in 0 .. MaxAttempts
      BY <1>1, OfflineTimes DEF TimesInv
<1>4. At("reconnect", "attempt")' => attempts' < MaxAttempts
      BY <1>1, <1>2, OfflineTimes DEF TimesInv
<1>5. backoff' \in {ReconnectInterval} \cup 0 .. MaxReconnectBackoff
      BY <1>1, OfflineTimes DEF TimesInv
<1> QED
    BY <1>1, <1>3, <1>4, <1>5, Zenon DEF TimesInv

LEMMA TimesStep == ModeInv /\ TimesInv /\ [OfflineNext]_offlineVars => TimesInv'
<1> SUFFICES ASSUME ModeInv, TimesInv, [OfflineNext]_offlineVars PROVE TimesInv'
    OBVIOUS
<1> USE OfflineTimes
<1>1. CASE EvaluateConnectivity
  <2>1. attempts' = 0 /\ backoff' = ReconnectInterval /\ UNCHANGED <<lastAttempt, contactPc>>
        BY <1>1 DEF EvaluateConnectivity
  <2>2. At("reconnect", "attempt")' => 0 < MaxAttempts
        BY <2>1 DEF At, TimesInv
  <2> QED
      BY <2>1, <2>2 DEF TimesInv
<1>2. CASE Heartbeat
      BY <1>2, TimesContact DEF Heartbeat, Contacts
<1>3. ASSUME NEW c \in Contacts, Announce(c) PROVE TimesInv'
  <2>1. At("reconnect", "attempt")' => At("reconnect", "attempt")
        BY <1>3 DEF Announce, GoesTo, At, ModeInv, Contacts
  <2>2. UNCHANGED <<lastAttempt, attempts, backoff>>
        BY <1>3 DEF Announce
  <2> QED
      BY <2>1, <2>2, Zenon DEF TimesInv
<1>4. CASE DecideAttempt
  <2>1. attempts < MaxAttempts /\ UNCHANGED <<lastAttempt, attempts, backoff>>
        BY <1>4 DEF DecideAttempt
  <2> QED
      BY <2>1, Zenon DEF TimesInv
<1>5. CASE CountAttempt
  <2>1. /\ attempts' = attempts + 1 /\ lastAttempt' = 0 /\ backoff' = backoff
        /\ At("reconnect", "attempt") /\ ~At("reconnect", "attempt")'
        BY <1>5 DEF CountAttempt, GoesTo, At, ModeInv, Contacts
  <2>2. attempts' \in 0 .. MaxAttempts
        BY <2>1 DEF TimesInv
  <2>3. lastAttempt' \in 0 .. MaxReconnectBackoff
        BY <2>1
  <2> QED
      BY <2>1, <2>2, <2>3, Zenon DEF TimesInv
<1>6. CASE ReconnectFails
  <2>1. /\ backoff' = NextBackoff(backoff) /\ UNCHANGED <<lastAttempt, attempts>>
        /\ ~At("reconnect", "attempt")'
        BY <1>6 DEF ReconnectFails, GoesTo, At, ModeInv, Contacts
  <2>2. backoff' \in 0 .. MaxReconnectBackoff
        BY <2>1 DEF NextBackoff, TimesInv
  <2> QED
      BY <2>1, <2>2, Zenon DEF TimesInv
<1>7. CASE ReconnectSucceeds
      BY <1>7, TimesContact DEF ReconnectSucceeds, Contacts
<1>8. CASE OfflineTick
  <2>1. UNCHANGED <<attempts, backoff, contactPc>>
        BY <1>8 DEF OfflineTick
  <2>2. lastAttempt' \in 0 .. MaxReconnectBackoff
        BY <1>8 DEF OfflineTick, TimesInv
  <2> QED
      BY <2>1, <2>2, Zenon DEF TimesInv, At
<1>9. CASE UNCHANGED offlineVars
      BY <1>9 DEF offlineVars, TimesInv, At
<1> QED
    BY <1>1, <1>2, <1>3, <1>4, <1>5, <1>6, <1>7, <1>8, <1>9 DEF OfflineNext

LEMMA OfflineTyped == ModeInv /\ TimesInv => OfflineTypeOK
<1> SUFFICES ASSUME ModeInv, TimesInv PROVE OfflineTypeOK
    OBVIOUS
<1>1. owed \in 0 .. 3
      BY DEF ModeInv, ReportedOnce
<1> QED
    BY <1>1, Zenon DEF ModeInv, TimesInv, OfflineTypeOK

\* No offline period makes more attempts than MaxAttempts, also when a contact ends it between
\* the decision and the attempt, and the wait is the first interval or at most the longest.
THEOREM OfflineTypes == OfflineSpec => []OfflineTypeOK
BY ModeInit, ModeStep, TimesInit, TimesStep, OfflineTyped, PTL DEF OfflineSpec

-----------------------------------------------------------------------------
(* The backoff of the reconnect loop *)

Capped(b) == IF b > MaxReconnectBackoff THEN MaxReconnectBackoff ELSE b

\* g is the backoff of each attempt up to n.
BackoffUpTo(g, n) ==
  \A i \in 0..n : g[i] = IF i <= 1 THEN ReconnectInterval ELSE Capped(g[i - 1] * 2)

LEMMA CappedIsNat == ASSUME NEW b \in Nat PROVE Capped(b * 2) \in Nat
BY OfflineTimes DEF Capped

LEMMA BackoffExists == \A n \in Nat : \E g \in [Nat -> Nat] : BackoffUpTo(g, n)
<1> DEFINE S == {n \in Nat : \E g \in [Nat -> Nat] : BackoffUpTo(g, n)}
<1>1. 0 \in S
  <2> DEFINE g == [i \in Nat |-> ReconnectInterval]
  <2>1. g \in [Nat -> Nat]
        BY OfflineTimes
  <2>2. BackoffUpTo(g, 0)
        BY DEF BackoffUpTo
  <2> QED
      BY <2>1, <2>2
<1>2. ASSUME NEW n \in Nat, n \in S PROVE n + 1 \in S
  <2>1. PICK g \in [Nat -> Nat] : BackoffUpTo(g, n)
        BY <1>2
  <2> DEFINE b == IF n + 1 <= 1 THEN ReconnectInterval ELSE Capped(g[n] * 2)
             h == [g EXCEPT ![n + 1] = b]
  <2>2. b \in Nat
        BY CappedIsNat, OfflineTimes
  <2>3. h \in [Nat -> Nat] /\ h[n + 1] = b /\ \A i \in 0..n : h[i] = g[i]
    <3> HIDE DEF b
    <3> QED
        BY <2>2
  <2>4. BackoffUpTo(h, n + 1)
    <3> SUFFICES ASSUME NEW i \in 0..n + 1
                 PROVE  h[i] = IF i <= 1 THEN ReconnectInterval ELSE Capped(h[i - 1] * 2)
        BY DEF BackoffUpTo
    <3>1. CASE i = n + 1
      <4>1. n + 1 > 1 => h[n] = g[n]
            BY <2>3
      <4>2. i - 1 = n
            BY <3>1
      <4> HIDE DEF h
      <4> QED
          BY <2>3, <3>1, <4>1, <4>2
    <3>2. CASE i # n + 1
      <4>1. i \in 0..n /\ (i > 1 => i - 1 \in 0..n)
            BY <3>2
      <4>2. h[i] = g[i] /\ (i > 1 => h[i - 1] = g[i - 1])
            BY <2>3, <4>1
      <4> HIDE DEF h
      <4> QED
          BY <2>1, <4>1, <4>2 DEF BackoffUpTo
    <3> QED
        BY <3>1, <3>2
  <2> HIDE DEF h
  <2> QED
      BY <2>3, <2>4
<1>3. Nat \subseteq S
  <2> HIDE DEF S
  <2> QED
      BY <1>1, <1>2, SetInduction
<1> QED
    BY <1>3

LEMMA BackoffUnique ==
  ASSUME NEW g \in [Nat -> Nat], NEW h \in [Nat -> Nat], NEW n \in Nat,
         BackoffUpTo(g, n), BackoffUpTo(h, n)
  PROVE  g[n] = h[n]
<1> DEFINE S == {i \in Nat : i <= n => g[i] = h[i]}
<1>1. 0 \in S
      BY DEF BackoffUpTo
<1>2. ASSUME NEW i \in Nat, i \in S PROVE i + 1 \in S
  <2> SUFFICES ASSUME i + 1 <= n PROVE g[i + 1] = h[i + 1]
      OBVIOUS
  <2>1. g[i] = h[i] /\ i + 1 \in 0..n /\ (i + 1) - 1 = i
        BY <1>2
  <2> QED
      BY <2>1 DEF BackoffUpTo
<1>3. Nat \subseteq S
  <2> HIDE DEF S
  <2> QED
      BY <1>1, <1>2, SetInduction
<1> QED
    BY <1>3

\* The recursive definition of CalculateBackoff does define a function.
LEMMA CalculateBackoffIs ==
  /\ CalculateBackoff \in [Nat -> Nat]
  /\ \A n \in Nat : BackoffUpTo(CalculateBackoff, n)
<1> DEFINE G == [n \in Nat |-> CHOOSE g \in [Nat -> Nat] : BackoffUpTo(g, n)]
           f == [n \in Nat |-> G[n][n]]
           Body(c, n) == IF n <= 1 THEN ReconnectInterval ELSE Capped(c[n - 1] * 2)
<1>1. \A n \in Nat : G[n] \in [Nat -> Nat] /\ BackoffUpTo(G[n], n)
      BY BackoffExists
<1>2. f \in [Nat -> Nat] /\ \A n \in Nat : f[n] = G[n][n]
      BY <1>1
<1>3. ASSUME NEW n \in Nat PROVE f[n] = Body(f, n)
  <2>1. n \in 0..n
        OBVIOUS
  <2>2. G[n][n] = Body(G[n], n)
        BY <1>1, <2>1 DEF BackoffUpTo
  <2>3. CASE n <= 1
        BY <1>2, <2>2, <2>3
  <2>4. CASE n > 1
    <3>1. n - 1 \in Nat
          BY <2>4
    <3>2. BackoffUpTo(G[n], n - 1)
      <4>1. \A i \in 0..(n - 1) : i \in 0..n
            OBVIOUS
      <4> QED
          BY <1>1, <4>1 DEF BackoffUpTo
    <3>3. G[n][n - 1] = G[n - 1][n - 1]
      <4>1. /\ G[n] \in [Nat -> Nat] /\ G[n - 1] \in [Nat -> Nat]
            /\ BackoffUpTo(G[n - 1], n - 1)
            BY <1>1, <3>1
      <4> HIDE DEF f, G
      <4> QED
          BY <3>1, <3>2, <4>1, BackoffUnique
    <3> HIDE DEF f, G
    <3> QED
        BY <1>2, <2>2, <2>4, <3>1, <3>3
  <2> QED
      BY <2>3, <2>4
<1>4. f = [n \in Nat |-> Body(f, n)]
  <2> HIDE DEF f
  <2>1. DOMAIN f = Nat /\ f = [n \in Nat |-> f[n]]
        BY <1>2
  <2> QED
      BY <1>3, <2>1
<1>5. CalculateBackoff = CHOOSE c : c = [n \in Nat |-> Body(c, n)]
      BY DEF CalculateBackoff, Capped
<1>6. CalculateBackoff = [n \in Nat |-> Body(CalculateBackoff, n)]
  <2> HIDE DEF f
  <2> QED
      BY <1>4, <1>5
<1>7. \A n \in Nat : BackoffUpTo(CalculateBackoff, n)
      BY <1>6 DEF BackoffUpTo
<1>8. CalculateBackoff \in [Nat -> Nat]
  <2> DEFINE c == CalculateBackoff
             S == {n \in Nat : c[n] \in Nat}
  <2>0. \A n \in Nat : c[n] = Body(c, n)
        BY <1>6
  <2> HIDE DEF c
  <2>1. 0 \in S
        BY <2>0, OfflineTimes
  <2>2. ASSUME NEW n \in Nat, n \in S PROVE n + 1 \in S
    <3>1. c[n + 1] = Body(c, n + 1) /\ (n + 1) - 1 = n /\ n + 1 \in Nat
          BY <2>0
    <3>2. c[n] \in Nat
          BY <2>2
    <3> QED
        BY <3>1, <3>2, CappedIsNat, OfflineTimes
  <2>3. Nat \subseteq S
    <3> HIDE DEF S
    <3> QED
        BY <2>1, <2>2, SetInduction
  <2>4. \A n \in Nat : c[n] \in Nat
        BY <2>3
  <2> QED
      BY <1>6, <2>4 DEF c
<1> QED
    BY <1>7, <1>8

\* What the wait has to be at least, as a function of the attempts: the first attempt of a
\* period has not been counted yet while it waits, and has been while its answer is awaited.
Respected ==
  isOffline =>
    backoff >= CalculateBackoff[IF At("reconnect", "check") THEN attempts ELSE attempts + 1]

WaitInv ==
  /\ isOffline \in BOOLEAN
  /\ attempts \in Nat /\ backoff \in Nat
  /\ contactPc \in [Contacts -> {"idle", "attempt", "check", "announce"}]
  /\ Respected

\* The facts about CalculateBackoff that the steps need.
LEMMA BackoffFacts ==
  /\ \A n \in Nat : CalculateBackoff[n] \in Nat
  /\ CalculateBackoff[0] = ReconnectInterval /\ CalculateBackoff[1] = ReconnectInterval
  /\ \A n \in Nat : n >= 1 => CalculateBackoff[n + 1] = Capped(CalculateBackoff[n] * 2)
<1> DEFINE c == CalculateBackoff
<1> HIDE DEF c
<1>1. c \in [Nat -> Nat] /\ \A n \in Nat : BackoffUpTo(c, n)
      BY CalculateBackoffIs DEF c
<1>2. c[0] = ReconnectInterval /\ c[1] = ReconnectInterval
      BY <1>1 DEF BackoffUpTo
<1>3. ASSUME NEW n \in Nat, n >= 1 PROVE c[n + 1] = Capped(c[n] * 2)
  <2>1. n + 1 \in Nat /\ n + 1 \in 0..n + 1 /\ (n + 1) - 1 = n /\ n + 1 > 1
        BY <1>3
  <2> QED
      BY <1>1, <2>1 DEF BackoffUpTo
<1> QED
    BY <1>1, <1>2, <1>3 DEF c

LEMMA WaitInit == OfflineInit => WaitInv
<1> SUFFICES ASSUME OfflineInit PROVE WaitInv
    OBVIOUS
<1>1. contactPc \in [Contacts -> {"idle", "attempt", "check", "announce"}]
      BY DEF OfflineInit
<1> QED
    BY <1>1, OfflineTimes DEF OfflineInit, WaitInv, Respected

\* RecordMasterContact leaves no offline period, so nothing has to be respected.
LEMMA WaitContact ==
  ASSUME WaitInv, NEW c \in Contacts, RecordMasterContact(c)
  PROVE  WaitInv'
<1>1. isOffline' = FALSE
  <2>1. CASE isOffline
        BY <2>1 DEF RecordMasterContact
  <2>2. CASE ~isOffline
    <3>1. isOffline' = isOffline
          BY <2>2 DEF RecordMasterContact
    <3> QED
        BY <2>2, <3>1 DEF WaitInv
  <2> QED
      BY <2>1, <2>2
<1>2. attempts' \in Nat /\ backoff' \in Nat
      BY OfflineTimes DEF RecordMasterContact, WaitInv
<1>3. contactPc' \in [Contacts -> {"idle", "attempt", "check", "announce"}]
      BY DEF RecordMasterContact, WaitInv, GoesTo
<1> QED
    BY <1>1, <1>2, <1>3 DEF WaitInv, Respected

LEMMA WaitStep ==
  ASSUME ReconnectInterval <= MaxReconnectBackoff, WaitInv, [OfflineNext]_offlineVars
  PROVE  WaitInv'
<1> USE OfflineTimes, BackoffFacts
<1>1. CASE EvaluateConnectivity
      BY <1>1 DEF EvaluateConnectivity, WaitInv, Respected, At
<1>2. CASE Heartbeat
      BY <1>2, WaitContact DEF Heartbeat, Contacts
<1>3. ASSUME NEW c \in Contacts, Announce(c) PROVE WaitInv'
  <2>1. contactPc' = [contactPc EXCEPT ![c] = "idle"] /\ contactPc[c] = "announce"
        BY <1>3 DEF Announce, GoesTo, At
  <2>2. At("reconnect", "check")' <=> At("reconnect", "check")
        BY <2>1 DEF WaitInv, At, Contacts
  <2>3. UNCHANGED <<isOffline, attempts, backoff>>
        BY <1>3 DEF Announce
  <2> QED
      BY <2>1, <2>2, <2>3 DEF WaitInv, Respected
<1>4. CASE DecideAttempt
  <2>1. ~At("reconnect", "check") /\ ~At("reconnect", "check")'
        BY <1>4 DEF DecideAttempt, GoesTo, At, WaitInv, Contacts
  <2>2. contactPc' \in [Contacts -> {"idle", "attempt", "check", "announce"}]
        BY <1>4 DEF DecideAttempt, GoesTo, WaitInv
  <2>3. isOffline' = isOffline /\ backoff' = backoff
        BY <1>4 DEF DecideAttempt
  <2>4. attempts' = attempts
        BY <1>4 DEF DecideAttempt
  <2> QED
      BY <2>1, <2>2, <2>3, <2>4 DEF WaitInv, Respected
<1>5. CASE CountAttempt
  <2>1. ~At("reconnect", "check") /\ At("reconnect", "check")'
        BY <1>5 DEF CountAttempt, GoesTo, At, WaitInv, Contacts
  <2>2. contactPc' \in [Contacts -> {"idle", "attempt", "check", "announce"}]
        BY <1>5 DEF CountAttempt, GoesTo, WaitInv
  <2>3. isOffline' = isOffline /\ backoff' = backoff
        BY <1>5 DEF CountAttempt
  <2>4. attempts' = attempts + 1
        BY <1>5 DEF CountAttempt
  <2> QED
      BY <2>1, <2>2, <2>3, <2>4 DEF WaitInv, Respected
<1>6. CASE ReconnectFails
  <2>1. At("reconnect", "check") /\ ~At("reconnect", "check")'
        BY <1>6 DEF ReconnectFails, GoesTo, At, WaitInv, Contacts
  <2>2. /\ backoff' = NextBackoff(backoff)
        /\ UNCHANGED <<isOffline, attempts>>
        BY <1>6 DEF ReconnectFails
  <2>3. backoff' \in Nat
        BY <2>2 DEF NextBackoff, WaitInv
  <2>4. ASSUME isOffline PROVE backoff' >= CalculateBackoff[attempts + 1]
    <3>1. backoff >= CalculateBackoff[attempts] /\ CalculateBackoff[attempts] \in Nat
          BY <2>1, <2>4 DEF WaitInv, Respected
    <3>2. CASE attempts = 0
          BY <2>2, <3>1, <3>2 DEF NextBackoff, WaitInv
    <3>3. CASE attempts # 0
      <4>1. attempts >= 1 /\ attempts \in Nat /\ backoff \in Nat
            BY <3>3 DEF WaitInv
      <4>2. CalculateBackoff[attempts + 1] = Capped(CalculateBackoff[attempts] * 2)
            BY <4>1
      <4> QED
          BY <2>2, <3>1, <4>1, <4>2 DEF NextBackoff, Capped
    <3> QED
        BY <3>2, <3>3
  <2>5. contactPc' \in [Contacts -> {"idle", "attempt", "check", "announce"}]
        BY <1>6 DEF ReconnectFails, GoesTo, WaitInv
  <2> QED
      BY <2>1, <2>2, <2>3, <2>4, <2>5 DEF WaitInv, Respected
<1>7. CASE ReconnectSucceeds
      BY <1>7, WaitContact DEF ReconnectSucceeds, Contacts
<1>8. CASE OfflineTick
      BY <1>8 DEF OfflineTick, WaitInv, Respected, At
<1>9. CASE UNCHANGED offlineVars
      BY <1>9 DEF offlineVars, WaitInv, Respected, At
<1> QED
    BY <1>1, <1>2, <1>3, <1>4, <1>5, <1>6, <1>7, <1>8, <1>9 DEF OfflineNext

\* The wait before an attempt is never shorter than the documented formula gives for the
\* attempts of this offline period (AttemptReconnect and CalculateBackoff of
\* monitor/offline.go), for every length of interval, whatever answers come in late from an
\* earlier period -- provided that the first interval is no longer than the longest wait,
\* which holds of the defaults and which nothing in the code enforces.
THEOREM BackoffIsRespected ==
  ASSUME ReconnectInterval <= MaxReconnectBackoff
  PROVE  OfflineSpec => []BackoffRespected
<1>1. WaitInv => BackoffRespected
      BY DEF WaitInv, Respected, BackoffRespected, At
<1>2. WaitInv /\ [OfflineNext]_offlineVars => WaitInv'
      BY WaitStep
<1> QED
    BY <1>1, <1>2, WaitInit, PTL DEF OfflineSpec

-----------------------------------------------------------------------------
(* Emergency mode and detector *)

\* The part of TrafficTypeOK that does not speak of the samples: what the analyzer's window
\* holds decides only which call a goroutine makes next.
GuardInv ==
  /\ originalLimit \in PlanLimits
  /\ emergency \in {Off} \cup 0..EmergencyTime
  /\ watcher \in [Watchers -> {"idle", "crashed", "activate", "detect", "clear"}]
  /\ attack \in BOOLEAN
  /\ alerts = IF attack THEN 1 ELSE 0
  /\ limitSet \in Nat

LEMMA GuardInit == TrafficInit => GuardInv
BY TrafficAssumption DEF TrafficInit, EmergencyInit, DetectorInit, GuardInv

LEMMA GuardStep == GuardInv /\ [TrafficNext]_trafficVars => GuardInv'
<1> SUFFICES ASSUME GuardInv, [TrafficNext]_trafficVars PROVE GuardInv'
    OBVIOUS
<1> USE TrafficAssumption DEF GuardInv, Off
<1>1. ASSUME NEW w \in Watchers, Watch(w) PROVE GuardInv'
      BY <1>1 DEF Watch
<1>2. ASSUME NEW w \in Watchers, AfterCrash(w) PROVE GuardInv'
      BY <1>2 DEF AfterCrash
<1>3. ASSUME NEW w \in Watchers, Activate(w) PROVE GuardInv'
      BY <1>3 DEF Activate, Acts
<1>4. ASSUME NEW w \in Watchers, Detect(w) PROVE GuardInv'
  <2>1. CASE attack
        BY <1>4, <2>1 DEF Detect, Acts
  <2>2. CASE ~attack
        BY <1>4, <2>2 DEF Detect, Acts
  <2> QED
      BY <2>1, <2>2
<1>5. ASSUME NEW w \in Watchers, Clear(w) PROVE GuardInv'
      BY <1>5 DEF Clear, Acts
<1>6. ASSUME NEW rps \in Rates, RecordSample(rps) PROVE GuardInv'
      BY <1>6 DEF RecordSample
<1>7. ASSUME NEW limit \in PlanLimits, SetPlanThreshold(limit) PROVE GuardInv'
      BY <1>7 DEF SetPlanThreshold
<1>8. CASE CheckExpiry
      BY <1>8 DEF CheckExpiry
<1>9. CASE TrafficTick
      BY <1>9, SMTT(30) DEF TrafficTick
<1>10. CASE UNCHANGED trafficVars
      BY <1>10 DEF trafficVars
<1> QED
    BY <1>1, <1>2, <1>3, <1>4, <1>5, <1>6, <1>7, <1>8, <1>9, <1>10 DEF TrafficNext

\* The samples and the limit of the plan, which the calls of the other goroutines leave alone.
Sample == [rps : Rates, age : 0..AnalyzerWindow + 1]
SamplesInv == samples \in Seq(Sample) /\ Len(samples) <= MaxSamples
LimitsInv == planThreshold \in PlanLimits /\ strict \in BOOLEAN

LEMMA SampleRecorded ==
  ASSUME SamplesInv, NEW rps \in Rates, RecordSample(rps) PROVE SamplesInv'
<1> DEFINE all == Append(samples, [rps |-> rps, age |-> 0])
<1>1. AnalyzerWindow \in Nat /\ MaxSamples \in Nat
      BY TrafficAssumption
<1>2. PICK first \in DOMAIN all : samples' = SubSeq(all, first, Len(all))
      BY DEF RecordSample
<1>3. all \in Seq(Sample) /\ Len(all) = Len(samples) + 1 /\ Len(samples) \in Nat
  <2>1. [rps |-> rps, age |-> 0] \in Sample
        BY <1>1 DEF Sample
  <2>2. samples \in Seq(Sample)
        BY DEF SamplesInv
  <2> QED
      BY ONLY <2>1, <2>2
<1>4. Len(samples) < MaxSamples
      BY DEF RecordSample
<1> HIDE DEF all
<1>5. first \in 1..Len(all) /\ Len(all) \in Nat
      BY <1>2, <1>3
<1>6. \A i \in first..Len(all) : all[i] \in Sample
      BY <1>3, <1>5
<1>7. SubSeq(all, first, Len(all)) \in Seq(Sample) /\ Len(SubSeq(all, first, Len(all))) <= Len(all)
      BY <1>3, <1>5, <1>6, SubSeqProperties
<1> QED
    BY <1>1, <1>2, <1>3, <1>4, <1>7 DEF SamplesInv

LEMMA SamplesStep ==
  ASSUME SamplesInv, LimitsInv, [TrafficNext]_trafficVars PROVE SamplesInv' /\ LimitsInv'
<1>0. UNCHANGED samples => SamplesInv'
      BY DEF SamplesInv
<1>1. ASSUME NEW w \in Watchers, Watch(w) \/ AfterCrash(w) PROVE SamplesInv' /\ LimitsInv'
      BY <1>0, <1>1 DEF Watch, AfterCrash, LimitsInv
<1>2. ASSUME NEW w \in Watchers, Activate(w) \/ Clear(w) PROVE SamplesInv' /\ LimitsInv'
      BY <1>0, <1>2 DEF Activate, Clear, LimitsInv
<1>3. ASSUME NEW w \in Watchers, Detect(w) PROVE SamplesInv' /\ LimitsInv'
  <2>1. UNCHANGED <<samples, planThreshold>>
        BY <1>3 DEF Detect
  <2>2. strict' \in BOOLEAN
        BY <1>3 DEF Detect, LimitsInv
  <2> QED
      BY <1>0, <2>1, <2>2 DEF LimitsInv
<1>4. ASSUME NEW rps \in Rates, RecordSample(rps) PROVE SamplesInv' /\ LimitsInv'
  <2>1. UNCHANGED <<planThreshold, strict>>
        BY <1>4 DEF RecordSample
  <2> QED
      BY <1>4, <2>1, SampleRecorded DEF LimitsInv
<1>5. ASSUME NEW limit \in PlanLimits, SetPlanThreshold(limit) PROVE SamplesInv' /\ LimitsInv'
      BY <1>0, <1>5 DEF SetPlanThreshold, LimitsInv
<1>6. ASSUME TrafficTick PROVE SamplesInv' /\ LimitsInv'
  <2>1. samples' = [i \in DOMAIN samples |->
          [samples[i] EXCEPT !.age = IF @ > AnalyzerWindow THEN @ ELSE @ + 1]]
        BY <1>6 DEF TrafficTick
  <2>2. samples \in Seq(Sample) /\ Len(samples) \in Nat /\ DOMAIN samples = 1..Len(samples)
        BY DEF SamplesInv
  <2>3. ASSUME NEW s \in Sample
        PROVE  [s EXCEPT !.age = IF @ > AnalyzerWindow THEN @ ELSE @ + 1] \in Sample
    <3>1. s.age \in 0 .. AnalyzerWindow + 1 /\ AnalyzerWindow \in Nat
          BY TrafficAssumption DEF Sample
    <3>2. (IF s.age > AnalyzerWindow THEN s.age ELSE s.age + 1) \in 0 .. AnalyzerWindow + 1
          BY ONLY <3>1
    <3> QED
        BY <3>2 DEF Sample
  <2>4. \A i \in 1..Len(samples) :
          [samples[i] EXCEPT !.age = IF @ > AnalyzerWindow THEN @ ELSE @ + 1] \in Sample
        BY <2>2, <2>3
  <2>5. samples' \in [1..Len(samples) -> Sample]
        BY <2>1, <2>2, <2>4
  <2>6. samples' \in Seq(Sample) /\ Len(samples') = Len(samples)
        BY ONLY <2>2, <2>5
  <2>7. UNCHANGED <<planThreshold, strict>>
        BY <1>6 DEF TrafficTick
  <2> QED
      BY <2>6, <2>7 DEF SamplesInv, LimitsInv
<1>7. CheckExpiry \/ UNCHANGED trafficVars => SamplesInv' /\ LimitsInv'
      BY <1>0 DEF CheckExpiry, trafficVars, LimitsInv
<1> QED
    BY <1>1, <1>2, <1>3, <1>4, <1>5, <1>6, <1>7 DEF TrafficNext

\* The window of the analyzer holds samples of its own age only and never more than it was
\* given, and the detector alerts once until it is cleared (RecordSample, pruneOldSamples and
\* the modes of monitor/traffic.go).
THEOREM TrafficTypes == TrafficSpec => []TrafficTypeOK
<1>1. TrafficInit => SamplesInv /\ LimitsInv
  <2> SUFFICES ASSUME TrafficInit PROVE SamplesInv /\ LimitsInv
      OBVIOUS
  <2>1. samples = <<>> /\ planThreshold \in PlanLimits /\ strict = FALSE
        BY DEF TrafficInit, DetectorInit
  <2>2. samples \in Seq(Sample) /\ Len(samples) = 0
        BY ONLY <2>1
  <2>3. 0 <= MaxSamples
        BY TrafficAssumption
  <2> QED
      BY ONLY <2>1, <2>2, <2>3 DEF SamplesInv, LimitsInv
<1>2. ASSUME SamplesInv, LimitsInv, GuardInv PROVE TrafficTypeOK
  <2>1. alerts \in 0..1
        BY <1>2 DEF GuardInv
  <2>2. samples \in Seq([rps : Rates, age : 0..AnalyzerWindow + 1]) /\ Len(samples) <= MaxSamples
        BY <1>2 DEF SamplesInv, Sample
  <2> QED
      BY <1>2, <2>1, <2>2, Zenon DEF GuardInv, LimitsInv, TrafficTypeOK
<1> QED
    BY <1>1, <1>2, GuardInit, GuardStep, SamplesStep, PTL DEF TrafficSpec

-----------------------------------------------------------------------------
(* The loader of the country maps *)

\* The list is kept before the first entry of it is written, so whenever the loader waits it
\* is known to the next refresh.  In a round without an error, what the loop has not written
\* yet is all that is missing of it.
GeoInv ==
  /\ GeoTypeOK
  /\ geoStep \in {"block", "wait", "refresh csv", "refresh block"} => countries = Listed
  /\ geoStep = "refresh block" /\ clean => Valid \ left \subseteq blocklist
  /\ RefreshCatchesUp

LEMMA GeoInitial == GeoInit => GeoInv
BY GeoIPAssumption DEF GeoInit, GeoInv, GeoTypeOK, RefreshCatchesUp

LEMMA GeoStep == GeoInv /\ [GeoNext]_geoVars => GeoInv'
<1> SUFFICES ASSUME GeoInv, [GeoNext]_geoVars PROVE GeoInv'
    OBVIOUS
<1> USE GeoIPAssumption DEF GeoInv, GeoTypeOK, RefreshCatchesUp, GeoGoes, Valid
<1>1. ASSUME NEW n \in Networks, WriteNetwork(n) PROVE GeoInv'
  <2>1. geoipMap' \in [Networks -> Countries \cup {None}]
        BY <1>1 DEF WriteNetwork, UpdateGeoIPMap
  <2> QED
      BY <1>1, <2>1 DEF WriteNetwork
<1>2. ASSUME NEW n \in Networks, NEW c \in Countries \cup {None}, NewFile(n, c) PROVE GeoInv'
      BY <1>2 DEF NewFile
<1>3. ASSUME NEW c \in Countries, WriteCountry(c) PROVE GeoInv'
  <2>1. CASE left' = left \ {c} /\ UpdateCountryBlocklist(c) /\ UNCHANGED <<geoStep, clean>>
    <3>1. GeoTypeOK'
          BY <1>3, <2>1 DEF WriteCountry, UpdateCountryBlocklist
    <3> QED
        BY <1>3, <2>1, <3>1 DEF WriteCountry, UpdateCountryBlocklist
  <2>2. CASE left' = {} /\ geoStep' = "wait" /\ clean' = FALSE /\ UNCHANGED blocklist
        BY <1>3, <2>2 DEF WriteCountry
  <2> QED
      BY <1>3, <2>1, <2>2 DEF WriteCountry
<1>4. CASE OpenCSV
      BY <1>4 DEF OpenCSV, Parsed
<1>5. CASE CSVLoaded
      BY <1>5 DEF CSVLoaded
<1>6. CASE ReadEnv
      BY <1>6 DEF ReadEnv, KeepList
<1>7. CASE Blocked
  <2>1. GeoTypeOK'
        BY <1>7 DEF Blocked
  <2> QED
      BY <1>7, <2>1 DEF Blocked
<1>8. CASE Refresh
      BY <1>8 DEF Refresh, Parsed
<1>9. CASE UNCHANGED geoVars
      BY <1>9 DEF geoVars
<1> QED
    BY <1>1, <1>2, <1>3, <1>4, <1>5, <1>6, <1>7, <1>8, <1>9 DEF GeoNext

\* Whatever the CSV file holds, whichever calls of bpftool failed at startup and however often
\* the file is replaced, a refresh that went through without an error leaves every valid
\* country of the list blocked (geoip_loader.go, refresh and LoadBlockedCountriesFromEnv).
THEOREM RefreshCompletes == GeoSpec => []RefreshCatchesUp
<1>1. GeoSpec => []GeoInv
      BY GeoInitial, GeoStep, PTL DEF GeoSpec
<1> QED
    BY <1>1, PTL DEF GeoInv

\* For any file and any list, only codes that are countries get into the blocklist, and what
\* the maps and the loader hold keeps its type (LoadFromCSV, LoadBlockedCountries and refresh of
\* geoip_loader.go).
THEOREM GeoTypes == GeoSpec => []GeoTypeOK
<1>1. GeoInv => GeoTypeOK
      BY DEF GeoInv
<1> QED
    BY <1>1, GeoInitial, GeoStep, PTL DEF GeoSpec

-----------------------------------------------------------------------------
(* Snapshots *)

\* A snapshot from which a ban was cut has nothing else left.
Lean(s) == "bans" \in s.cut => HasNone(s, {"rate", "sessions"})

\* What is handed to the writer fits, and what is about to be renamed is what was handed over.
SnapInv ==
  /\ SnapshotTypeOK
  /\ Lean(snapshot)
  /\ snStep \in {"write", "rename"} => Size(snapshot) <= SnapshotMaxSize
  /\ snStep = "rename" => tmpFile = snapshot
  /\ BansLeaveLast

LEMMA EmptyFacts == Empty \in Snapshot /\ Lean(Empty)
BY SnapshotAssumption DEF Empty, Snapshot, EntryKinds, Lean, HasNone

LEMMA SizeIsInt == ASSUME NEW s \in Snapshot PROVE Size(s) \in Int
BY SnapshotAssumption DEF Size, Snapshot, EntryKinds

\* A cut takes from one kind that has entries, in the order of truncateSnapshot.
LEMMA CutIsLean ==
  ASSUME NEW s \in Snapshot, Lean(s), ~HasNone(s, EntryKinds),
         NEW k, k = NextToCut(s),
         NEW t, t = [n |-> [s.n EXCEPT ![k] = NewestHalf(@)], cut |-> s.cut \cup {k}]
  PROVE  t \in Snapshot /\ Lean(t)
<1> DEFINE P(j) == /\ s.n[j] > 0
                   /\ j = "sessions" => HasNone(s, {"rate"})
                   /\ j = "bans" => HasNone(s, {"rate", "sessions"})
<1>0. s.n \in [EntryKinds -> 0..MaxEntries] /\ s.cut \in SUBSET EntryKinds
      BY DEF Snapshot
<1>1. \E j \in EntryKinds : P(j)
  <2>1. PICK i \in EntryKinds : s.n[i] # 0
        BY DEF HasNone
  <2>2. \A j \in EntryKinds : s.n[j] \in Nat
        BY <1>0, SnapshotAssumption
  <2>3. CASE s.n["rate"] # 0
        BY <2>2, <2>3 DEF EntryKinds
  <2>4. CASE s.n["rate"] = 0 /\ s.n["sessions"] # 0
        BY <2>2, <2>4 DEF EntryKinds, HasNone
  <2>5. CASE s.n["rate"] = 0 /\ s.n["sessions"] = 0
        BY <2>1, <2>2, <2>5 DEF EntryKinds, HasNone
  <2> QED
      BY <2>3, <2>4, <2>5
<1>2. k \in EntryKinds /\ P(k)
  <2>1. k = CHOOSE j \in EntryKinds : P(j)
        BY DEF NextToCut
  <2> HIDE DEF P
  <2> QED
      BY <1>1, <2>1
<1>3. s.n[k] \in 0..MaxEntries /\ NewestHalf(s.n[k]) \in 0..MaxEntries
      BY <1>0, <1>2, SnapshotAssumption DEF NewestHalf
<1>4. t.n = [s.n EXCEPT ![k] = NewestHalf(s.n[k])] /\ t.cut = s.cut \cup {k}
      OBVIOUS
<1>5. t \in Snapshot
      BY <1>0, <1>2, <1>3 DEF Snapshot
<1>6. ASSUME "bans" \in t.cut PROVE HasNone(t, {"rate", "sessions"})
  <2>1. CASE k = "bans"
        BY <1>0, <1>2, <1>4, <2>1 DEF HasNone, EntryKinds
  <2>2. CASE "bans" \in s.cut
    <3>1. k = "bans"
          BY <1>2, <2>2 DEF Lean, HasNone, EntryKinds
    <3> QED
        BY <2>1, <3>1
  <2> QED
      BY <1>4, <1>6, <2>1, <2>2
<1> QED
    BY <1>5, <1>6 DEF Lean

LEMMA SnapInit == SnapshotInit => SnapInv
BY EmptyFacts DEF SnapshotInit, SnapInv, SnapshotTypeOK, BansLeaveLast, Files

LEMMA SnapStep == SnapInv /\ [SnapshotNext]_snapshotVars => SnapInv'
<1> SUFFICES ASSUME SnapInv, [SnapshotNext]_snapshotVars PROVE SnapInv'
    OBVIOUS
<1> USE EmptyFacts DEF SnapInv, SnapshotTypeOK, SnGoes, SnEnds
<1>1. CASE Capture
  <2>1. PICK n \in [EntryKinds -> 0..MaxEntries] : snapshot' = [n |-> n, cut |-> {}]
        BY <1>1 DEF Capture
  <2>2. snapshot' \in Snapshot /\ Lean(snapshot')
        BY <2>1 DEF Snapshot, Lean
  <2> QED
      BY <1>1, <2>2 DEF Capture, BansLeaveLast, Lean, HasNone
<1>2. CASE Fit
  <2>1. CASE Size(snapshot) <= SnapshotMaxSize
        BY <1>2, <2>1 DEF Fit, BansLeaveLast, Lean, HasNone, Size
  <2>2. CASE ~(Size(snapshot) <= SnapshotMaxSize) /\ HasNone(snapshot, EntryKinds)
        BY <1>2, <2>2 DEF Fit, BansLeaveLast, Lean, HasNone
  <2>3. CASE ~(Size(snapshot) <= SnapshotMaxSize) /\ ~HasNone(snapshot, EntryKinds)
    <3>1. /\ snStep = "fit" /\ snStep' = "fit"
          /\ snapshot' = [n |-> [snapshot.n EXCEPT ![NextToCut(snapshot)] = NewestHalf(@)],
                          cut |-> snapshot.cut \cup {NextToCut(snapshot)}]
          /\ UNCHANGED <<tmpFile, snFile, lastSnapshot>>
          BY <1>2, <2>3 DEF Fit
    <3>2. snapshot' \in Snapshot /\ Lean(snapshot')
          BY <2>3, <3>1, CutIsLean
    <3> QED
        BY <3>1, <3>2 DEF BansLeaveLast, Lean, HasNone
  <2> QED
      BY <2>1, <2>2, <2>3
<1>3. CASE WriteTmp
  <2>1. CASE SnGoes("write", "rename") /\ tmpFile' = snapshot /\ UNCHANGED snapshot
        BY <1>3, <2>1 DEF WriteTmp, Files, BansLeaveLast, Lean, HasNone, Size
  <2>2. CASE SnEnds("write") /\ tmpFile' \in {tmpFile, TornFile}
        BY <1>3, <2>2 DEF WriteTmp, Files, BansLeaveLast, Lean, HasNone
  <2> QED
      BY <1>3, <2>1, <2>2 DEF WriteTmp
<1>4. CASE RenameTmp
  <2>1. CASE snFile' = tmpFile /\ lastSnapshot' = TRUE
    <3>1. snFile' = snapshot
          BY <1>4, <2>1 DEF RenameTmp
    <3>2. snFile' \in Snapshot /\ Size(snFile') <= SnapshotMaxSize /\ Lean(snFile')
          BY <1>4, <3>1 DEF RenameTmp
    <3> QED
        BY <1>4, <2>1, <3>2 DEF RenameTmp, BansLeaveLast, Files, Lean, HasNone
  <2>2. CASE UNCHANGED <<snFile, lastSnapshot>>
        BY <1>4, <2>2 DEF RenameTmp, BansLeaveLast, Files, Lean, HasNone
  <2> QED
      BY <1>4, <2>1, <2>2 DEF RenameTmp
<1>5. CASE SnCrash
      BY <1>5 DEF SnCrash, BansLeaveLast, Files, Lean, HasNone
<1>6. CASE UNCHANGED snapshotVars
      BY <1>6 DEF snapshotVars, BansLeaveLast, Lean, HasNone, Size
<1> QED
    BY <1>1, <1>2, <1>3, <1>4, <1>5, <1>6 DEF SnapshotNext

\* For every size limit and every number of entries, the snapshot on disk is whole and fits,
\* and has lost a ban only when nothing else is left in it, wherever the process ended
\* (truncateSnapshot and writeFile of monitor/snapshot.go).
THEOREM SnapshotKeepsBans == SnapshotSpec => []BansLeaveLast
<1>1. SnapshotSpec => []SnapInv
      BY SnapInit, SnapStep, PTL DEF SnapshotSpec
<1> QED
    BY <1>1, PTL DEF SnapInv

\* For any numbers of entries and any size limit, what is being fitted is a snapshot, and each
\* of the two files is a snapshot, missing or torn (writeSnapshot and writeFile of snapshot.go).
THEOREM SnapshotTypes == SnapshotSpec => []SnapshotTypeOK
<1>1. SnapInv => SnapshotTypeOK
      BY DEF SnapInv
<1> QED
    BY <1>1, SnapInit, SnapStep, PTL DEF SnapshotSpec

-----------------------------------------------------------------------------
(* The controller of botnet mode *)

\* A rate of half the threshold was read and is not yet taken into account.
HighRateSeen == bcPc = "decide" /\ ~(lastRate < Half)

\* The time below the threshold that the controller counts is no longer than the time that has
\* been calm, and it goes on to write only after a whole cooldown of it.
CalmInv ==
  /\ count \in Nat /\ lastRate \in Nat
  /\ belowThreshold \in BOOLEAN /\ forced \in BOOLEAN
  /\ belowFor \in 0 .. Cooldown /\ calm \in 0 .. Cooldown
  /\ belowThreshold /\ ~HighRateSeen => belowFor <= calm
  /\ bcPc \in {"read", "write"} /\ ~forced => calm = Cooldown

LEMMA HalfIsNat == Half \in Nat
BY KernelConfigAssumption DEF Half

LEMMA CalmInit == KernelInit => CalmInv
<1> SUFFICES ASSUME KernelInit PROVE CalmInv
    OBVIOUS
<1>1. /\ bcPc = "idle" /\ belowThreshold = FALSE /\ forced = FALSE
      /\ belowFor = 0 /\ calm = 0
      BY DEF KernelInit
<1>2. ~belowThreshold
      BY <1>1
<1>3. belowThreshold \in BOOLEAN /\ forced \in BOOLEAN
      BY <1>1
<1>4. belowFor \in 0 .. Cooldown /\ calm \in 0 .. Cooldown
      BY <1>1, KernelConfigAssumption
<1>5. ~(bcPc \in {"read", "write"} /\ ~forced)
      BY <1>1
<1>6. count \in Nat /\ lastRate \in Nat
      BY DEF KernelInit
<1> QED
    BY <1>2, <1>3, <1>4, <1>5, <1>6 DEF CalmInv

LEMMA CalmStep == CalmInv /\ [KernelNext]_kernelVars => CalmInv'
<1> SUFFICES ASSUME CalmInv, [KernelNext]_kernelVars PROVE CalmInv'
    OBVIOUS
<1> USE HalfIsNat, KernelConfigAssumption DEF CalmInv, HighRateSeen, BcGoes, Kernel, mapVars, filterVars,
        keyVars, controllerVars
<1>1. CASE TrackNewIP
  <2>1. count' \in Nat
        BY <1>1 DEF TrackNewIP
  <2> QED
      BY <1>1, <2>1 DEF TrackNewIP
<1>2. CASE SyncConfig
      BY <1>2 DEF SyncConfig
<1>3. CASE RotateSynCookieKey
      BY <1>3 DEF RotateSynCookieKey
<1>4. CASE PollReads
  <2>1. PICK rate \in {count, count \div 256} :
             lastRate' = rate /\ calm' = IF rate < Half THEN calm ELSE 0
        BY <1>4 DEF PollReads
  <2>2. /\ bcPc = "idle" /\ bcPc' = "decide"
        /\ UNCHANGED <<belowThreshold, belowFor, forced, count>>
        BY <1>4 DEF PollReads
  <2>3. rate \in Nat
        OBVIOUS
  <2> QED
      BY <2>1, <2>2, <2>3
<1>5. CASE PollFails
      BY <1>5 DEF PollFails
<1>6. CASE Decide
  <2>1. CASE lastRate < Half /\ ~belowThreshold
    <3>1. /\ belowThreshold' = TRUE /\ belowFor' = 0 /\ bcPc' = "idle"
          /\ UNCHANGED <<forced, calm, count, lastRate>>
          BY <1>6, <2>1 DEF Decide
    <3> QED
        BY <3>1
  <2>2. CASE lastRate < Half /\ belowThreshold
    <3>0. ~(lastRate >= Half)
          BY <2>2
    <3>1. /\ bcPc = "decide"
          /\ bcPc' = IF belowFor >= Cooldown /\ botnetActive THEN "read" ELSE "idle"
          /\ UNCHANGED <<belowThreshold, belowFor>>
          BY ONLY <1>6, <2>2, <3>0, Zenon DEF Decide, BcGoes
    <3>2. UNCHANGED <<forced, calm, count, lastRate>>
          BY <1>6 DEF Decide
    <3> QED
        BY <2>2, <3>1, <3>2
  <2>3. CASE ~(lastRate < Half)
        BY <1>6, <2>3 DEF Decide
  <2> QED
      BY <2>1, <2>2, <2>3
<1>7. CASE ForceDisable
      BY <1>7 DEF ForceDisable
<1>8. CASE ReadConfig
      BY <1>8 DEF ReadConfig
<1>9. CASE WriteConfig
  <2>1. /\ bcPc = "write" /\ bcPc' = "idle" /\ forced' = FALSE
        /\ UNCHANGED <<belowFor, calm, count, lastRate>>
        BY <1>9 DEF WriteConfig
  <2>2. \/ belowThreshold' = (belowThreshold /\ ~forced)
        \/ belowThreshold' = belowThreshold
        BY <1>9 DEF WriteConfig
  <2>3. belowThreshold' \in BOOLEAN /\ (belowThreshold' => belowThreshold)
    <3>1. belowThreshold' = (belowThreshold /\ ~forced) => (belowThreshold' => belowThreshold)
          BY Zenon
    <3>2. belowThreshold' \in BOOLEAN
          BY <2>2, Zenon
    <3> QED
        BY <2>2, <3>1, <3>2
  <2> QED
      BY <2>1, <2>3
<1>10. CASE KernelTick
      BY <1>10 DEF KernelTick
<1>11. CASE UNCHANGED kernelVars
      BY <1>11 DEF kernelVars
<1> QED
    BY <1>1, <1>2, <1>3, <1>4, <1>5, <1>6, <1>7, <1>8, <1>9, <1>10, <1>11 DEF KernelNext

\* For every threshold and cooldown, the controller turns botnet mode off only after a whole
\* cooldown in which it read no rate of half the threshold, whatever polls failed and whatever
\* the filter did meanwhile (poll of botnet_controller.go).
THEOREM OffOnlyWhenCalm == KernelSpec => CalmBeforeOff
<1>1. CalmInv => (bcPc = "write" /\ ~forced /\ mode = 1 /\ mode' = 0 => calm >= Cooldown)
      BY KernelConfigAssumption DEF CalmInv
<1> QED
    BY <1>1, CalmInit, CalmStep, PTL DEF KernelSpec, CalmBeforeOff

\* The type in two parts, numbers apart from flags.
KernelNumbers ==
  /\ config \in Settings /\ copy \in Settings /\ mode \in {0, 1}
  /\ count \in 0 .. Threshold + 1 /\ lastRate \in 0 .. Threshold + 1
  /\ synced \in {"not yet", "done", "failed", "refused"}
  /\ kernelKey \in 0 .. MaxKeys /\ lastKey \in 0 .. kernelKey
  /\ bcPc \in {"idle", "decide", "read", "write"}
  /\ belowFor \in 0 .. Cooldown /\ calm \in 0 .. Cooldown

KernelFlags ==
  /\ windowOver \in BOOLEAN /\ pollDue \in BOOLEAN /\ belowThreshold \in BOOLEAN
  /\ botnetActive \in BOOLEAN /\ forced \in BOOLEAN

LEMMA KernelTypeInit == KernelInit => KernelNumbers /\ KernelFlags
<1> SUFFICES ASSUME KernelInit PROVE KernelNumbers /\ KernelFlags
    OBVIOUS
<1>1. /\ config \in Settings /\ copy \in Settings /\ mode \in {0, 1}
      /\ synced = "not yet" /\ bcPc = "idle"
      BY DEF KernelInit, Settings
<1>2. count = 0 /\ lastRate = 0 /\ kernelKey = 0 /\ lastKey = 0 /\ belowFor = 0 /\ calm = 0
      BY DEF KernelInit
<1>a. 0 \in 0 .. Threshold + 1 /\ 0 \in 0 .. MaxKeys /\ 0 \in 0 .. 0 /\ 0 \in 0 .. Cooldown
      BY KernelConfigAssumption
<1>b. synced \in {"not yet", "done", "failed", "refused"} /\ bcPc \in {"idle", "decide", "read", "write"}
      BY <1>1
<1>3. KernelNumbers
      BY <1>1, <1>2, <1>a, <1>b, Zenon DEF KernelNumbers
<1>4. KernelFlags
      BY DEF KernelInit, KernelFlags
<1> QED
    BY <1>3, <1>4

LEMMA KernelNumbersStep == KernelNumbers /\ [KernelNext]_kernelVars => KernelNumbers'
<1> SUFFICES ASSUME KernelNumbers, [KernelNext]_kernelVars PROVE KernelNumbers'
    OBVIOUS
<1> USE DEF BcGoes, Kernel, mapVars, filterVars, keyVars, controllerVars
<1>1. CASE TrackNewIP
  <2>1. \/ count' = 1
        \/ count' = count
        \/ ~(count > Threshold) /\ count' = count + 1
        BY <1>1, Zenon DEF TrackNewIP
  <2>2. mode' = 1 \/ mode' = mode
        BY <1>1, Zenon DEF TrackNewIP
  <2>3. UNCHANGED <<config, copy, synced, kernelKey, lastKey, bcPc, lastRate, belowFor, calm>>
        BY <1>1 DEF TrackNewIP
  <2>4. count' \in 0 .. Threshold + 1
    <3>1. count \in 0 .. Threshold + 1
          BY DEF KernelNumbers
    <3> QED
        BY <2>1, <3>1, KernelConfigAssumption
  <2>5. mode' \in {0, 1}
    <3>1. mode \in {0, 1}
          BY DEF KernelNumbers
    <3> QED
        BY <2>2, <3>1
  <2> QED
      BY <2>3, <2>4, <2>5, Zenon DEF KernelNumbers
<1>2. CASE SyncConfig
      BY <1>2 DEF SyncConfig, Settings, KernelNumbers
<1>3. CASE RotateSynCookieKey
  <2>1. \/ kernelKey < MaxKeys /\ kernelKey' = kernelKey + 1 /\ lastKey' = kernelKey'
        \/ UNCHANGED keyVars
        BY <1>3, Zenon DEF RotateSynCookieKey
  <2>2. UNCHANGED <<config, mode, count, synced, bcPc, lastRate, belowFor, copy, calm>>
        BY <1>3 DEF RotateSynCookieKey
  <2>3. kernelKey' \in 0 .. MaxKeys /\ lastKey' \in 0 .. kernelKey'
    <3>1. kernelKey \in 0 .. MaxKeys /\ lastKey \in 0 .. kernelKey
          BY DEF KernelNumbers
    <3> QED
        BY <2>1, <3>1, KernelConfigAssumption
  <2> QED
      BY <2>2, <2>3, Zenon DEF KernelNumbers
<1>4. CASE PollReads
  <2>1. PICK rate \in {count, count \div 256} : lastRate' = rate /\ calm' \in {calm, 0}
        BY <1>4, Zenon DEF PollReads
  <2>2. lastRate' \in 0 .. Threshold + 1
    <3>1. count \in 0 .. Threshold + 1
          BY DEF KernelNumbers
    <3>2. count \div 256 \in 0 .. count
          BY <3>1, KernelConfigAssumption
    <3> QED
        BY <2>1, <3>1, <3>2, KernelConfigAssumption
  <2>3. calm' \in 0 .. Cooldown
    <3>1. calm \in 0 .. Cooldown
          BY DEF KernelNumbers
    <3> QED
        BY <2>1, <3>1, KernelConfigAssumption
  <2>4. bcPc' \in {"idle", "decide", "read", "write"}
        BY <1>4 DEF PollReads
  <2>5. UNCHANGED <<config, copy, mode, count, synced, kernelKey, lastKey, belowFor>>
        BY <1>4 DEF PollReads
  <2> QED
      BY <2>2, <2>3, <2>4, <2>5, Zenon DEF KernelNumbers
<1>5. CASE PollFails
      BY <1>5 DEF PollFails, KernelNumbers
<1>6. CASE Decide
  <2>1. belowFor' \in {belowFor, 0} /\ bcPc' \in {"idle", "read"}
        BY <1>6, Zenon DEF Decide
  <2>2. belowFor' \in 0 .. Cooldown
    <3>1. belowFor \in 0 .. Cooldown
          BY DEF KernelNumbers
    <3> QED
        BY <2>1, <3>1, KernelConfigAssumption
  <2>3. bcPc' \in {"idle", "decide", "read", "write"}
        BY <2>1
  <2>4. UNCHANGED <<config, copy, mode, count, lastRate, synced, kernelKey, lastKey, calm>>
        BY <1>6 DEF Decide
  <2> QED
      BY <2>2, <2>3, <2>4, Zenon DEF KernelNumbers
<1>7. CASE ForceDisable
      BY <1>7 DEF ForceDisable, KernelNumbers
<1>8. CASE ReadConfig
      BY <1>8 DEF ReadConfig, KernelNumbers
<1>9. CASE WriteConfig
      BY <1>9 DEF WriteConfig, KernelNumbers
<1>10. CASE KernelTick
  <2>1. /\ belowFor' = IF belowFor < Cooldown THEN belowFor + 1 ELSE belowFor
        /\ calm' = IF calm < Cooldown THEN calm + 1 ELSE calm
        /\ UNCHANGED <<config, copy, mode, count, lastRate, synced, kernelKey, lastKey, bcPc>>
        BY <1>10 DEF KernelTick
  <2>2. belowFor \in 0 .. Cooldown /\ calm \in 0 .. Cooldown
        BY DEF KernelNumbers
  <2>3. belowFor' \in 0 .. Cooldown
        BY <2>1, <2>2, KernelConfigAssumption
  <2>4. calm' \in 0 .. Cooldown
        BY <2>1, <2>2, KernelConfigAssumption
  <2> QED
      BY <2>1, <2>3, <2>4, Zenon DEF KernelNumbers
<1>11. CASE UNCHANGED kernelVars
      BY <1>11 DEF kernelVars, KernelNumbers
<1> QED
    BY <1>1, <1>2, <1>3, <1>4, <1>5, <1>6, <1>7, <1>8, <1>9, <1>10, <1>11 DEF KernelNext

LEMMA KernelFlagsStep == KernelFlags /\ [KernelNext]_kernelVars => KernelFlags'
<1> SUFFICES ASSUME KernelFlags, [KernelNext]_kernelVars PROVE KernelFlags'
    OBVIOUS
<1> USE DEF KernelFlags, BcGoes, Kernel, mapVars, filterVars, keyVars, controllerVars
<1>1. CASE TrackNewIP
      BY <1>1 DEF TrackNewIP
<1>2. CASE SyncConfig
      BY <1>2 DEF SyncConfig
<1>3. CASE RotateSynCookieKey
      BY <1>3 DEF RotateSynCookieKey
<1>4. CASE PollReads
      BY <1>4 DEF PollReads
<1>5. CASE PollFails
      BY <1>5 DEF PollFails
<1>6. CASE Decide
      BY <1>6 DEF Decide
<1>7. CASE ForceDisable
      BY <1>7 DEF ForceDisable
<1>8. CASE ReadConfig
      BY <1>8 DEF ReadConfig
<1>9. CASE WriteConfig
  <2>1. \/ belowThreshold' = (belowThreshold /\ ~forced)
        \/ belowThreshold' = belowThreshold
        BY <1>9 DEF WriteConfig
  <2>2. belowThreshold' \in BOOLEAN
        BY <2>1, Zenon
  <2> QED
      BY <1>9, <2>2 DEF WriteConfig
<1>10. CASE KernelTick
      BY <1>10 DEF KernelTick
<1>11. CASE UNCHANGED kernelVars
      BY <1>11 DEF kernelVars
<1> QED
    BY <1>1, <1>2, <1>3, <1>4, <1>5, <1>6, <1>7, <1>8, <1>9, <1>10, <1>11 DEF KernelNext

\* For any threshold, cooldown and number of keys: the entry of the kernel map always holds
\* settings that someone wrote there, and the key that the node remembers is never newer than
\* the one in the kernel (config_sync.go, botnet_controller.go).
THEOREM KernelTypes == KernelSpec => []KernelTypeOK
<1>1. KernelNumbers /\ KernelFlags => KernelTypeOK
      BY Zenon DEF KernelNumbers, KernelFlags, KernelTypeOK
<1> QED
    BY <1>1, KernelTypeInit, KernelNumbersStep, KernelFlagsStep, PTL DEF KernelSpec

-----------------------------------------------------------------------------
(* The packet filter *)

Counts == [Counters -> Nat]
BusyCpu == [at : RateSteps, source : Sources, key : Keys, counts : SUBSET Counters,
            time : Nat, reg : Counts, alone : BOOLEAN]

CpuBusy(c) == cpu[c].at # "idle"
Known == DOMAIN rateState

FilterTypes ==
  /\ kiroConfig \in FilterSettings /\ now \in Nat
  /\ cpu \in [Cpus -> BusyCpu \cup {IdleCpu}]
  /\ Known \subseteq Keys
  /\ \A k \in Known : rateState[k] \in [start : Nat, count : Counts]
  /\ passedAlone \in [Keys -> Counts]

\* A CPU that shares the check of its key with another does not count as alone, a CPU that is
\* past the lookup of a known key has an entry to work on, and only counters with a limit are
\* counted.
InTheCheck ==
  /\ \A c, d \in Cpus : c # d /\ CpuBusy(c) /\ CpuBusy(d) /\ cpu[c].key = cpu[d].key => ~cpu[c].alone
  /\ \A c \in Cpus : cpu[c].at \in {"restart", "zero", "read", "write", "judge"} => cpu[c].key \in Known
  /\ \A c \in Cpus : CpuBusy(c) => \A n \in cpu[c].counts : Limit(cpu[c].key, n) > 0

\* What passed alone in a window is never more than its count, in the map and in the register
\* of a CPU that is about to write it back, and nothing has passed in it while the counts of the
\* window before are still there.
Counted ==
  /\ \A k \in Keys \ Known : passedAlone[k] = NonePassed
  /\ \A k \in Known : \A n \in Counters : passedAlone[k][n] <= rateState[k].count[n]
  /\ \A c \in Cpus : cpu[c].at = "zero" => passedAlone[cpu[c].key] = NonePassed
  /\ \A c \in Cpus : cpu[c].at = "write" =>
       \A n \in Counters : passedAlone[cpu[c].key][n] <= cpu[c].reg[n]

\* A packet that has met no other CPU is in the count that is judged, unless the count is
\* beyond its limit already.
JudgedOn ==
  \A c \in Cpus : cpu[c].at = "judge" /\ cpu[c].alone =>
    LET key == cpu[c].key IN
    \A n \in cpu[c].counts : \A seen \in {cpu[c].reg, rateState[key].count} :
      passedAlone[key][n] + 1 <= seen[n] \/ Limit(key, n) < seen[n]

FilterInv == FilterTypes /\ InTheCheck /\ Counted /\ JudgedOn /\ LimitHoldsAlone

-----------------------------------------------------------------------------
LEMMA LimitIsNat ==
  ASSUME FilterTypes, NEW k \in Keys, NEW n \in Counters
  PROVE  Limit(k, n) \in Nat
<1>1. kiroConfig.perSubnet \in Nat /\ kiroConfig.perIP[n] \in Nat
      BY XDPFilterAssumption DEF FilterTypes
<1> QED
    BY <1>1 DEF Limit

LEMMA CpuTypes ==
  ASSUME FilterTypes, NEW c \in Cpus, CpuBusy(c)
  PROVE  cpu[c] \in BusyCpu
BY DEF FilterTypes, CpuBusy, IdleCpu

\* What a CPU does that goes to the check of another key or that is done: the others keep what
\* they are at, and whoever it meets is no longer alone, like itself.
Moves(c) ==
  /\ cpu' \in [Cpus -> BusyCpu \cup {IdleCpu}]
  /\ cpu'[c].at \in {"idle", "lookup"}
  /\ cpu'[c].at = "lookup" => \A n \in cpu'[c].counts : Limit(cpu'[c].key, n) > 0
  /\ \A d \in Cpus \ {c} :
       /\ cpu'[d].at = cpu[d].at
       /\ cpu[d].at # "idle" =>
            /\ cpu'[d].key = cpu[d].key /\ cpu'[d].counts = cpu[d].counts
            /\ cpu'[d].reg = cpu[d].reg
            /\ cpu'[d].alone => cpu[d].alone
            /\ cpu'[c].at = "lookup" /\ cpu[d].key = cpu'[c].key => ~cpu'[d].alone /\ ~cpu'[c].alone

LEMMA EnterMoves ==
  ASSUME FilterTypes, NEW c \in Cpus, NEW s \in Sources, NEW counts \in SUBSET Counters,
         NEW key \in Keys, cpu' = Enter(c, s, counts, key)
  PROVE  Moves(c)
<1> DEFINE others == InCheck(key) \ {c}
           new == [at |-> "lookup", source |-> s, key |-> key,
                   counts |-> {n \in counts : Limit(key, n) > 0},
                   time |-> now, reg |-> NonePassed, alone |-> others = {}]
<1>1. cpu' = [d \in Cpus |-> IF d = c THEN new
                             ELSE IF d \in others THEN [cpu[d] EXCEPT !.alone = FALSE] ELSE cpu[d]]
      BY DEF Enter
<1>2. new \in BusyCpu
  <2>1. (others = {}) \in BOOLEAN
        OBVIOUS
  <2>2. NonePassed \in Counts
        BY DEF NonePassed, Counts
  <2>3. {n \in counts : Limit(key, n) > 0} \in SUBSET Counters
        OBVIOUS
  <2>4. now \in Nat /\ "lookup" \in RateSteps
        BY DEF FilterTypes, RateSteps
  <2> HIDE DEF others
  <2> QED
      BY <2>1, <2>2, <2>3, <2>4 DEF BusyCpu
<1>3. new.at = "lookup" /\ new.key = key /\ new.counts = {n \in counts : Limit(key, n) > 0}
      /\ (new.alone <=> others = {})
      OBVIOUS
<1>4. \A d \in Cpus : d \in others <=> d # c /\ cpu[d].at # "idle" /\ cpu[d].key = key
      BY DEF InCheck
<1> HIDE DEF others, new
<1>5. cpu'[c] = new
      BY <1>1
<1>6. ASSUME NEW d \in Cpus \ {c}
      PROVE  /\ cpu'[d] \in BusyCpu \cup {IdleCpu}
             /\ cpu'[d].at = cpu[d].at
             /\ cpu[d].at # "idle" =>
                  /\ cpu'[d].key = cpu[d].key /\ cpu'[d].counts = cpu[d].counts
                  /\ cpu'[d].reg = cpu[d].reg
                  /\ cpu'[d].alone => cpu[d].alone
                  /\ cpu[d].key = key => ~cpu'[d].alone /\ ~new.alone
  <2>1. CASE d \in others
    <3>1. cpu[d] \in BusyCpu
          BY <1>4, <2>1, CpuTypes DEF CpuBusy
    <3>2. cpu'[d] = [cpu[d] EXCEPT !.alone = FALSE]
          BY <1>1, <2>1
    <3>3. others # {}
          BY <2>1
    <3> QED
        BY <1>3, <3>1, <3>2, <3>3 DEF BusyCpu
  <2>2. CASE d \notin others
    <3>1. cpu'[d] = cpu[d]
          BY <1>1, <2>2
    <3>2. cpu[d].at # "idle" => cpu[d].key # key
          BY <1>4, <2>2
    <3> QED
        BY <3>1, <3>2 DEF FilterTypes
  <2> QED
      BY <2>1, <2>2
<1>7. cpu' \in [Cpus -> BusyCpu \cup {IdleCpu}]
  <2>1. cpu' = [d \in Cpus |-> cpu'[d]]
        BY <1>1
  <2>2. \A d \in Cpus : cpu'[d] \in BusyCpu \cup {IdleCpu}
        BY <1>2, <1>5, <1>6
  <2> QED
      BY <2>1, <2>2
<1> QED
    BY <1>3, <1>5, <1>6, <1>7 DEF Moves

LEMMA IdleMoves ==
  ASSUME FilterTypes, NEW c \in Cpus, cpu' = [cpu EXCEPT ![c] = IdleCpu]
  PROVE  Moves(c)
<1>1. cpu'[c] = IdleCpu /\ \A d \in Cpus \ {c} : cpu'[d] = cpu[d]
      BY DEF FilterTypes
<1>2. cpu'[c].at = "idle"
      BY <1>1 DEF IdleCpu
<1>3. cpu' \in [Cpus -> BusyCpu \cup {IdleCpu}]
      BY DEF FilterTypes
<1> QED
    BY <1>1, <1>2, <1>3 DEF Moves

LEMMA NextKeyMoves ==
  ASSUME FilterTypes, NEW c \in Cpus, CpuBusy(c), NextKey(c)
  PROVE  Moves(c)
<1> DEFINE network == Network(cpu[c].source)
<1>1. cpu[c].source \in Sources /\ network \in Keys
      BY CpuTypes DEF BusyCpu, Keys
<1>2. {"total"} \in SUBSET Counters
      BY DEF Counters
<1>3. cpu' = Enter(c, cpu[c].source, {"total"}, network) \/ cpu' = [cpu EXCEPT ![c] = IdleCpu]
      BY DEF NextKey
<1> HIDE DEF network
<1> QED
    BY <1>1, <1>2, <1>3, EnterMoves, IdleMoves

\* What the places of the CPUs say is kept by such a move ...
LEMMA MovesInTheCheck ==
  ASSUME FilterInv, NEW c \in Cpus, Moves(c), kiroConfig' = kiroConfig, Known \subseteq Known'
  PROVE  InTheCheck'
<1> USE DEF FilterInv, InTheCheck, CpuBusy, Moves
<1>2. ASSUME NEW d \in Cpus, NEW e \in Cpus, d # e, CpuBusy(d)', CpuBusy(e)', cpu'[d].key = cpu'[e].key
      PROVE  ~cpu'[d].alone
  <2>1. CASE d = c
        BY <1>2, <2>1
  <2>2. CASE e = c
        BY <1>2, <2>2
  <2>3. CASE d # c /\ e # c
        BY <1>2, <2>3
  <2> QED
      BY <2>1, <2>2, <2>3
<1>3. ASSUME NEW d \in Cpus, cpu'[d].at \in {"restart", "zero", "read", "write", "judge"}
      PROVE  cpu'[d].key \in Known'
      BY <1>3
<1>4. ASSUME NEW d \in Cpus, CpuBusy(d)'
      PROVE  (\A n \in cpu[d].counts : Limit(cpu[d].key, n) > 0)'
  <2>1. CASE d = c
        BY <1>4, <2>1 DEF Limit
  <2>2. CASE d # c
    <3>1. \A n \in cpu[d].counts : Limit(cpu[d].key, n) > 0
          BY <1>4, <2>2
    <3> QED
        BY <1>4, <2>2, <3>1 DEF Limit
  <2> QED
      BY <2>1, <2>2
<1> QED
    BY <1>2, <1>3, <1>4

\* A CPU that goes on within the check of its key.
Stays(c, step) ==
  /\ cpu' \in [Cpus -> BusyCpu \cup {IdleCpu}]
  /\ CpuBusy(c) /\ cpu'[c].at = step
  /\ cpu'[c].key = cpu[c].key /\ cpu'[c].counts = cpu[c].counts /\ cpu'[c].alone = cpu[c].alone
  /\ \A d \in Cpus \ {c} : cpu'[d] = cpu[d]

LEMMA GoesStays ==
  ASSUME FilterTypes, NEW c \in Cpus, CpuBusy(c), NEW step \in RateSteps, CpuGoes(c, step)
  PROVE  Stays(c, step) /\ cpu'[c].reg = cpu[c].reg
<1>1. cpu[c] \in BusyCpu
      BY CpuTypes
<1>2. cpu'[c] = [cpu[c] EXCEPT !.at = step] /\ \A d \in Cpus \ {c} : cpu'[d] = cpu[d]
      BY DEF CpuGoes, FilterTypes
<1>3. /\ cpu'[c] \in BusyCpu /\ cpu'[c].at = step
      /\ cpu'[c].key = cpu[c].key /\ cpu'[c].counts = cpu[c].counts
      /\ cpu'[c].alone = cpu[c].alone /\ cpu'[c].reg = cpu[c].reg
      BY <1>1, <1>2 DEF BusyCpu
<1>4. cpu' \in [Cpus -> BusyCpu \cup {IdleCpu}]
      BY <1>2, <1>3 DEF CpuGoes, FilterTypes
<1> QED
    BY <1>2, <1>3, <1>4 DEF Stays

LEMMA RegStays ==
  ASSUME FilterTypes, NEW c \in Cpus, CpuBusy(c), NEW step \in RateSteps, NEW reg \in Counts,
         cpu' = [cpu EXCEPT ![c].at = step, ![c].reg = reg]
  PROVE  Stays(c, step) /\ cpu'[c].reg = reg
<1>1. cpu[c] \in BusyCpu
      BY CpuTypes
<1>2. /\ cpu'[c] = [[cpu[c] EXCEPT !.at = step] EXCEPT !.reg = reg]
      /\ \A d \in Cpus \ {c} : cpu'[d] = cpu[d]
      BY DEF FilterTypes
<1>3. /\ cpu'[c] \in BusyCpu /\ cpu'[c].at = step
      /\ cpu'[c].key = cpu[c].key /\ cpu'[c].counts = cpu[c].counts
      /\ cpu'[c].alone = cpu[c].alone /\ cpu'[c].reg = reg
  <2> DEFINE r == [cpu[c] EXCEPT !.at = step]
  <2>1. /\ r \in BusyCpu /\ r.at = step
        /\ r.key = cpu[c].key /\ r.counts = cpu[c].counts /\ r.alone = cpu[c].alone
        BY <1>1 DEF BusyCpu
  <2> HIDE DEF r
  <2>2. cpu'[c] = [r EXCEPT !.reg = reg]
        BY <1>2 DEF r
  <2>4. cpu'[c] \in BusyCpu
    <3> DEFINE q == cpu'[c]
    <3>1. r \in BusyCpu /\ reg \in Counts /\ q = [r EXCEPT !.reg = reg]
          BY <2>1, <2>2
    <3> HIDE DEF q
    <3>2. q \in BusyCpu
          BY ONLY <3>1 DEF BusyCpu
    <3> QED
        BY <3>2 DEF q
  <2>5. /\ cpu'[c].at = r.at /\ cpu'[c].key = r.key /\ cpu'[c].counts = r.counts
        /\ cpu'[c].alone = r.alone /\ cpu'[c].reg = reg
        BY <2>1, <2>2 DEF BusyCpu
  <2> QED
      BY <2>1, <2>4, <2>5
<1>4. cpu' \in [Cpus -> BusyCpu \cup {IdleCpu}]
      BY <1>2, <1>3 DEF FilterTypes
<1> QED
    BY <1>2, <1>3, <1>4 DEF Stays

LEMMA StaysInTheCheck ==
  ASSUME FilterInv, NEW c \in Cpus, NEW step \in RateSteps, Stays(c, step),
         kiroConfig' = kiroConfig, Known \subseteq Known',
         step # "insert" => cpu[c].key \in Known'
  PROVE  InTheCheck'
<1> USE DEF FilterInv, InTheCheck, CpuBusy, Stays
<1>1. ASSUME NEW d \in Cpus, NEW e \in Cpus, d # e, CpuBusy(d)', CpuBusy(e)', cpu'[d].key = cpu'[e].key
      PROVE  ~cpu'[d].alone
  <2>1. CpuBusy(d) /\ CpuBusy(e) /\ cpu[d].key = cpu[e].key /\ cpu'[d].alone = cpu[d].alone
        BY <1>1
  <2> QED
      BY <1>1, <2>1
<1>2. ASSUME NEW d \in Cpus, cpu'[d].at \in {"restart", "zero", "read", "write", "judge"}
      PROVE  cpu'[d].key \in Known'
      BY <1>2
<1>3. ASSUME NEW d \in Cpus, CpuBusy(d)'
      PROVE  (\A n \in cpu[d].counts : Limit(cpu[d].key, n) > 0)'
  <2>1. CpuBusy(d) /\ cpu'[d].key = cpu[d].key /\ cpu'[d].counts = cpu[d].counts
        BY <1>3
  <2>2. \A n \in cpu[d].counts : Limit(cpu[d].key, n) > 0
        BY <2>1
  <2> QED
      BY <2>1, <2>2 DEF Limit
<1> QED
    BY <1>1, <1>2, <1>3

\* A CPU at work on a key changes the entry and the history of this key alone.  What is to be
\* shown is about this key and this CPU: the others on the same key are not alone.
Others(c) ==
  \A d \in Cpus \ {c} :
    /\ cpu'[d].at = cpu[d].at
    /\ cpu[d].at # "idle" =>
         /\ cpu'[d].key = cpu[d].key /\ cpu'[d].counts = cpu[d].counts
         /\ cpu'[d].reg = cpu[d].reg
         /\ cpu'[d].alone => cpu[d].alone

OwnPlace(c, key) ==
  /\ cpu'[c].at = "zero" => cpu'[c].key = key /\ passedAlone'[key] = NonePassed
  /\ cpu'[c].at = "write" =>
       cpu'[c].key = key /\ \A n \in Counters : passedAlone'[key][n] <= cpu'[c].reg[n]
  /\ cpu'[c].at = "judge" /\ cpu'[c].alone =>
       /\ cpu'[c].key = key
       /\ \A n \in cpu'[c].counts : \A seen \in {cpu'[c].reg, rateState'[key].count} :
            passedAlone'[key][n] + 1 <= seen[n] \/ Limit(key, n) < seen[n]

LEMMA OneKey ==
  ASSUME FilterInv, FilterTypes', NEW c \in Cpus, CpuBusy(c), NEW key \in Keys, key = cpu[c].key,
         Others(c), kiroConfig' = kiroConfig, Known' = Known \cup {key},
         \A k \in Known \ {key} : rateState'[k] = rateState[k],
         \A k \in Keys \ {key} : passedAlone'[k] = passedAlone[k],
         \A n \in Counters : passedAlone'[key][n] <= rateState'[key].count[n],
         \A n \in Counters : Limit(key, n) > 0 => passedAlone'[key][n] <= Limit(key, n),
         cpu[c].alone \/ \A n \in Counters : passedAlone'[key][n] <= passedAlone[key][n],
         OwnPlace(c, key)
  PROVE  Counted' /\ JudgedOn' /\ LimitHoldsAlone'
<1> USE DEF FilterInv
<1>1. passedAlone \in [Keys -> Counts] /\ passedAlone' \in [Keys -> Counts]
      BY DEF FilterTypes
<1>2. \A d \in Cpus : CpuBusy(d) => cpu[d].key \in Keys /\ cpu[d].reg \in Counts
                                 /\ cpu[d].counts \subseteq Counters
      BY CpuTypes DEF BusyCpu
<1>3. \A d \in Cpus \ {c} : CpuBusy(d) /\ cpu[d].key = key => ~cpu[d].alone /\ ~cpu[c].alone
      BY DEF InTheCheck
<1>4. \A k \in Keys, n \in Counters : Limit(k, n)' = Limit(k, n)
      BY DEF Limit
<1>5. Counted'
  <2>1. ASSUME NEW k \in Keys, k \notin Known'
        PROVE  passedAlone'[k] = NonePassed
        BY <2>1 DEF Counted, Known
  <2>2. ASSUME NEW k \in Known', NEW n \in Counters
        PROVE  passedAlone'[k][n] <= rateState'[k].count[n]
    <3>1. CASE k = key
          BY <3>1
    <3>2. CASE k # key
      <4>1. k \in Known /\ rateState'[k] = rateState[k]
            BY <3>2
      <4>2. k \in Keys /\ passedAlone'[k] = passedAlone[k]
            BY <3>2, <4>1 DEF FilterTypes
      <4> QED
          BY <4>1, <4>2 DEF Counted
    <3> QED
        BY <3>1, <3>2
  <2>3. ASSUME NEW d \in Cpus, cpu'[d].at = "zero"
        PROVE  passedAlone'[cpu'[d].key] = NonePassed
    <3>1. CASE d = c
          BY <2>3, <3>1 DEF OwnPlace
    <3>2. CASE d # c
      <4>1. CpuBusy(d) /\ cpu[d].at = "zero" /\ cpu'[d].key = cpu[d].key /\ cpu[d].key \in Keys
            BY <2>3, <3>2, <1>2 DEF Others, CpuBusy
      <4>2. passedAlone[cpu[d].key] = NonePassed
            BY <4>1 DEF Counted
      <4>3. CASE cpu[d].key = key
        <5>1. \A n \in Counters : passedAlone'[key][n] <= passedAlone[key][n]
              BY <1>3, <3>2, <4>1, <4>3
        <5>2. \A n \in Counters : passedAlone[key][n] = 0
              BY <4>2, <4>3 DEF NonePassed
        <5>3. \A n \in Counters : passedAlone'[key][n] \in Nat /\ passedAlone[key][n] \in Nat
              BY <1>1 DEF Counts
        <5>4. \A n \in Counters : passedAlone'[key][n] = 0
              BY <5>1, <5>2, <5>3
        <5>5. passedAlone'[key] \in Counts
              BY <1>1
        <5>6. passedAlone'[key] = NonePassed
              BY ONLY <5>4, <5>5 DEF Counts, NonePassed
        <5> QED
            BY <5>6, <4>1, <4>3
      <4>4. CASE cpu[d].key # key
            BY <4>1, <4>2, <4>4
      <4> QED
          BY <4>3, <4>4
    <3> QED
        BY <3>1, <3>2
  <2>4. ASSUME NEW d \in Cpus, cpu'[d].at = "write", NEW n \in Counters
        PROVE  passedAlone'[cpu'[d].key][n] <= cpu'[d].reg[n]
    <3>1. CASE d = c
          BY <2>4, <3>1 DEF OwnPlace
    <3>2. CASE d # c
      <4>1. /\ CpuBusy(d) /\ cpu[d].at = "write" /\ cpu'[d].key = cpu[d].key /\ cpu[d].key \in Keys
            /\ cpu'[d].reg = cpu[d].reg /\ cpu[d].reg \in Counts
            BY <2>4, <3>2, <1>2 DEF Others, CpuBusy
      <4>2. passedAlone[cpu[d].key][n] <= cpu[d].reg[n]
            BY <4>1 DEF Counted
      <4>3. CASE cpu[d].key = key
        <5>1. passedAlone'[key][n] <= passedAlone[key][n]
              BY <1>3, <3>2, <4>1, <4>3
        <5>2. /\ passedAlone'[key][n] \in Nat /\ passedAlone[key][n] \in Nat
              /\ cpu[d].reg[n] \in Nat
              BY <1>1, <4>1 DEF Counts
        <5> QED
            BY <4>1, <4>2, <4>3, <5>1, <5>2
      <4>4. CASE cpu[d].key # key
            BY <4>1, <4>2, <4>4
      <4> QED
          BY <4>3, <4>4
    <3> QED
        BY <3>1, <3>2
  <2> QED
      BY <2>1, <2>2, <2>3, <2>4 DEF Counted
<1>6. JudgedOn'
  <2> SUFFICES ASSUME NEW d \in Cpus, cpu'[d].at = "judge", cpu'[d].alone,
                      NEW n \in cpu'[d].counts, NEW k, k = cpu'[d].key,
                      NEW seen \in {cpu'[d].reg, rateState'[k].count}
               PROVE  passedAlone'[k][n] + 1 <= seen[n] \/ Limit(k, n)' < seen[n]
      BY DEF JudgedOn
  <2>1. CASE d = c
    <3>1. cpu'[c].key = key /\ (passedAlone'[key][n] + 1 <= seen[n] \/ Limit(key, n) < seen[n])
          BY <2>1 DEF OwnPlace
    <3>2. k = key /\ Limit(k, n)' = Limit(k, n)
          BY <2>1, <3>1 DEF Limit
    <3> QED
        BY <3>1, <3>2
  <2>2. CASE d # c
    <3>1. /\ CpuBusy(d) /\ cpu[d].at = "judge" /\ cpu[d].alone /\ cpu'[d].key = cpu[d].key
          /\ cpu'[d].reg = cpu[d].reg /\ n \in cpu[d].counts
          BY <2>2 DEF Others, CpuBusy
    <3>2. cpu[d].key # key /\ cpu[d].key \in Keys /\ cpu[d].key \in Known
          BY <1>2, <1>3, <2>2, <3>1 DEF InTheCheck
    <3>3. /\ passedAlone'[cpu[d].key] = passedAlone[cpu[d].key]
          /\ rateState'[cpu[d].key] = rateState[cpu[d].key]
          BY <3>2
    <3>4. passedAlone[cpu[d].key][n] + 1 <= seen[n] \/ Limit(cpu[d].key, n) < seen[n]
          BY <3>1, <3>3 DEF JudgedOn
    <3>5. k = cpu[d].key /\ Limit(k, n)' = Limit(k, n)
          BY <3>1 DEF Limit
    <3> QED
        BY <3>1, <3>3, <3>4, <3>5
  <2> QED
      BY <2>1, <2>2
<1>7. LimitHoldsAlone'
  <2> SUFFICES ASSUME NEW k \in Keys, NEW n \in Counters, Limit(k, n)' > 0
               PROVE  passedAlone'[k][n] <= Limit(k, n)'
      BY DEF LimitHoldsAlone
  <2>1. CASE k = key
        BY <1>4, <2>1
  <2>2. CASE k # key
        BY <1>4, <2>2 DEF LimitHoldsAlone
  <2> QED
      BY <2>1, <2>2
<1> QED
    BY <1>5, <1>6, <1>7

LEMMA NothingCounted ==
  ASSUME FilterInv, NEW c \in Cpus, Others(c), kiroConfig' = kiroConfig,
         rateState' = rateState, passedAlone' = passedAlone,
         cpu'[c].at \notin {"zero", "write", "judge"}
  PROVE  Counted' /\ JudgedOn' /\ LimitHoldsAlone'
<1> USE DEF FilterInv
<1>1. Counted'
  <2>1. \A d \in Cpus : cpu'[d].at \in {"zero", "write"} =>
          d # c /\ cpu'[d].at = cpu[d].at /\ cpu'[d].key = cpu[d].key /\ cpu'[d].reg = cpu[d].reg
        BY DEF Others
  <2> QED
      BY <2>1 DEF Counted, Known
<1>2. JudgedOn'
  <2> SUFFICES ASSUME NEW d \in Cpus, cpu'[d].at = "judge", cpu'[d].alone,
                      NEW n \in cpu'[d].counts, NEW k, k = cpu'[d].key,
                      NEW seen \in {cpu'[d].reg, rateState'[k].count}
               PROVE  passedAlone'[k][n] + 1 <= seen[n] \/ Limit(k, n)' < seen[n]
      BY DEF JudgedOn
  <2>1. /\ cpu[d].at = "judge" /\ cpu[d].alone /\ k = cpu[d].key
        /\ cpu'[d].reg = cpu[d].reg /\ n \in cpu[d].counts
        BY DEF Others
  <2>2. passedAlone[k][n] + 1 <= seen[n] \/ Limit(k, n) < seen[n]
        BY <2>1 DEF JudgedOn
  <2>3. Limit(k, n)' = Limit(k, n)
        BY DEF Limit
  <2> QED
      BY <2>2, <2>3
<1>3. LimitHoldsAlone'
  <2>1. \A k \in Keys, n \in Counters : Limit(k, n)' = Limit(k, n)
        BY DEF Limit
  <2> QED
      BY <2>1 DEF LimitHoldsAlone
<1> QED
    BY <1>1, <1>2, <1>3

LEMMA OthersGoOn ==
  ASSUME NEW c \in Cpus, Moves(c) \/ \E step \in RateSteps : Stays(c, step)
  PROVE  Others(c)
BY DEF Others, Moves, Stays

-----------------------------------------------------------------------------
LEMMA FilterInit == XDPInit => FilterInv
<1> SUFFICES ASSUME XDPInit PROVE FilterInv
    OBVIOUS
<1> USE DEF XDPInit
<1>1. Known = {}
      BY DEF Known
<1>2. NonePassed \in Counts /\ \A n \in Counters : NonePassed[n] = 0
      BY DEF NonePassed, Counts
<1>3. \A c \in Cpus : cpu[c] = IdleCpu /\ cpu[c].at = "idle"
      BY DEF IdleCpu
<1>4. FilterTypes
      BY <1>1, <1>2 DEF FilterTypes
<1>5. InTheCheck /\ Counted /\ JudgedOn
      BY <1>1, <1>3 DEF InTheCheck, Counted, JudgedOn, CpuBusy
<1>6. LimitHoldsAlone
  <2> SUFFICES ASSUME NEW k \in Keys, NEW n \in Counters, Limit(k, n) > 0
               PROVE  passedAlone[k][n] <= Limit(k, n)
      BY DEF LimitHoldsAlone
  <2>1. Limit(k, n) \in Nat /\ passedAlone[k][n] = 0
        BY <1>2, <1>4, LimitIsNat
  <2> QED
      BY <2>1
<1> QED
    BY <1>4, <1>5, <1>6 DEF FilterInv

LEMMA ReceiveStep ==
  ASSUME FilterInv, NEW c \in Cpus, NEW p \in Packets, NEW botnet \in BOOLEAN, Receive(c, p, botnet)
  PROVE  FilterInv'
<1> USE DEF FilterInv
<1>1. kiroConfig' = kiroConfig /\ now' = now /\ rateState' = rateState /\ passedAlone' = passedAlone
      BY DEF Receive
<1>2. cpu' = cpu \/ Moves(c)
  <2>1. p.source \in Sources /\ p.source \in Keys /\ Network(p.source) \in Keys
        BY DEF Sources, Keys
  <2>2. {"total"} \cup Class(p) \in SUBSET Counters
        BY DEF Class, Counters, Classes
  <2>3. PICK first \in {p.source, Network(p.source)} :
          cpu' = cpu \/ cpu' = Enter(c, p.source, {"total"} \cup Class(p), first)
        BY DEF Receive
  <2> QED
      BY <2>1, <2>2, <2>3, EnterMoves
<1>3. CASE cpu' = cpu
  <2>1. \A k, n : Limit(k, n)' = Limit(k, n)
        BY <1>1 DEF Limit
  <2>2. FilterTypes' /\ Counted'
        BY <1>1, <1>3 DEF FilterTypes, Counted, Known
  <2>3. InTheCheck'
        BY <1>1, <1>3 DEF InTheCheck, CpuBusy, Limit, Known
  <2>4. JudgedOn'
        BY <1>1, <1>3 DEF JudgedOn, Limit
  <2>5. LimitHoldsAlone'
        BY <1>1, <2>1 DEF LimitHoldsAlone
  <2> QED
      BY <2>2, <2>3, <2>4, <2>5
<1>4. CASE Moves(c)
  <2>1. FilterTypes'
        BY <1>1, <1>4 DEF FilterTypes, Moves, Known
  <2>2. Counted' /\ JudgedOn' /\ LimitHoldsAlone'
        BY <1>1, <1>4, OthersGoOn, NothingCounted DEF Moves
  <2> QED
      BY <1>1, <1>4, <2>1, <2>2, MovesInTheCheck DEF Known
<1> QED
    BY <1>2, <1>3, <1>4

LEMMA LookupStep ==
  ASSUME FilterInv, NEW c \in Cpus, Lookup(c)
  PROVE  FilterInv'
<1> USE DEF FilterInv
<1>1. kiroConfig' = kiroConfig /\ now' = now /\ rateState' = rateState /\ passedAlone' = passedAlone
      BY DEF Lookup
<1>2. PICK step \in {"insert", "restart", "read"} :
        CpuGoes(c, step) /\ (step # "insert" => cpu[c].key \in Known)
      BY DEF Lookup, Known
<1>3. CpuBusy(c) /\ step \in RateSteps
      BY DEF Lookup, CpuDoes, CpuBusy, RateSteps
<1>4. Stays(c, step)
      BY <1>2, <1>3, GoesStays
<1>5. FilterTypes'
      BY <1>1, <1>4 DEF FilterTypes, Stays, Known
<1>6. Counted' /\ JudgedOn' /\ LimitHoldsAlone'
      BY <1>1, <1>3, <1>4, OthersGoOn, NothingCounted DEF Stays
<1> QED
    BY <1>1, <1>2, <1>3, <1>4, <1>5, <1>6, StaysInTheCheck DEF Known

LEMMA RestartStep ==
  ASSUME FilterInv, NEW c \in Cpus, Restart(c)
  PROVE  FilterInv'
<1> USE DEF FilterInv
<1> DEFINE key == cpu[c].key
<1>1. kiroConfig' = kiroConfig /\ now' = now
      BY DEF Restart
<1>2. CpuBusy(c) /\ "zero" \in RateSteps /\ key \in Known /\ key \in Keys
      BY CpuTypes DEF Restart, CpuDoes, CpuBusy, RateSteps, InTheCheck, BusyCpu
<1>3. Stays(c, "zero")
      BY <1>2, GoesStays DEF Restart
<1>4. cpu[c].time \in Nat /\ rateState[key] \in [start : Nat, count : Counts]
      BY <1>2, CpuTypes DEF BusyCpu, FilterTypes
<1>5. /\ Known' = Known
      /\ \A k \in Known \ {key} : rateState'[k] = rateState[k]
      /\ rateState'[key] = [rateState[key] EXCEPT !.start = cpu[c].time]
      BY <1>2 DEF Restart, Known
<1>6. rateState'[key].count = rateState[key].count /\ rateState'[key] \in [start : Nat, count : Counts]
      BY <1>4, <1>5
<1>7. NonePassed \in Counts /\ \A n \in Counters : NonePassed[n] = 0
      BY DEF NonePassed, Counts
<1>8. /\ passedAlone'[key] = NonePassed
      /\ \A k \in Keys \ {key} : passedAlone'[k] = passedAlone[k]
      /\ passedAlone' \in [Keys -> Counts]
      BY <1>2, <1>7 DEF Restart, FilterTypes
<1> HIDE DEF key
<1>9. FilterTypes'
      BY <1>1, <1>3, <1>5, <1>6, <1>8 DEF FilterTypes, Stays, Known
<1>10. \A n \in Counters : /\ rateState[key].count[n] \in Nat /\ passedAlone[key][n] \in Nat
                           /\ Limit(key, n) \in Nat
      BY <1>2, <1>4, LimitIsNat DEF FilterTypes, Counts
<1>11. \A n \in Counters : /\ passedAlone'[key][n] <= rateState'[key].count[n]
                           /\ Limit(key, n) > 0 => passedAlone'[key][n] <= Limit(key, n)
                           /\ passedAlone'[key][n] <= passedAlone[key][n]
      BY <1>6, <1>7, <1>8, <1>10
<1>12. OwnPlace(c, key)
      BY <1>3, <1>8 DEF OwnPlace, Stays, key
<1>13. Counted' /\ JudgedOn' /\ LimitHoldsAlone'
  <2>1. Others(c) /\ Known' = Known \cup {key} /\ key = cpu[c].key
        BY <1>2, <1>3, <1>5, OthersGoOn DEF key
  <2> QED
      BY <1>1, <1>2, <1>5, <1>8, <1>9, <1>11, <1>12, <2>1, OneKey
<1>14. InTheCheck'
      BY <1>1, <1>2, <1>3, <1>5, StaysInTheCheck DEF key
<1> QED
    BY <1>9, <1>13, <1>14

LEMMA ZeroStep ==
  ASSUME FilterInv, NEW c \in Cpus, Zero(c)
  PROVE  FilterInv'
<1> USE DEF FilterInv
<1> DEFINE key == cpu[c].key
           zeros == [n \in Counters |-> 0]
<1>1. kiroConfig' = kiroConfig /\ now' = now /\ passedAlone' = passedAlone
      BY DEF Zero
<1>2. CpuBusy(c) /\ "read" \in RateSteps /\ key \in Known /\ key \in Keys
      BY CpuTypes DEF Zero, CpuDoes, CpuBusy, RateSteps, InTheCheck, BusyCpu
<1>3. Stays(c, "read")
      BY <1>2, GoesStays DEF Zero
<1>4. zeros \in Counts
      BY DEF Counts
<1>5. /\ Known' = Known
      /\ \A k \in Known \ {key} : rateState'[k] = rateState[k]
      /\ rateState'[key] = [rateState[key] EXCEPT !.count = zeros]
      BY <1>2 DEF Zero, Known
<1>6. rateState'[key].count = zeros /\ rateState'[key] \in [start : Nat, count : Counts]
  <2>1. rateState[key] \in [start : Nat, count : Counts]
        BY <1>2 DEF FilterTypes
  <2> HIDE DEF zeros
  <2> QED
      BY <1>4, <1>5, <2>1
<1>7. passedAlone[key] = NonePassed
      BY DEF Zero, CpuDoes, Counted
<1>8. FilterTypes'
      BY <1>1, <1>3, <1>5, <1>6 DEF FilterTypes, Stays, Known
<1>9. \A n \in Counters : zeros[n] = 0 /\ passedAlone[key][n] = 0 /\ Limit(key, n) \in Nat
      BY <1>2, <1>7, LimitIsNat DEF NonePassed
<1> HIDE DEF key, zeros
<1>10. \A n \in Counters : /\ passedAlone'[key][n] <= rateState'[key].count[n]
                           /\ Limit(key, n) > 0 => passedAlone'[key][n] <= Limit(key, n)
                           /\ passedAlone'[key][n] <= passedAlone[key][n]
      BY <1>1, <1>6, <1>9
<1>11. OwnPlace(c, key)
      BY <1>3 DEF OwnPlace, Stays
<1>12. Counted' /\ JudgedOn' /\ LimitHoldsAlone'
  <2>1. Others(c) /\ Known' = Known \cup {key} /\ key = cpu[c].key
        BY <1>2, <1>3, <1>5, OthersGoOn DEF key
  <2> QED
      BY <1>1, <1>2, <1>5, <1>8, <1>10, <1>11, <2>1, OneKey
<1>13. InTheCheck'
      BY <1>1, <1>2, <1>3, <1>5, StaysInTheCheck DEF key
<1> QED
    BY <1>8, <1>12, <1>13

LEMMA ReadStep ==
  ASSUME FilterInv, NEW c \in Cpus, ReadCounts(c)
  PROVE  FilterInv'
<1> USE DEF FilterInv
<1> DEFINE key == cpu[c].key
           counts == rateState[key].count
<1>1. kiroConfig' = kiroConfig /\ now' = now /\ rateState' = rateState /\ passedAlone' = passedAlone
      BY DEF ReadCounts
<1>2. CpuBusy(c) /\ "write" \in RateSteps /\ key \in Known /\ key \in Keys
      BY CpuTypes DEF ReadCounts, CpuDoes, CpuBusy, RateSteps, InTheCheck, BusyCpu
<1>3. counts \in Counts
      BY <1>2 DEF FilterTypes
<1>4. Stays(c, "write") /\ cpu'[c].reg = counts
  <2>1. cpu' = [cpu EXCEPT ![c].at = "write", ![c].reg = counts]
        BY DEF ReadCounts
  <2> HIDE DEF counts
  <2> QED
      BY <1>2, <1>3, <2>1, RegStays
<1>5. FilterTypes'
      BY <1>1, <1>4 DEF FilterTypes, Stays, Known
<1>6. \A n \in Counters : /\ passedAlone[key][n] <= counts[n]
                          /\ passedAlone[key][n] \in Nat
                          /\ Limit(key, n) > 0 => passedAlone[key][n] <= Limit(key, n)
      BY <1>2 DEF Counted, LimitHoldsAlone, FilterTypes, Counts
<1>7. OwnPlace(c, key)
      BY <1>1, <1>4, <1>6 DEF OwnPlace, Stays
<1>8. Counted' /\ JudgedOn' /\ LimitHoldsAlone'
  <2>1. Others(c) /\ Known' = Known \cup {key} /\ key = cpu[c].key
        BY <1>1, <1>2, <1>4, OthersGoOn DEF Known
  <2>2. \A n \in Counters : /\ passedAlone'[key][n] <= rateState'[key].count[n]
                            /\ Limit(key, n) > 0 => passedAlone'[key][n] <= Limit(key, n)
                            /\ passedAlone'[key][n] <= passedAlone[key][n]
        BY <1>1, <1>6
  <2> HIDE DEF key
  <2> QED
      BY <1>1, <1>2, <1>5, <1>7, <2>1, <2>2, OneKey
<1>9. InTheCheck'
      BY <1>1, <1>2, <1>4, StaysInTheCheck DEF Known
<1> QED
    BY <1>5, <1>8, <1>9

LEMMA WriteStep ==
  ASSUME FilterInv, NEW c \in Cpus, NEW lost \in SUBSET Counters, WriteCounts(c, lost)
  PROVE  FilterInv'
<1> USE DEF FilterInv
<1> DEFINE key == cpu[c].key
           old == rateState[key].count
           new == [n \in Counters |->
                     IF n \in lost THEN OneMore(key, n, cpu[c].reg[n])
                     ELSE IF n \in cpu[c].counts THEN OneMore(key, n, old[n]) ELSE old[n]]
<1>1. kiroConfig' = kiroConfig /\ now' = now /\ passedAlone' = passedAlone
      BY DEF WriteCounts
<1>2. CpuBusy(c) /\ "judge" \in RateSteps /\ key \in Known /\ key \in Keys /\ cpu[c].reg \in Counts
      BY CpuTypes DEF WriteCounts, CpuDoes, CpuBusy, RateSteps, InTheCheck, BusyCpu
<1>3. old \in Counts /\ rateState[key] \in [start : Nat, count : Counts]
      BY <1>2 DEF FilterTypes
<1>4. \A n \in Counters :
        /\ old[n] \in Nat /\ cpu[c].reg[n] \in Nat /\ passedAlone[key][n] \in Nat
        /\ Limit(key, n) \in Nat
        /\ passedAlone[key][n] <= old[n] /\ passedAlone[key][n] <= cpu[c].reg[n]
  <2>1. \A n \in Counters : old[n] \in Nat /\ cpu[c].reg[n] \in Nat /\ passedAlone[key][n] \in Nat
        BY <1>2, <1>3 DEF FilterTypes, Counts
  <2>2. \A n \in Counters : passedAlone[key][n] <= old[n]
        BY <1>2 DEF Counted
  <2>3. \A n \in Counters : passedAlone[key][n] <= cpu[c].reg[n]
        BY DEF WriteCounts, CpuDoes, Counted
  <2> QED
      BY <1>2, <2>1, <2>2, <2>3, LimitIsNat
<1>5. lost \subseteq cpu[c].counts
      BY DEF WriteCounts
<1>6. ASSUME NEW n \in Counters
      PROVE  /\ new[n] \in Nat /\ passedAlone[key][n] <= new[n]
             /\ n \in cpu[c].counts => passedAlone[key][n] + 1 <= new[n] \/ Limit(key, n) < new[n]
  <2> DEFINE from == IF n \in lost THEN cpu[c].reg[n] ELSE old[n]
  <2>1. /\ from \in Nat /\ passedAlone[key][n] <= from
        /\ Limit(key, n) \in Nat /\ passedAlone[key][n] \in Nat
        BY <1>4
  <2>2. new[n] = IF n \in cpu[c].counts THEN OneMore(key, n, from) ELSE from
        BY <1>5
  <2> HIDE DEF from, new, key
  <2> QED
      BY <2>1, <2>2 DEF OneMore
<1>7. new \in Counts
      BY <1>6 DEF Counts
<1>8. rateState' = [rateState EXCEPT ![key].count = new]
      /\ cpu' = [cpu EXCEPT ![c].at = "judge", ![c].reg = new]
      BY DEF WriteCounts
<1> HIDE DEF new, old
<1>9. /\ Known' = Known
      /\ \A k \in Known \ {key} : rateState'[k] = rateState[k]
      /\ rateState'[key] = [rateState[key] EXCEPT !.count = new]
      BY <1>2, <1>8 DEF Known
<1>10. rateState'[key].count = new /\ rateState'[key] \in [start : Nat, count : Counts]
      BY <1>3, <1>7, <1>9
<1>11. Stays(c, "judge") /\ cpu'[c].reg = new
      BY <1>2, <1>7, <1>8, RegStays
<1>12. FilterTypes'
      BY <1>1, <1>9, <1>10, <1>11 DEF FilterTypes, Stays, Known
<1>13. \A n \in Counters : Limit(key, n) > 0 => passedAlone[key][n] <= Limit(key, n)
      BY <1>2 DEF LimitHoldsAlone
<1>14. cpu[c].counts \subseteq Counters
      BY <1>2, CpuTypes DEF BusyCpu
<1>15. OwnPlace(c, key)
      BY <1>1, <1>6, <1>10, <1>11, <1>14 DEF OwnPlace, Stays
<1>16. Counted' /\ JudgedOn' /\ LimitHoldsAlone'
  <2>1. Others(c) /\ Known' = Known \cup {key} /\ key = cpu[c].key
        BY <1>2, <1>9, <1>11, OthersGoOn
  <2>2. \A n \in Counters : /\ passedAlone'[key][n] <= rateState'[key].count[n]
                            /\ Limit(key, n) > 0 => passedAlone'[key][n] <= Limit(key, n)
                            /\ passedAlone'[key][n] <= passedAlone[key][n]
        BY <1>1, <1>4, <1>6, <1>10, <1>13
  <2> HIDE DEF key
  <2> QED
      BY <1>1, <1>2, <1>9, <1>12, <1>15, <2>1, <2>2, OneKey
<1>17. InTheCheck'
      BY <1>1, <1>2, <1>9, <1>11, StaysInTheCheck
<1> QED
    BY <1>12, <1>16, <1>17

LEMMA InsertStep ==
  ASSUME FilterInv, NEW c \in Cpus, Insert(c)
  PROVE  FilterInv'
<1> USE DEF FilterInv
<1> DEFINE key == cpu[c].key
           first == [start |-> cpu[c].time,
                     count |-> [n \in Counters |-> IF n \in cpu[c].counts THEN 1 ELSE 0]]
           passed == PassedOneMore(c, NonePassed)
<1>1. kiroConfig' = kiroConfig /\ now' = now
      BY DEF Insert
<1>2. CpuBusy(c) /\ key \in Keys /\ cpu[c].time \in Nat /\ cpu[c].counts \subseteq Counters
      BY CpuTypes DEF Insert, CpuDoes, CpuBusy, BusyCpu
<1>3. Moves(c)
      BY <1>2, NextKeyMoves DEF Insert
<1>4. /\ first.count \in Counts /\ first \in [start : Nat, count : Counts]
      /\ \A n \in Counters : first.count[n] = IF n \in cpu[c].counts THEN 1 ELSE 0
      BY <1>2 DEF Counts
<1>5. /\ Known' = Known \cup {key}
      /\ \A k \in Known \ {key} : rateState'[k] = rateState[k]
      /\ rateState'[key] = first
      BY DEF Insert, Known
<1>6. /\ passed \in Counts
      /\ \A n \in Counters :
           passed[n] = IF cpu[c].alone /\ n \in cpu[c].counts THEN 1 ELSE 0
      BY DEF PassedOneMore, NonePassed, Counts
<1>7. /\ passedAlone'[key] = passed
      /\ \A k \in Keys \ {key} : passedAlone'[k] = passedAlone[k]
      /\ passedAlone' \in [Keys -> Counts]
      BY <1>2, <1>6 DEF Insert, FilterTypes
<1> HIDE DEF first, passed
<1>8. FilterTypes'
  <2>1. Known' \subseteq Keys /\ kiroConfig' \in FilterSettings /\ now' \in Nat
        BY <1>1, <1>2, <1>5 DEF FilterTypes
  <2>2. \A k \in Known' : rateState'[k] \in [start : Nat, count : Counts]
        BY <1>4, <1>5 DEF FilterTypes
  <2>3. cpu' \in [Cpus -> BusyCpu \cup {IdleCpu}]
        BY <1>3 DEF Moves
  <2> QED
      BY <1>7, <2>1, <2>2, <2>3 DEF FilterTypes, Known
<1>9. \A n \in Counters : /\ passedAlone[key][n] \in Nat /\ Limit(key, n) \in Nat
                          /\ n \in cpu[c].counts => Limit(key, n) > 0
      BY <1>2, LimitIsNat DEF FilterTypes, Counts, InTheCheck
<1>10. /\ \A n \in Counters : passedAlone'[key][n] <= rateState'[key].count[n]
       /\ \A n \in Counters : Limit(key, n) > 0 => passedAlone'[key][n] <= Limit(key, n)
       /\ cpu[c].alone \/ \A n \in Counters : passedAlone'[key][n] <= passedAlone[key][n]
      BY <1>4, <1>5, <1>6, <1>7, <1>9
<1>11. OwnPlace(c, key)
      BY <1>3 DEF OwnPlace, Moves
<1>12. Counted' /\ JudgedOn' /\ LimitHoldsAlone'
  <2>1. Others(c) /\ key = cpu[c].key
        BY <1>3, OthersGoOn
  <2> HIDE DEF key
  <2> QED
      BY <1>1, <1>2, <1>5, <1>7, <1>8, <1>10, <1>11, <2>1, OneKey
<1>13. InTheCheck'
      BY <1>1, <1>3, <1>5, MovesInTheCheck
<1> QED
    BY <1>8, <1>12, <1>13

LEMMA JudgeStep ==
  ASSUME FilterInv, NEW c \in Cpus, Judge(c)
  PROVE  FilterInv'
<1> USE DEF FilterInv
<1> DEFINE key == cpu[c].key
           passed == PassedOneMore(c, passedAlone[key])
<1>1. kiroConfig' = kiroConfig /\ now' = now /\ rateState' = rateState
      BY DEF Judge
<1>2. CpuBusy(c) /\ key \in Known /\ key \in Keys /\ cpu[c].counts \subseteq Counters
      BY CpuTypes DEF Judge, CpuDoes, CpuBusy, BusyCpu, InTheCheck
<1>3. cpu[c].reg \in Counts /\ rateState[key].count \in Counts
      BY <1>2, CpuTypes DEF BusyCpu, FilterTypes
<1>4. PICK seen \in {cpu[c].reg, rateState[key].count} :
        \/ cpu' = [cpu EXCEPT ![c] = IdleCpu] /\ passedAlone' = passedAlone
        \/ /\ \A n \in cpu[c].counts : ~threshold_exceeded(Limit(key, n), seen[n])
           /\ NextKey(c)
           /\ passedAlone' = [passedAlone EXCEPT ![key] = passed]
      BY DEF Judge
<1>5. CASE cpu' = [cpu EXCEPT ![c] = IdleCpu] /\ passedAlone' = passedAlone
  <2>1. Moves(c)
        BY <1>5, IdleMoves
  <2>2. FilterTypes'
        BY <1>1, <1>5, <2>1 DEF FilterTypes, Moves, Known
  <2>3. Counted' /\ JudgedOn' /\ LimitHoldsAlone'
        BY <1>1, <1>5, <2>1, OthersGoOn, NothingCounted DEF Moves
  <2> QED
      BY <1>1, <2>1, <2>2, <2>3, MovesInTheCheck DEF Known
<1>6. CASE /\ \A n \in cpu[c].counts : ~threshold_exceeded(Limit(key, n), seen[n])
           /\ NextKey(c)
           /\ passedAlone' = [passedAlone EXCEPT ![key] = passed]
  <2>1. Moves(c)
        BY <1>2, <1>6, NextKeyMoves
  <2>2. \A n \in Counters : /\ passedAlone[key][n] \in Nat /\ Limit(key, n) \in Nat
                            /\ seen[n] \in Nat /\ rateState[key].count[n] \in Nat
                            /\ n \in cpu[c].counts => Limit(key, n) > 0
                            /\ passedAlone[key][n] <= rateState[key].count[n]
                            /\ Limit(key, n) > 0 => passedAlone[key][n] <= Limit(key, n)
    <3>1. \A n \in Counters : passedAlone[key][n] \in Nat /\ Limit(key, n) \in Nat
          BY <1>2, LimitIsNat DEF FilterTypes, Counts
    <3>2. \A n \in Counters : seen[n] \in Nat /\ rateState[key].count[n] \in Nat
          BY <1>3 DEF Counts
    <3>3. \A n \in Counters : n \in cpu[c].counts => Limit(key, n) > 0
          BY <1>2 DEF InTheCheck
    <3>4. \A n \in Counters : passedAlone[key][n] <= rateState[key].count[n]
          BY <1>2 DEF Counted
    <3>5. \A n \in Counters : Limit(key, n) > 0 => passedAlone[key][n] <= Limit(key, n)
          BY <1>2 DEF LimitHoldsAlone
    <3> QED
        BY <3>1, <3>2, <3>3, <3>4, <3>5
  <2>3. /\ passed \in Counts
        /\ \A n \in Counters :
             passed[n] = IF cpu[c].alone /\ n \in cpu[c].counts
                         THEN passedAlone[key][n] + 1 ELSE passedAlone[key][n]
        BY <2>2 DEF PassedOneMore, Counts
  <2>4. /\ passedAlone'[key] = passed
        /\ \A k \in Keys \ {key} : passedAlone'[k] = passedAlone[k]
        /\ passedAlone' \in [Keys -> Counts]
    <3> HIDE DEF passed
    <3> QED
        BY <1>2, <1>6, <2>3 DEF FilterTypes
  <2> HIDE DEF passed
  <2>5. FilterTypes'
        BY <1>1, <2>1, <2>4 DEF FilterTypes, Moves, Known
  <2>6. ASSUME NEW n \in Counters, cpu[c].alone, n \in cpu[c].counts
        PROVE  /\ passedAlone[key][n] + 1 <= Limit(key, n)
               /\ passedAlone[key][n] + 1 <= rateState[key].count[n]
    <3>1. seen[n] <= Limit(key, n)
          BY <1>6, <2>2, <2>6 DEF threshold_exceeded
    <3>2. cpu[c].at = "judge"
          BY DEF Judge, CpuDoes
    <3>3. /\ passedAlone[key][n] + 1 <= seen[n] \/ Limit(key, n) < seen[n]
          /\ \/ passedAlone[key][n] + 1 <= rateState[key].count[n]
             \/ Limit(key, n) < rateState[key].count[n]
          BY <2>6, <3>2 DEF JudgedOn
    <3> HIDE DEF key
    <3>4. passedAlone[key][n] + 1 <= Limit(key, n)
          BY <2>2, <3>1, <3>3
    <3> QED
        BY <2>2, <3>3, <3>4
  <2>7. /\ \A n \in Counters : passedAlone'[key][n] <= rateState'[key].count[n]
        /\ \A n \in Counters : Limit(key, n) > 0 => passedAlone'[key][n] <= Limit(key, n)
        /\ cpu[c].alone \/ \A n \in Counters : passedAlone'[key][n] <= passedAlone[key][n]
    <3> HIDE DEF key
    <3> QED
        BY <1>1, <2>2, <2>3, <2>4, <2>6
  <2>8. OwnPlace(c, key)
        BY <2>1 DEF OwnPlace, Moves
  <2>9. Counted' /\ JudgedOn' /\ LimitHoldsAlone'
    <3>1. Others(c) /\ Known' = Known \cup {key} /\ key = cpu[c].key
          BY <1>1, <1>2, <2>1, OthersGoOn DEF Known
    <3> HIDE DEF key
    <3> QED
        BY <1>1, <1>2, <2>4, <2>5, <2>7, <2>8, <3>1, OneKey
  <2> QED
      BY <1>1, <2>1, <2>5, <2>9, MovesInTheCheck DEF Known
<1> QED
    BY <1>4, <1>5, <1>6

LEMMA EvictStep ==
  ASSUME FilterInv, NEW key \in Keys, EvictRate(key)
  PROVE  FilterInv'
<1> USE DEF FilterInv
<1>1. kiroConfig' = kiroConfig /\ now' = now /\ cpu' = cpu
      BY DEF EvictRate
<1>2. Known' = Known \ {key} /\ \A k \in Known \ {key} : rateState'[k] = rateState[k]
      BY DEF EvictRate, Known
<1>3. NonePassed \in Counts /\ \A n \in Counters : NonePassed[n] = 0
      BY DEF NonePassed, Counts
<1>4. /\ passedAlone'[key] = NonePassed
      /\ \A k \in Keys \ {key} : passedAlone'[k] = passedAlone[k]
      /\ passedAlone' \in [Keys -> Counts]
      BY <1>3 DEF EvictRate, FilterTypes
<1>5. \A c \in Cpus : CpuBusy(c) => cpu[c].key # key /\ cpu[c].key \in Keys
      BY CpuTypes DEF EvictRate, InCheck, CpuBusy, BusyCpu
<1>6. FilterTypes'
      BY <1>1, <1>2, <1>4 DEF FilterTypes, Known
<1>7. InTheCheck'
  <2>1. \A c, d \in Cpus : c # d /\ CpuBusy(c)' /\ CpuBusy(d)' /\ cpu'[c].key = cpu'[d].key => ~cpu'[c].alone
        BY <1>1 DEF InTheCheck, CpuBusy
  <2>2. \A c \in Cpus : cpu'[c].at \in {"restart", "zero", "read", "write", "judge"} => cpu'[c].key \in Known'
        BY <1>1, <1>2, <1>5 DEF InTheCheck, CpuBusy
  <2>3. (\A c \in Cpus : CpuBusy(c) => \A n \in cpu[c].counts : Limit(cpu[c].key, n) > 0)'
        BY <1>1 DEF InTheCheck, CpuBusy, Limit
  <2> QED
      BY <2>1, <2>2, <2>3 DEF InTheCheck, Known
<1>8. Counted'
  <2>1. \A k \in Keys \ Known' : passedAlone'[k] = NonePassed
        BY <1>2, <1>4 DEF Counted
  <2>2. \A k \in Known', n \in Counters : passedAlone'[k][n] <= rateState'[k].count[n]
        BY <1>2, <1>4 DEF Counted, FilterTypes
  <2>3. \A c \in Cpus : cpu'[c].at \in {"zero", "write"} =>
          CpuBusy(c) /\ cpu'[c] = cpu[c] /\ passedAlone'[cpu[c].key] = passedAlone[cpu[c].key]
        BY <1>1, <1>4, <1>5 DEF CpuBusy
  <2> QED
      BY <2>1, <2>2, <2>3 DEF Counted, Known
<1>9. JudgedOn'
  <2> SUFFICES ASSUME NEW c \in Cpus, cpu'[c].at = "judge", cpu'[c].alone,
                      NEW n \in cpu'[c].counts, NEW k, k = cpu'[c].key,
                      NEW seen \in {cpu'[c].reg, rateState'[k].count}
               PROVE  passedAlone'[k][n] + 1 <= seen[n] \/ Limit(k, n)' < seen[n]
      BY DEF JudgedOn
  <2>1. CpuBusy(c) /\ cpu'[c] = cpu[c] /\ k # key /\ k \in Keys /\ k \in Known
        BY <1>1, <1>5 DEF CpuBusy, InTheCheck
  <2>2. passedAlone'[k] = passedAlone[k] /\ rateState'[k] = rateState[k]
        BY <1>2, <1>4, <2>1
  <2>3. passedAlone[k][n] + 1 <= seen[n] \/ Limit(k, n) < seen[n]
        BY <2>1, <2>2 DEF JudgedOn
  <2>4. Limit(k, n)' = Limit(k, n)
        BY <1>1 DEF Limit
  <2> QED
      BY <2>2, <2>3, <2>4
<1>10. LimitHoldsAlone'
  <2> SUFFICES ASSUME NEW k \in Keys, NEW n \in Counters, Limit(k, n)' > 0
               PROVE  passedAlone'[k][n] <= Limit(k, n)'
      BY DEF LimitHoldsAlone
  <2>1. Limit(k, n)' = Limit(k, n) /\ Limit(k, n) \in Nat
        BY <1>1, LimitIsNat DEF Limit
  <2>2. CASE k = key
        BY <1>3, <1>4, <2>1, <2>2
  <2>3. CASE k # key
        BY <1>4, <2>1, <2>3 DEF LimitHoldsAlone
  <2> QED
      BY <2>2, <2>3
<1> QED
    BY <1>6, <1>7, <1>8, <1>9, <1>10

\* Nothing that is counted changes.
LEMMA CountsStay ==
  ASSUME FilterInv, now' \in Nat, kiroConfig' = kiroConfig, rateState' = rateState, cpu' = cpu,
         passedAlone' = passedAlone
  PROVE  FilterInv'
<1> USE DEF FilterInv
<1>1. FilterTypes' /\ Counted'
      BY DEF FilterTypes, Counted, Known
<1>2. InTheCheck'
      BY DEF InTheCheck, CpuBusy, Limit, Known
<1>3. JudgedOn'
      BY DEF JudgedOn, Limit
<1>4. LimitHoldsAlone'
      BY DEF LimitHoldsAlone, Limit
<1> QED
    BY <1>1, <1>2, <1>3, <1>4

LEMMA FilterStep == FilterInv /\ [XDPNext]_filterAllVars => FilterInv'
<1> SUFFICES ASSUME FilterInv, [XDPNext]_filterAllVars PROVE FilterInv'
    OBVIOUS
<1>1. now \in Nat
      BY DEF FilterInv, FilterTypes
<1>2. CASE \E c \in Cpus, p \in Packets, botnet \in BOOLEAN : Receive(c, p, botnet)
      BY <1>2, ReceiveStep
<1>3. CASE \E c \in Cpus : Lookup(c)
      BY <1>3, LookupStep
<1>4. CASE \E c \in Cpus : Insert(c)
      BY <1>4, InsertStep
<1>5. CASE \E c \in Cpus : Restart(c)
      BY <1>5, RestartStep
<1>6. CASE \E c \in Cpus : Zero(c)
      BY <1>6, ZeroStep
<1>7. CASE \E c \in Cpus : ReadCounts(c)
      BY <1>7, ReadStep
<1>8. CASE \E c \in Cpus, lost \in SUBSET Counters : WriteCounts(c, lost)
      BY <1>8, WriteStep
<1>9. CASE \E c \in Cpus : Judge(c)
      BY <1>9, JudgeStep
<1>10. CASE \E key \in Keys : EvictRate(key)
      BY <1>10, EvictStep
<1>11. CASE (\E s \in Sources : EvictConnection(s)) \/ FilterTick \/ UNCHANGED filterAllVars
  <2>1. /\ now' \in Nat /\ kiroConfig' = kiroConfig /\ rateState' = rateState /\ cpu' = cpu
        /\ passedAlone' = passedAlone
        BY <1>1, <1>11 DEF EvictConnection, FilterTick, filterAllVars
  <2> QED
      BY <2>1, CountsStay
<1> QED
    BY <1>2, <1>3, <1>4, <1>5, <1>6, <1>7, <1>8, <1>9, <1>10, <1>11 DEF XDPNext

\* The limit of a source or network in the packet filter holds for packets that meet no other
\* CPU in its check, for any number of CPUs and any settings, whatever increments, restarts and
\* insertions the CPUs have overwritten before.
THEOREM AloneUnderTheLimit == XDPSpec => []LimitHoldsAlone
<1>1. FilterInv => LimitHoldsAlone
      BY DEF FilterInv
<1> QED
    BY FilterInit, FilterStep, <1>1, PTL DEF XDPSpec

\* No CPU and no window is ahead of the clock: a CPU takes the time when it enters the check of
\* a key, and a window begins with the time that a CPU took.
KeepsTimes ==
  \A d \in Cpus : CpuBusy(d)' => cpu'[d].time = now \/ (CpuBusy(d) /\ cpu'[d].time = cpu[d].time)

StartsInTime ==
  \A k \in Known' :
    \/ k \in Known /\ rateState'[k].start = rateState[k].start
    \/ \E c \in Cpus : CpuBusy(c) /\ rateState'[k].start = cpu[c].time

ClockInv ==
  /\ now \in 0..MaxClock
  /\ \A k \in Known : rateState[k].start \in 0..now
  /\ \A c \in Cpus : CpuBusy(c) => cpu[c].time \in 0..now

LEMMA EnterKeepsTimes ==
  ASSUME FilterTypes, NEW c \in Cpus, NEW s, NEW counts, NEW key, cpu' = Enter(c, s, counts, key)
  PROVE  KeepsTimes
<1> DEFINE others == InCheck(key) \ {c}
           new == [at |-> "lookup", source |-> s, key |-> key,
                   counts |-> {n \in counts : Limit(key, n) > 0},
                   time |-> now, reg |-> NonePassed, alone |-> others = {}]
<1>1. cpu' = [d \in Cpus |-> IF d = c THEN new
                             ELSE IF d \in others THEN [cpu[d] EXCEPT !.alone = FALSE] ELSE cpu[d]]
      BY DEF Enter
<1>2. new.time = now /\ \A d \in others : CpuBusy(d)
      BY DEF InCheck, CpuBusy
<1> HIDE DEF others, new
<1>3. ASSUME NEW d \in Cpus, CpuBusy(d)'
      PROVE  cpu'[d].time = now \/ (CpuBusy(d) /\ cpu'[d].time = cpu[d].time)
  <2>1. CASE d = c
        BY <1>1, <1>2, <2>1
  <2>2. CASE d # c /\ d \in others
    <3>1. cpu'[d] = [cpu[d] EXCEPT !.alone = FALSE] /\ cpu[d] \in BusyCpu /\ CpuBusy(d)
          BY <1>1, <1>2, <2>2, CpuTypes
    <3>2. cpu'[d].time = cpu[d].time
          BY ONLY <3>1 DEF BusyCpu
    <3> QED
        BY <3>1, <3>2
  <2>3. CASE d # c /\ d \notin others
    <3>1. cpu'[d] = cpu[d]
          BY <1>1, <2>3
    <3> QED
        BY <1>3, <3>1 DEF CpuBusy
  <2> QED
      BY <2>1, <2>2, <2>3
<1> QED
    BY <1>3 DEF KeepsTimes

LEMMA IdleKeepsTimes ==
  ASSUME FilterTypes, NEW c \in Cpus, cpu' = [cpu EXCEPT ![c] = IdleCpu]
  PROVE  KeepsTimes
<1>1. cpu'[c] = IdleCpu /\ \A d \in Cpus \ {c} : cpu'[d] = cpu[d]
      BY DEF FilterTypes
<1> QED
    BY <1>1 DEF KeepsTimes, CpuBusy, IdleCpu

LEMMA NextKeyKeepsTimes ==
  ASSUME FilterTypes, NEW c \in Cpus, NextKey(c)
  PROVE  KeepsTimes
<1>1. \/ cpu' = [cpu EXCEPT ![c] = IdleCpu]
      \/ cpu' = Enter(c, cpu[c].source, {"total"}, Network(cpu[c].source))
      BY DEF NextKey
<1> QED
    BY <1>1, EnterKeepsTimes, IdleKeepsTimes

LEMMA GoesKeepsTimes ==
  ASSUME FilterTypes, NEW c \in Cpus, CpuBusy(c), NEW step, CpuGoes(c, step)
  PROVE  KeepsTimes
<1>1. cpu[c] \in BusyCpu
      BY CpuTypes
<1>2. cpu'[c] = [cpu[c] EXCEPT !.at = step] /\ \A d \in Cpus \ {c} : cpu'[d] = cpu[d]
      BY DEF CpuGoes, FilterTypes
<1>3. cpu'[c].time = cpu[c].time
      BY <1>1, <1>2 DEF BusyCpu
<1> QED
    BY <1>2, <1>3 DEF KeepsTimes, CpuBusy

LEMMA RegKeepsTimes ==
  ASSUME FilterTypes, NEW c \in Cpus, CpuBusy(c), NEW step, NEW reg,
         cpu' = [cpu EXCEPT ![c].at = step, ![c].reg = reg]
  PROVE  KeepsTimes
<1>1. cpu[c] \in BusyCpu
      BY CpuTypes
<1>2. /\ cpu'[c] = [[cpu[c] EXCEPT !.at = step] EXCEPT !.reg = reg]
      /\ \A d \in Cpus \ {c} : cpu'[d] = cpu[d]
      BY DEF FilterTypes
<1>3. cpu'[c].time = cpu[c].time
  <2> DEFINE r == [cpu[c] EXCEPT !.at = step]
  <2>1. r.time = cpu[c].time /\ "reg" \in DOMAIN r /\ DOMAIN r = DOMAIN cpu[c]
        BY <1>1 DEF BusyCpu
  <2> HIDE DEF r
  <2>2. cpu'[c] = [r EXCEPT !.reg = reg]
        BY <1>2 DEF r
  <2>3. DOMAIN cpu[c] = {"at", "source", "key", "counts", "time", "reg", "alone"}
        BY <1>1 DEF BusyCpu
  <2> QED
      BY <2>1, <2>2, <2>3
<1> QED
    BY <1>2, <1>3 DEF KeepsTimes, CpuBusy

LEMMA TimesInOrder ==
  ASSUME ClockInv, KeepsTimes, StartsInTime, UNCHANGED now
  PROVE  ClockInv'
<1>1. \A k \in Known' : rateState'[k].start \in 0..now'
      BY DEF ClockInv, StartsInTime
<1>2. \A d \in Cpus : CpuBusy(d)' => cpu'[d].time \in 0..now'
  <2>1. now \in 0..now
        BY DEF ClockInv
  <2> QED
      BY <2>1 DEF ClockInv, KeepsTimes
<1> QED
    BY <1>1, <1>2 DEF ClockInv

LEMMA ClockStep ==
  ASSUME FilterTypes, InTheCheck, ClockInv, [XDPNext]_filterAllVars
  PROVE  ClockInv'
<1> USE DEF Known
<1>0. /\ UNCHANGED rateState => StartsInTime
      /\ UNCHANGED cpu => KeepsTimes
      BY DEF StartsInTime, KeepsTimes, CpuBusy
<1>1. ASSUME NEW c \in Cpus, NEW p \in Packets, NEW botnet \in BOOLEAN, Receive(c, p, botnet)
      PROVE  ClockInv'
  <2>1. UNCHANGED <<now, rateState>>
        BY <1>1 DEF Receive
  <2>2. \/ UNCHANGED cpu
        \/ \E key : cpu' = Enter(c, p.source, {"total"} \cup Class(p), key)
        BY <1>1, Zenon DEF Receive
  <2>3. KeepsTimes
        BY <1>0, <2>2, EnterKeepsTimes
  <2> QED
      BY <1>0, <2>1, <2>3, TimesInOrder
<1>2. ASSUME NEW c \in Cpus, Lookup(c) PROVE ClockInv'
  <2>1. UNCHANGED <<now, rateState>> /\ CpuBusy(c) /\ \E step : CpuGoes(c, step)
        BY <1>2 DEF Lookup, CpuDoes, CpuBusy
  <2> QED
      BY <1>0, <2>1, GoesKeepsTimes, TimesInOrder
<1>3. ASSUME NEW c \in Cpus, Insert(c) PROVE ClockInv'
  <2>1. UNCHANGED now /\ CpuBusy(c) /\ NextKey(c)
        BY <1>3 DEF Insert, CpuDoes, CpuBusy
  <2>2. DOMAIN rateState' = Known \cup {cpu[c].key}
        /\ \A k \in Known \cup {cpu[c].key} :
             rateState'[k] = IF k = cpu[c].key
                             THEN [start |-> cpu[c].time,
                                   count |-> [n \in Counters |-> IF n \in cpu[c].counts THEN 1 ELSE 0]]
                             ELSE rateState[k]
        BY <1>3 DEF Insert
  <2>3. StartsInTime
    <3>1. ASSUME NEW k \in Known' PROVE k # cpu[c].key => k \in Known /\ rateState'[k] = rateState[k]
          BY <2>2
    <3>2. \E first : rateState'[cpu[c].key] = [start |-> cpu[c].time, count |-> first]
          BY <2>2, Zenon
    <3>3. rateState'[cpu[c].key].start = cpu[c].time
          BY <3>2
    <3> QED
        BY <2>1, <3>1, <3>3 DEF StartsInTime
  <2> QED
      BY <2>1, <2>3, NextKeyKeepsTimes, TimesInOrder
<1>4. ASSUME NEW c \in Cpus, Restart(c) PROVE ClockInv'
  <2>1. UNCHANGED now /\ CpuBusy(c) /\ CpuGoes(c, "zero")
        BY <1>4 DEF Restart, CpuDoes, CpuBusy
  <2>2. rateState' = [rateState EXCEPT ![cpu[c].key].start = cpu[c].time]
        BY <1>4 DEF Restart
  <2>3. cpu[c].key \in Known /\ \A k \in Known : rateState[k] \in [start : Nat, count : Counts]
        BY <1>4 DEF Restart, CpuDoes, InTheCheck, FilterTypes
  <2>4. DOMAIN rateState' = Known
        /\ \A k \in Known : IF k = cpu[c].key THEN rateState'[k].start = cpu[c].time
                                              ELSE rateState'[k] = rateState[k]
        BY <2>2, <2>3
  <2>5. StartsInTime
        BY <2>1, <2>4 DEF StartsInTime
  <2> QED
      BY <2>1, <2>5, GoesKeepsTimes, TimesInOrder
<1>5. ASSUME NEW c \in Cpus, NEW new, UNCHANGED now, KeepsTimes, cpu[c].key \in Known,
             rateState' = [rateState EXCEPT ![cpu[c].key].count = new]
      PROVE  ClockInv'
  <2>1. \A k \in Known : rateState[k] \in [start : Nat, count : Counts]
        BY DEF FilterTypes
  <2>2. DOMAIN rateState' = Known /\ \A k \in Known : rateState'[k].start = rateState[k].start
        BY <1>5, <2>1
  <2>3. StartsInTime
        BY <2>2 DEF StartsInTime
  <2> QED
      BY <1>5, <2>3, TimesInOrder
<1>6. ASSUME NEW c \in Cpus, Zero(c) PROVE ClockInv'
  <2>1. UNCHANGED now /\ CpuBusy(c) /\ CpuGoes(c, "read") /\ cpu[c].at = "zero"
        /\ rateState' = [rateState EXCEPT ![cpu[c].key].count = [n \in Counters |-> 0]]
        BY <1>6 DEF Zero, CpuDoes, CpuBusy
  <2>2. cpu[c].key \in Known
        BY <2>1 DEF InTheCheck
  <2> QED
      BY <1>5, <2>1, <2>2, GoesKeepsTimes
<1>7. ASSUME NEW c \in Cpus, ReadCounts(c) PROVE ClockInv'
  <2>1. UNCHANGED <<now, rateState>> /\ CpuBusy(c)
        /\ cpu' = [cpu EXCEPT ![c].at = "write", ![c].reg = rateState[cpu[c].key].count]
        BY <1>7 DEF ReadCounts, CpuDoes, CpuBusy
  <2> QED
      BY <1>0, <2>1, RegKeepsTimes, TimesInOrder
<1>8. ASSUME NEW c \in Cpus, NEW lost \in SUBSET Counters, WriteCounts(c, lost) PROVE ClockInv'
  <2>1. UNCHANGED now /\ CpuBusy(c) /\ cpu[c].at = "write"
        BY <1>8 DEF WriteCounts, CpuDoes, CpuBusy
  <2>2. \E new : /\ rateState' = [rateState EXCEPT ![cpu[c].key].count = new]
                 /\ cpu' = [cpu EXCEPT ![c].at = "judge", ![c].reg = new]
        BY <1>8, Zenon DEF WriteCounts
  <2>3. cpu[c].key \in Known
        BY <2>1 DEF InTheCheck
  <2> QED
      BY <1>5, <2>1, <2>2, <2>3, RegKeepsTimes, ZenonT(60)
<1>9. ASSUME NEW c \in Cpus, Judge(c) PROVE ClockInv'
  <2>1. UNCHANGED <<now, rateState>> /\ (cpu' = [cpu EXCEPT ![c] = IdleCpu] \/ NextKey(c))
        BY <1>9, Zenon DEF Judge
  <2> QED
      BY <1>0, <2>1, IdleKeepsTimes, NextKeyKeepsTimes, TimesInOrder
<1>10. ASSUME NEW key \in Keys, EvictRate(key) PROVE ClockInv'
  <2>1. UNCHANGED <<now, cpu>> /\ rateState' = [k \in Known \ {key} |-> rateState[k]]
        BY <1>10 DEF EvictRate
  <2>2. StartsInTime
        BY <2>1 DEF StartsInTime
  <2> QED
      BY <1>0, <2>1, <2>2, TimesInOrder
<1>11. ASSUME NEW s \in Sources, EvictConnection(s) PROVE ClockInv'
       BY <1>0, <1>11, TimesInOrder DEF EvictConnection
<1>12. ASSUME FilterTick PROVE ClockInv'
  <2>1. now < MaxClock /\ now' = now + 1 /\ UNCHANGED <<rateState, cpu>>
        BY <1>12 DEF FilterTick
  <2>2. now \in Nat /\ MaxClock \in Nat /\ now' \in 0..MaxClock /\ 0..now \subseteq 0..now'
        BY <2>1, XDPFilterAssumption DEF ClockInv
  <2> QED
      BY <2>1, <2>2 DEF ClockInv, CpuBusy
<1>13. CASE UNCHANGED filterAllVars
       BY <1>0, <1>13, TimesInOrder DEF filterAllVars
<1> QED
    BY <1>1, <1>2, <1>3, <1>4, <1>6, <1>7, <1>8, <1>9, <1>10, <1>11, <1>12, <1>13 DEF XDPNext

TrackerInv == tracker \subseteq Sources

LEMMA TrackerStep ==
  ASSUME TrackerInv, [XDPNext]_filterAllVars PROVE TrackerInv'
<1> USE DEF TrackerInv
<1>1. ASSUME NEW c \in Cpus, NEW p \in Packets, NEW botnet \in BOOLEAN, Receive(c, p, botnet)
      PROVE  TrackerInv'
  <2>1. \E verdict : tracker' = TrackerAfter(p, verdict)
        BY <1>1, Zenon DEF Receive
  <2>2. p.source \in Sources
        BY DEF Sources
  <2> QED
      BY <2>1, <2>2 DEF TrackerAfter
<1>2. ASSUME NEW c \in Cpus, Lookup(c) \/ Insert(c) \/ Restart(c) \/ Zero(c) \/ ReadCounts(c) \/ Judge(c)
      PROVE  TrackerInv'
      BY <1>2, Zenon DEF Lookup, Insert, Restart, Zero, ReadCounts, Judge
<1>3. ASSUME NEW c \in Cpus, NEW lost \in SUBSET Counters, WriteCounts(c, lost)
      PROVE  TrackerInv'
      BY <1>3, Zenon DEF WriteCounts
<1>4. ASSUME NEW key \in Keys, EvictRate(key) PROVE TrackerInv'
      BY <1>4 DEF EvictRate
<1>5. ASSUME NEW s \in Sources, EvictConnection(s) PROVE TrackerInv'
      BY <1>5 DEF EvictConnection
<1>6. FilterTick \/ UNCHANGED filterAllVars => TrackerInv'
      BY DEF FilterTick, filterAllVars
<1> QED
    BY <1>1, <1>2, <1>3, <1>4, <1>5, <1>6 DEF XDPNext

\* Whatever packets arrive at however many CPUs, and whatever the kernel evicts: no window begins
\* in the future, which the unsigned difference of rate_state_check would take for a window long
\* over, and the maps hold addresses and networks of packets only.
THEOREM XDPTypes == XDPSpec => []XDPTypeOK
<1> USE DEF Known
<1>1. XDPInit => ClockInv /\ TrackerInv
  <2> SUFFICES ASSUME XDPInit PROVE ClockInv /\ TrackerInv
      OBVIOUS
  <2>1. now = 0 /\ Known = {} /\ tracker = {} /\ \A c \in Cpus : ~CpuBusy(c)
        BY DEF XDPInit, CpuBusy, IdleCpu
  <2>2. MaxClock \in Nat
        BY XDPFilterAssumption
  <2> QED
      BY <2>1, <2>2 DEF ClockInv, TrackerInv
<1>2. ASSUME FilterTypes, ClockInv, TrackerInv PROVE XDPTypeOK
  <2>1. \A c \in Cpus : cpu[c].at # "idle" => cpu[c].at \in RateSteps /\ cpu[c].key \in Keys
    <3> SUFFICES ASSUME NEW c \in Cpus, cpu[c].at # "idle"
                 PROVE  cpu[c].at \in RateSteps /\ cpu[c].key \in Keys
        OBVIOUS
    <3>1. cpu[c] \in BusyCpu
          BY <1>2, CpuTypes DEF CpuBusy
    <3> QED
        BY <3>1 DEF BusyCpu
  <2>2. \A k \in Known : rateState[k].start \in 0..now /\ DOMAIN rateState[k].count = Counters
    <3>1. \A k \in Known : rateState[k].count \in Counts /\ rateState[k].start \in 0..now
          BY <1>2 DEF FilterTypes, ClockInv
    <3> QED
        BY <3>1 DEF Counts
  <2>3. kiroConfig \in FilterSettings /\ now \in 0..MaxClock /\ Known \subseteq Keys
        BY <1>2 DEF FilterTypes, ClockInv
  <2>4. passedAlone \in [Keys -> [Counters -> Nat]]
        BY <1>2 DEF FilterTypes, Counts
  <2> QED
      BY <1>2, <2>1, <2>2, <2>3, <2>4, Zenon DEF XDPTypeOK, TrackerInv
<1>3. FilterInv => FilterTypes /\ InTheCheck
      BY DEF FilterInv
<1> QED
    BY <1>1, <1>2, <1>3, FilterInit, FilterStep, ClockStep, TrackerStep, PTL DEF XDPSpec

-----------------------------------------------------------------------------
(* Failed restarts.  Those that the tracker has not counted in its present window failed *)
(* before that window opened; no more of them than one window holds are still recent.    *)

Uncounted(p) ==
  /\ p <= Len(failed) /\ Len(failed) - p <= restarts.count
  /\ \A i \in 1..p : failed[i] >= restarts.since

RestartTypes ==
  /\ restarts \in [count : 0..MaxRestartFailures, since : Nat]
  /\ failed \in Seq(0..FailureWindow)

RestartInv ==
  /\ RestartTypes
  /\ doing = "restarting" => restarts.count < MaxRestartFailures
  /\ doing = "cooling" => failed = <<>>
  /\ restarts.count = 0 => Len(failed) <= MaxRestartFailures
  /\ restarts.count > 0 => \E p \in 0..MaxRestartFailures : Uncounted(p)

LEMMA Limits ==
  /\ MaxRestartFailures \in Nat /\ MaxRestartFailures >= 1
  /\ FailureWindow \in Nat /\ FailureWindow >= 1
<1>1. MaxRestartFailures \in Nat \ {0} /\ FailureWindow \in Nat \ {0}
      BY MonitorAssumption
<1> QED
    BY ONLY <1>1

\* A window that has passed has left nothing uncounted.
LEMMA PassedWindow ==
  ASSUME RestartInv, Expired(restarts, FailureWindow)
  PROVE  Len(failed) <= MaxRestartFailures
<1> USE Limits DEF RestartInv, RestartTypes
<1>1. restarts.count \in 0..MaxRestartFailures /\ restarts.count > 0 /\ restarts.since > FailureWindow
      BY DEF Expired
<1>2. PICK p \in 0..MaxRestartFailures : Uncounted(p)
      BY <1>1
<1>3. \A i \in 1..Len(failed) : failed[i] \in 0..FailureWindow
      OBVIOUS
<1>4. CASE p = 0
  <2>1. Len(failed) - 0 <= restarts.count /\ Len(failed) \in Nat
        BY <1>2, <1>4 DEF Uncounted
  <2> QED
      BY <1>1, <2>1
<1>5. CASE p # 0
  <2>1. 1 \in 1..p /\ 1 \in 1..Len(failed) /\ failed[1] >= restarts.since
        BY <1>2, <1>5 DEF Uncounted
  <2>2. failed[1] \in 0..FailureWindow /\ restarts.since \in Nat
        BY <1>3, <2>1
  <2> QED
      BY <1>1, <2>1, <2>2
<1> QED
    BY <1>4, <1>5

\* One more failed restart.
LEMMA RestartCounted ==
  ASSUME RestartInv, RestartFailed
  PROVE  RestartInv'
<1> USE Limits
<1>1. /\ RestartTypes /\ doing = "restarting" /\ doing' = "xdp"
      /\ restarts' = Record(restarts, FailureWindow)
      /\ failed' = IF Len(failed) < Forgotten THEN Append(failed, 0) ELSE failed
      BY DEF RestartFailed, RestartInv, Goes
<1>2. restarts.count \in Nat /\ restarts.count < MaxRestartFailures /\ restarts.since \in Nat
      BY <1>1 DEF RestartInv, RestartTypes
<1>3. RestartTypes'
  <2>1. failed' \in Seq(0..FailureWindow)
    <3>1. failed \in Seq(0..FailureWindow) /\ 0 \in 0..FailureWindow
          BY <1>1 DEF RestartTypes
    <3>2. Append(failed, 0) \in Seq(0..FailureWindow)
          BY ONLY <3>1
    <3> QED
        BY <1>1, <3>1, <3>2
  <2>2. restarts' \in [count : 0..MaxRestartFailures, since : Nat]
        BY <1>1, <1>2 DEF RestartTypes, Record
  <2> QED
      BY <2>1, <2>2 DEF RestartTypes
<1>4. /\ Len(failed) \in Nat /\ Len(failed') \in Nat
      /\ Len(failed') <= Len(failed) + 1 /\ Len(failed) <= Len(failed')
      /\ \A i \in 1..Len(failed) : failed'[i] = failed[i] /\ failed[i] \in 0..FailureWindow
      BY <1>1 DEF RestartTypes
<1>5. CASE Expired(restarts, FailureWindow) \/ restarts.count = 0
  <2>1. restarts' = [count |-> 1, since |-> 0]
        BY <1>1, <1>5 DEF Record
  <2>2. Len(failed) <= MaxRestartFailures
        BY <1>5, PassedWindow DEF RestartInv
  <2>3. PICK n \in 0..MaxRestartFailures : n = Len(failed)
        BY <1>4, <2>2
  <2>4. Uncounted(n)'
    <3>1. restarts'.count = 1 /\ restarts'.since = 0
          BY <2>1
    <3>2. n \in Nat /\ n <= Len(failed') /\ Len(failed') - n <= 1
          BY ONLY <1>4, <2>3, n \in 0..MaxRestartFailures, MaxRestartFailures \in Nat
    <3>3. \A i \in 1..n : failed'[i] >= 0
          BY <1>4, <2>3
    <3> QED
        BY <3>1, <3>2, <3>3 DEF Uncounted
  <2>5. restarts'.count = 1
        BY <2>1
  <2> QED
      BY <1>1, <1>2, <1>3, <2>4, <2>5 DEF RestartInv
<1>6. CASE ~(Expired(restarts, FailureWindow) \/ restarts.count = 0)
  <2>1. restarts' = [restarts EXCEPT !.count = restarts.count + 1]
        BY <1>1, <1>6 DEF Record
  <2>2. restarts'.count = restarts.count + 1 /\ restarts'.since = restarts.since
        BY <1>1, <2>1 DEF RestartTypes
  <2>3. PICK p \in 0..MaxRestartFailures : Uncounted(p)
        BY <1>2, <1>6 DEF RestartInv
  <2>4. p \in Nat /\ p <= Len(failed) /\ Len(failed) - p <= restarts.count
        /\ \A i \in 1..p : failed[i] >= restarts.since
        BY <2>3 DEF Uncounted
  <2>5. Uncounted(p)'
    <3>1. p <= Len(failed') /\ Len(failed') - p <= restarts'.count
          BY ONLY <1>2, <1>4, <2>2, <2>4
    <3>2. \A i \in 1..p : failed'[i] >= restarts'.since
          BY <1>4, <2>2, <2>4
    <3> QED
        BY <3>1, <3>2 DEF Uncounted
  <2> QED
      BY <1>1, <1>2, <1>3, <2>2, <2>5 DEF RestartInv
<1> QED
    BY <1>5, <1>6

\* Time passes.
LEMMA RestartsAge ==
  ASSUME RestartInv, MonitorTick
  PROVE  RestartInv'
<1> USE Limits
<1>1. /\ RestartTypes /\ UNCHANGED doing
      /\ restarts' = Aged(restarts, FailureWindow)
      BY DEF MonitorTick, RestartInv
<1>2. PICK gone \in 0..Len(failed) :
        /\ \A i \in DOMAIN failed : failed[i] = FailureWindow <=> i <= gone
        /\ failed' = [i \in 1 .. Len(failed) - gone |-> failed[gone + i] + 1]
      BY DEF MonitorTick
<1>3. /\ Len(failed) \in Nat /\ gone \in Nat /\ gone <= Len(failed) /\ DOMAIN failed = 1..Len(failed)
      /\ \A i \in 1..Len(failed) : failed[i] \in 0..FailureWindow
      BY <1>1 DEF RestartTypes
<1>4. \A i \in 1 .. Len(failed) - gone :
        gone + i \in 1..Len(failed) /\ failed[gone + i] + 1 \in 0..FailureWindow
  <2> TAKE i \in 1 .. Len(failed) - gone
  <2>1. gone + i \in 1..Len(failed) /\ ~(gone + i <= gone)
        BY <1>3
  <2>2. failed[gone + i] \in 0..FailureWindow /\ failed[gone + i] # FailureWindow
        BY <1>2, <1>3, <2>1
  <2> QED
      BY <2>1, <2>2
<1>5. failed' \in Seq(0..FailureWindow) /\ Len(failed') = Len(failed) - gone
  <2>1. failed' \in [1 .. Len(failed) - gone -> 0..FailureWindow]
        BY <1>2, <1>4
  <2>2. Len(failed) - gone \in Nat
        BY <1>3
  <2> QED
      BY <2>1, <2>2
<1>6. /\ restarts.count \in 0..MaxRestartFailures /\ restarts.since \in Nat
      /\ restarts' \in [count : 0..MaxRestartFailures, since : Nat]
      /\ restarts'.count = restarts.count
      /\ restarts'.since <= restarts.since + 1
      BY <1>1 DEF RestartTypes, Aged
<1>7. RestartTypes'
      BY <1>5, <1>6 DEF RestartTypes
<1>8. doing' = "restarting" => restarts'.count < MaxRestartFailures
      BY <1>1, <1>6 DEF RestartInv
<1>9. doing' = "cooling" => failed' = <<>>
  <2> SUFFICES ASSUME doing' = "cooling" PROVE failed' = <<>>
      OBVIOUS
  <2>1. failed = <<>>
        BY <1>1 DEF RestartInv
  <2>2. Len(failed') = 0
        BY <1>3, <1>5, <2>1
  <2> QED
      BY <1>5, <2>2
<1>10. restarts'.count = 0 => Len(failed') <= MaxRestartFailures
  <2>1. restarts.count = 0 => Len(failed) <= MaxRestartFailures
        BY DEF RestartInv
  <2> QED
      BY <1>3, <1>5, <1>6, <2>1
<1>11. ASSUME restarts'.count > 0 PROVE \E p \in 0..MaxRestartFailures : Uncounted(p)'
  <2>1. PICK p \in 0..MaxRestartFailures : Uncounted(p)
        BY <1>6, <1>11 DEF RestartInv
  <2>2. p \in Nat /\ p <= Len(failed) /\ Len(failed) - p <= restarts.count
        /\ \A i \in 1..p : failed[i] >= restarts.since
        BY <2>1 DEF Uncounted
  <2>3. CASE gone <= p
    <3>1. p - gone \in 0..MaxRestartFailures /\ p - gone <= Len(failed')
          /\ Len(failed') - (p - gone) <= restarts'.count
          BY <1>3, <1>5, <1>6, <2>2, <2>3
    <3>2. ASSUME NEW i \in 1..(p - gone) PROVE failed'[i] >= restarts'.since
      <4>1. gone + i \in 1..p /\ i \in 1 .. Len(failed) - gone
            BY <1>3, <2>2, <2>3
      <4>2. failed'[i] = failed[gone + i] + 1 /\ failed[gone + i] >= restarts.since
            BY <1>2, <2>2, <4>1
      <4>3. failed[gone + i] \in Nat
            BY <1>3, <2>2, <4>1
      <4>4. restarts'.since \in Nat
            BY <1>6
      <4> QED
          BY <1>6, <4>2, <4>3, <4>4
    <3> QED
        BY <3>1, <3>2 DEF Uncounted
  <2>4. CASE gone > p
    <3>1. 0 \in 0..MaxRestartFailures /\ Len(failed') - 0 <= restarts'.count /\ 0 <= Len(failed')
          BY <1>3, <1>5, <1>6, <2>2, <2>4
    <3>2. \A i \in 1..0 : failed'[i] >= restarts'.since
          OBVIOUS
    <3> QED
        BY <3>1, <3>2 DEF Uncounted
  <2> QED
      BY <1>3, <2>2, <2>3, <2>4
<1> QED
    BY <1>7, <1>8, <1>9, <1>10, <1>11 DEF RestartInv

LEMMA RestartsKept == RestartInv /\ [MonitorNext]_monitorVars => RestartInv'
<1> SUFFICES ASSUME RestartInv, [MonitorNext]_monitorVars PROVE RestartInv'
    OBVIOUS
<1> USE Limits
<1>0. ASSUME UNCHANGED <<restarts, failed>>,
             doing' = "restarting" => doing = "restarting",
             doing' = "cooling" => doing = "cooling"
      PROVE  RestartInv'
      BY <1>0 DEF RestartInv, RestartTypes, Uncounted
<1>1. ASSUME restarts' = Reset, failed' = <<>>, doing' \in {"xdp", "restarting"} PROVE RestartInv'
  <2>1. RestartTypes'
        BY <1>1 DEF RestartTypes, Reset
  <2>2. restarts'.count = 0 /\ Len(failed') = 0
        BY <1>1 DEF Reset
  <2> QED
      BY <1>1, <2>1, <2>2 DEF RestartInv
<1>2. ASSUME DecideRestart PROVE RestartInv'
  <2>1. RestartTypes'
    <3>1. restarts' \in {restarts, Reset} /\ failed' \in {failed, <<>>}
          BY <1>2 DEF DecideRestart, AfterAsking
    <3>2. Reset \in [count : 0..MaxRestartFailures, since : Nat]
          BY DEF Reset
    <3>3. <<>> \in Seq(0..FailureWindow) /\ RestartTypes
          BY DEF RestartInv
    <3> QED
        BY <3>1, <3>2, <3>3 DEF RestartTypes
  <2>2. CASE ShouldEscalate(restarts, FailureWindow, MaxRestartFailures)
    <3>1. doing' = "cooling" /\ failed' = <<>> /\ restarts' = restarts
          BY <1>2, <2>2 DEF DecideRestart, Goes, ShouldEscalate, AfterAsking
    <3>2. Len(failed') = 0
          BY <3>1
    <3>3. Uncounted(0)'
          BY <2>1, <3>2 DEF Uncounted, RestartTypes
    <3> QED
        BY <2>1, <3>1, <3>2, <3>3 DEF RestartInv
  <2>3. CASE ~ShouldEscalate(restarts, FailureWindow, MaxRestartFailures)
    <3>1. doing' = "restarting" /\ failed' = failed
          BY <1>2, <2>3 DEF DecideRestart, Goes
    <3>2. CASE restarts' = restarts /\ restarts.count < MaxRestartFailures
          BY <2>1, <3>1, <3>2 DEF RestartInv, RestartTypes, Uncounted
    <3>3. CASE restarts' = Reset /\ Expired(restarts, FailureWindow)
      <4>1. Len(failed') <= MaxRestartFailures
            BY <3>1, <3>3, PassedWindow
      <4>2. restarts'.count = 0
            BY <3>3 DEF Reset
      <4> QED
          BY <2>1, <3>1, <4>1, <4>2 DEF RestartInv
    <3>4. restarts.count \in Nat
          BY DEF RestartInv, RestartTypes
    <3> QED
        BY <1>2, <2>3, <3>2, <3>3, <3>4 DEF DecideRestart, ShouldEscalate, AfterAsking
  <2> QED
      BY <2>2, <2>3
<1>3. MonitorStart \/ MonitorStop => RestartInv'
      BY <1>0 DEF MonitorStart, MonitorStop, Goes
<1>4. ASSUME NEW ok \in BOOLEAN, CheckHealth(ok) \/ XDPReload(ok) PROVE RestartInv'
  <2>1. UNCHANGED <<restarts, failed>> /\ doing' \in {"deciding", "xdp", "waiting"}
        BY <1>4 DEF CheckHealth, XDPReload, Goes
  <2> QED
      BY <1>0, <2>1
<1>5. CooledDown => RestartInv'
  <2>1. ASSUME CooledDown PROVE restarts' = Reset /\ failed' = <<>> /\ doing' = "restarting"
        BY <2>1 DEF CooledDown, Goes, RestartInv
  <2> QED
      BY <1>1, <2>1
<1>6. CooldownCancelled \/ XDPAttached \/ XDPCooling \/ UNCHANGED monitorVars => RestartInv'
      BY <1>0 DEF CooldownCancelled, XDPAttached, XDPCooling, Goes, monitorVars
<1>7. RestartSucceeded => RestartInv'
      BY <1>1 DEF RestartSucceeded, Goes
<1> QED
    BY <1>2, <1>3, <1>4, <1>5, <1>6, <1>7, RestartCounted, RestartsAge DEF MonitorNext

LEMMA RestartsInit == MonitorInit => RestartInv
<1> SUFFICES ASSUME MonitorInit PROVE RestartInv
    OBVIOUS
<1>1. restarts.count = 0 /\ RestartTypes /\ Len(failed) = 0
      BY Limits DEF MonitorInit, Reset, RestartTypes
<1> QED
    BY <1>1, Limits DEF MonitorInit, RestartInv

\* Whatever the health endpoint says, however the goroutine is stopped and started and time
\* passes, a node has never more failed restarts in a FailureWindow without an alert or a
\* success than twice the threshold (handleRestartNeeded of client/monitor/monitor.go and the
\* FailureTracker of types.go).
THEOREM AlertInTime == MonitorSpec => []AlertNotOverdue
<1>1. RestartInv => AlertNotOverdue
  <2> SUFFICES ASSUME RestartInv PROVE AlertNotOverdue
      OBVIOUS
  <2>1. Len(failed) \in Nat /\ restarts.count \in 0..MaxRestartFailures
        BY DEF RestartInv, RestartTypes
  <2>2. CASE restarts.count = 0
        BY <2>1, <2>2, Limits DEF RestartInv, AlertNotOverdue
  <2>3. CASE restarts.count > 0
    <3>1. PICK p \in 0..MaxRestartFailures : Len(failed) - p <= restarts.count
          BY <2>3 DEF RestartInv, Uncounted
    <3> QED
        BY <2>1, <3>1, Limits DEF AlertNotOverdue
  <2> QED
      BY <2>1, <2>2, <2>3
<1> QED
    BY <1>1, RestartsInit, RestartsKept, PTL DEF MonitorSpec

\* Checks of the health endpoint are counted at most once per tick, so the count of a window
\* never runs ahead of its age; a count that is full is forgotten before the next is added to
\* it.
HealthInv ==
  /\ health \in [count : 0 .. MaxConsecFailures + 2, since : 0 .. Longest(HealthWindow)]
  /\ due \in BOOLEAN
  /\ health.count <= health.since + (IF due THEN 0 ELSE 1)

MonitorFlags ==
  /\ running \in BOOLEAN /\ binaryOK \in BOOLEAN /\ attached \in BOOLEAN
  /\ doing \in {"nothing", "waiting", "deciding", "cooling", "restarting", "xdp"}

ReloadsInv == reloads \in [count : 0 .. MaxReloadFailures, since : Ages]
AgesInv == restarts.count \in Nat /\ restarts.since \in Ages
CoolingInv == slept \in 0 .. RestartCooldown /\ tried \in 0 .. ReloadCooldown

LEMMA MonitorLimits ==
  /\ MaxConsecFailures \in Nat \ {0} /\ MaxReloadFailures \in Nat \ {0}
  /\ RestartCooldown \in Nat \ {0} /\ ReloadCooldown \in Nat \ {0}
  /\ FailureWindow \in Nat \ {0} /\ HealthWindow = MaxConsecFailures + 1
BY MonitorAssumption DEF HealthWindow

LEMMA HealthStep ==
  ASSUME HealthInv, [MonitorNext]_monitorVars PROVE HealthInv'
<1> USE MonitorLimits
<1>0. health.count \in Nat /\ health.since \in Nat
      BY DEF HealthInv
<1>1. ASSUME UNCHANGED health, due' \in BOOLEAN, due' => due PROVE HealthInv'
  <2>1. health.count <= health.since + 1
        BY <1>0 DEF HealthInv
  <2> QED
      BY <1>0, <1>1, <2>1 DEF HealthInv
<1>2. ASSUME health' = Reset, due' \in BOOLEAN PROVE HealthInv'
      BY <1>2 DEF HealthInv, Reset, Longest
<1>3. ASSUME NEW ok \in BOOLEAN, CheckHealth(ok) PROVE HealthInv'
  <2>1. due /\ due' = FALSE /\ health' = IF ok THEN Reset ELSE Record(health, HealthWindow)
        BY <1>3 DEF CheckHealth
  <2>2. CASE ok
        BY <1>2, <2>1, <2>2
  <2>3. CASE ~ok /\ (Expired(health, HealthWindow) \/ health.count = 0)
    <3>1. health' = [count |-> 1, since |-> 0] /\ due' = FALSE
          BY <2>1, <2>3 DEF Record
    <3>2. 1 \in 0 .. MaxConsecFailures + 2 /\ 0 \in 0 .. Longest(HealthWindow)
          BY DEF Longest
    <3>3. health' \in [count : 0 .. MaxConsecFailures + 2, since : 0 .. Longest(HealthWindow)]
          BY ONLY <3>1, <3>2
    <3>4. health'.count <= health'.since + 1
          BY ONLY <3>1
    <3> QED
        BY ONLY <3>1, <3>3, <3>4 DEF HealthInv
  <2>4. CASE ~ok /\ ~(Expired(health, HealthWindow) \/ health.count = 0)
    <3>1. health' = [health EXCEPT !.count = health.count + 1]
          BY <2>1, <2>4 DEF Record
    <3>2. health'.count = health.count + 1 /\ health'.since = health.since
          BY <3>1 DEF HealthInv
    <3>3. health.since <= MaxConsecFailures + 1
          BY <1>0, <2>4 DEF Expired
    <3>4. health.count <= health.since
          BY <1>0, <2>1 DEF HealthInv
    <3>5. health.count + 1 \in 0 .. MaxConsecFailures + 2
          BY ONLY <1>0, <3>3, <3>4, MaxConsecFailures \in Nat \ {0}
    <3>6. health' \in [count : 0 .. MaxConsecFailures + 2, since : 0 .. Longest(HealthWindow)]
          BY <3>1, <3>5 DEF HealthInv
    <3>7. health'.count <= health'.since + 1
          BY <1>0, <3>2, <3>4
    <3>8. due' = FALSE
          BY <2>1
    <3> QED
        BY ONLY <3>6, <3>7, <3>8 DEF HealthInv
  <2> QED
      BY <2>2, <2>3, <2>4
<1>4. ASSUME MonitorTick PROVE HealthInv'
  <2>1. due' = TRUE /\ health' = Aged(health, HealthWindow)
        BY <1>4 DEF MonitorTick
  <2>2. health.count <= health.since + 1
        BY <1>0 DEF HealthInv
  <2>3. CASE health.count > 0 /\ health.since <= HealthWindow
    <3>1. health' = [health EXCEPT !.since = health.since + 1]
          BY <2>1, <2>3 DEF Aged
    <3>2. health'.count = health.count /\ health'.since = health.since + 1
          BY <3>1 DEF HealthInv
    <3>3. health.since + 1 \in 0 .. Longest(HealthWindow)
          BY <1>0, <2>3 DEF Longest
    <3>4. health' \in [count : 0 .. MaxConsecFailures + 2, since : 0 .. Longest(HealthWindow)]
          BY <3>1, <3>3 DEF HealthInv
    <3> QED
        BY <1>0, <2>1, <2>2, <3>2, <3>4 DEF HealthInv
  <2>4. CASE ~(health.count > 0 /\ health.since <= HealthWindow)
    <3>1. health' = health
          BY <2>1, <2>4 DEF Aged
    <3>2. health.count <= health.since
      <4>1. health.count <= MaxConsecFailures + 2
            BY DEF HealthInv
      <4> QED
          BY <1>0, <2>4, <4>1
    <3> QED
        BY <1>0, <2>1, <3>1, <3>2 DEF HealthInv
  <2> QED
      BY <2>3, <2>4
<1>5. ASSUME RestartSucceeded PROVE HealthInv'
      BY <1>2, <1>5 DEF RestartSucceeded, HealthInv
<1>6. ASSUME UNCHANGED <<health, due>> PROVE HealthInv'
      BY <1>6 DEF HealthInv
<1>7. ASSUME MonitorStart PROVE HealthInv'
      BY <1>1, <1>7 DEF MonitorStart
<1>8. ASSUME NEW ok \in BOOLEAN, XDPReload(ok) PROVE HealthInv'
      BY <1>6, <1>8 DEF XDPReload
<1>9. DecideRestart \/ CooledDown \/ CooldownCancelled => HealthInv'
      BY <1>6 DEF DecideRestart, CooledDown, CooldownCancelled
<1>10. MonitorStop \/ RestartFailed \/ XDPAttached \/ XDPCooling \/ UNCHANGED monitorVars => HealthInv'
      BY <1>6 DEF MonitorStop, RestartFailed, XDPAttached, XDPCooling, monitorVars
<1> QED
    BY <1>3, <1>4, <1>5, <1>7, <1>8, <1>9, <1>10 DEF MonitorNext

LEMMA FlagsStep ==
  ASSUME MonitorFlags, [MonitorNext]_monitorVars PROVE MonitorFlags'
<1> USE DEF MonitorFlags, Goes, Status
<1>1. MonitorStart \/ MonitorStop => MonitorFlags'
      BY DEF MonitorStart, MonitorStop
<1>2. ASSUME NEW ok \in BOOLEAN, CheckHealth(ok) PROVE MonitorFlags'
      BY <1>2 DEF CheckHealth
<1>3. ASSUME NEW ok \in BOOLEAN, XDPReload(ok) PROVE MonitorFlags'
      BY <1>3 DEF XDPReload
<1>4. DecideRestart \/ CooledDown \/ CooldownCancelled => MonitorFlags'
      BY DEF DecideRestart, CooledDown, CooldownCancelled
<1>5. RestartFailed \/ RestartSucceeded => MonitorFlags'
      BY DEF RestartFailed, RestartSucceeded
<1>6. XDPAttached \/ XDPCooling => MonitorFlags'
      BY DEF XDPAttached, XDPCooling, CheckXDP
<1>7. MonitorTick \/ UNCHANGED monitorVars => MonitorFlags'
      BY DEF MonitorTick, monitorVars
<1> QED
    BY <1>1, <1>2, <1>3, <1>4, <1>5, <1>6, <1>7 DEF MonitorNext

LEMMA ReloadsStep ==
  ASSUME ReloadsInv, [MonitorNext]_monitorVars PROVE ReloadsInv'
<1> USE MonitorLimits
<1>0. /\ Reset \in [count : 0 .. MaxReloadFailures, since : Ages] /\ Reset.count = 0
      /\ [count |-> 1, since |-> 0] \in [count : 0 .. MaxReloadFailures, since : Ages]
      BY DEF Reset, Ages, Longest
<1>1. UNCHANGED reloads => ReloadsInv'
      BY DEF ReloadsInv
<1>2. ASSUME NEW ok \in BOOLEAN, XDPReload(ok) PROVE ReloadsInv'
  <2> DEFINE before == IF Escalated THEN Reset
                       ELSE AfterAsking(reloads, FailureWindow, MaxReloadFailures)
  <2>1. reloads' = IF ok THEN Reset ELSE Record(before, FailureWindow)
        BY <1>2 DEF XDPReload
  <2>2. /\ before \in [count : 0 .. MaxReloadFailures, since : Ages]
        /\ before.count < MaxReloadFailures
    <3>1. reloads \in [count : 0 .. MaxReloadFailures, since : Ages] /\ reloads.count \in Nat
          BY DEF ReloadsInv
    <3>2. CASE Escalated
          BY <1>0, <3>2
    <3>3. CASE ~Escalated /\ reloads.count >= MaxReloadFailures
      <4>1. before = Reset
            BY <3>3 DEF Escalated, ShouldEscalate, AfterAsking
      <4> QED
          BY <1>0, <4>1
    <3>4. CASE ~Escalated /\ ~(reloads.count >= MaxReloadFailures)
      <4>1. before = reloads
            BY <3>4 DEF AfterAsking
      <4> QED
          BY <3>1, <3>4, <4>1
    <3> QED
        BY <3>2, <3>3, <3>4
  <2> HIDE DEF before
  <2>3. Record(before, FailureWindow) \in [count : 0 .. MaxReloadFailures, since : Ages]
    <3>1. before.count + 1 \in 0 .. MaxReloadFailures
          BY <2>2
    <3>2. [before EXCEPT !.count = before.count + 1] \in [count : 0 .. MaxReloadFailures, since : Ages]
          BY <2>2, <3>1
    <3> QED
        BY <1>0, <3>2 DEF Record
  <2> QED
      BY <1>0, <2>1, <2>3 DEF ReloadsInv
<1>3. ASSUME MonitorTick PROVE ReloadsInv'
  <2>1. reloads' = Aged(reloads, FailureWindow)
        BY <1>3 DEF MonitorTick
  <2> QED
      BY <2>1 DEF ReloadsInv, Aged, Ages, Longest
<1>4. ASSUME NEW ok \in BOOLEAN, CheckHealth(ok) PROVE ReloadsInv'
      BY <1>1, <1>4 DEF CheckHealth
<1>5. MonitorStart \/ MonitorStop \/ DecideRestart \/ CooledDown \/ CooldownCancelled => ReloadsInv'
      BY <1>1 DEF MonitorStart, MonitorStop, DecideRestart, CooledDown, CooldownCancelled
<1>6. RestartFailed \/ RestartSucceeded \/ XDPAttached \/ XDPCooling \/ UNCHANGED monitorVars
        => ReloadsInv'
      BY <1>1 DEF RestartFailed, RestartSucceeded, XDPAttached, XDPCooling, monitorVars
<1> QED
    BY <1>2, <1>3, <1>4, <1>5, <1>6 DEF MonitorNext

LEMMA AgesStep ==
  ASSUME RestartInv, AgesInv, [MonitorNext]_monitorVars PROVE AgesInv'
<1> USE MonitorLimits
<1>0. restarts \in [count : 0..MaxRestartFailures, since : Nat]
      BY DEF RestartInv, RestartTypes
<1>1. UNCHANGED restarts => AgesInv'
      BY DEF AgesInv
<1>2. restarts' = Reset => AgesInv'
      BY DEF AgesInv, Reset, Ages, Longest
<1>3. ASSUME RestartFailed PROVE AgesInv'
  <2>1. restarts' = Record(restarts, FailureWindow)
        BY <1>3 DEF RestartFailed
  <2>2. restarts' = [count |-> 1, since |-> 0]
        \/ restarts' = [restarts EXCEPT !.count = restarts.count + 1]
        BY <2>1 DEF Record
  <2>3. CASE restarts' = [count |-> 1, since |-> 0]
        BY <2>3 DEF AgesInv, Ages, Longest
  <2>4. CASE restarts' = [restarts EXCEPT !.count = restarts.count + 1]
    <3>1. restarts'.count = restarts.count + 1 /\ restarts'.since = restarts.since
          BY <1>0, <2>4
    <3> QED
        BY <3>1 DEF AgesInv
  <2> QED
      BY <2>2, <2>3, <2>4
<1>4. ASSUME MonitorTick PROVE AgesInv'
  <2>1. restarts' = Aged(restarts, FailureWindow)
        BY <1>4 DEF MonitorTick
  <2>2. CASE restarts' = restarts
        BY <1>1, <2>2
  <2>3. CASE restarts' = [restarts EXCEPT !.since = restarts.since + 1] /\ restarts.since <= FailureWindow
    <3>1. restarts'.count = restarts.count /\ restarts'.since = restarts.since + 1
          BY <1>0, <2>3
    <3> QED
        BY <2>3, <3>1 DEF AgesInv, Ages, Longest
  <2> QED
      BY <2>1, <2>2, <2>3 DEF Aged
<1>5. DecideRestart => AgesInv'
      BY <1>1, <1>2 DEF DecideRestart, AfterAsking
<1>6. CooledDown \/ RestartSucceeded => AgesInv'
      BY <1>2 DEF CooledDown, RestartSucceeded
<1>7. ASSUME NEW ok \in BOOLEAN, CheckHealth(ok) \/ XDPReload(ok) PROVE AgesInv'
      BY <1>1, <1>7 DEF CheckHealth, XDPReload
<1>8. MonitorStart \/ MonitorStop \/ CooldownCancelled \/ XDPAttached \/ XDPCooling
        \/ UNCHANGED monitorVars => AgesInv'
      BY <1>1 DEF MonitorStart, MonitorStop, CooldownCancelled, XDPAttached, XDPCooling, monitorVars
<1> QED
    BY <1>3, <1>4, <1>5, <1>6, <1>7, <1>8 DEF MonitorNext

LEMMA CoolingStep ==
  ASSUME CoolingInv, [MonitorNext]_monitorVars PROVE CoolingInv'
<1> USE MonitorLimits DEF CoolingInv
<1>1. MonitorStart \/ MonitorStop \/ DecideRestart \/ CooledDown \/ CooldownCancelled => CoolingInv'
      BY DEF MonitorStart, MonitorStop, DecideRestart, CooledDown, CooldownCancelled
<1>2. RestartFailed \/ RestartSucceeded \/ XDPAttached \/ XDPCooling \/ UNCHANGED monitorVars
        => CoolingInv'
      BY DEF RestartFailed, RestartSucceeded, XDPAttached, XDPCooling, monitorVars
<1>3. ASSUME NEW ok \in BOOLEAN, CheckHealth(ok) PROVE CoolingInv'
      BY <1>3 DEF CheckHealth
<1>4. ASSUME NEW ok \in BOOLEAN, XDPReload(ok) PROVE CoolingInv'
      BY <1>4 DEF XDPReload
<1>5. ASSUME MonitorTick PROVE CoolingInv'
  <2>1. /\ doing = "cooling" => slept < RestartCooldown
        /\ slept' = IF doing = "cooling" THEN slept + 1 ELSE slept
        /\ tried' = IF tried < ReloadCooldown THEN tried + 1 ELSE tried
        BY <1>5 DEF MonitorTick
  <2>2. slept' \in 0 .. RestartCooldown
        BY <2>1
  <2>3. tried' \in 0 .. ReloadCooldown
        BY <2>1
  <2> QED
      BY <2>2, <2>3
<1> QED
    BY <1>1, <1>2, <1>3, <1>4, <1>5 DEF MonitorNext

LEMMA MonitorTypeInit ==
  MonitorInit => HealthInv /\ MonitorFlags /\ ReloadsInv /\ AgesInv /\ CoolingInv
<1> SUFFICES ASSUME MonitorInit
             PROVE  HealthInv /\ MonitorFlags /\ ReloadsInv /\ AgesInv /\ CoolingInv
    OBVIOUS
<1> USE MonitorLimits DEF MonitorInit, Reset, Longest
<1>1. HealthInv
  <2>1. due = FALSE /\ health = [count |-> 0, since |-> 0]
        OBVIOUS
  <2>2. 0 \in 0 .. MaxConsecFailures + 2 /\ 0 \in 0 .. Longest(HealthWindow)
        OBVIOUS
  <2>3. health \in [count : 0 .. MaxConsecFailures + 2, since : 0 .. Longest(HealthWindow)]
        BY ONLY <2>1, <2>2
  <2>4. health.count <= health.since + 1
        BY ONLY <2>1
  <2> QED
      BY ONLY <2>1, <2>3, <2>4 DEF HealthInv
<1>2. MonitorFlags
      BY DEF MonitorFlags
<1>3. ReloadsInv
      BY DEF ReloadsInv, Ages
<1>4. AgesInv /\ CoolingInv
      BY DEF AgesInv, CoolingInv, Ages
<1> QED
    BY <1>1, <1>2, <1>3, <1>4

LEMMA MonitorTyped ==
  ASSUME HealthInv, MonitorFlags, ReloadsInv, RestartInv, AgesInv, CoolingInv, AlertNotOverdue
  PROVE  MonitorTypeOK
<1>1. restarts \in [count : 0 .. MaxRestartFailures, since : Ages]
      BY DEF RestartInv, RestartTypes, AgesInv
<1>2. failed \in Seq(0 .. FailureWindow) /\ Len(failed) <= Forgotten
      BY Limits DEF RestartInv, RestartTypes, AlertNotOverdue, Forgotten
<1>3. /\ health \in [count : 0 .. MaxConsecFailures + 2, since : 0 .. Longest(HealthWindow)]
      /\ due \in BOOLEAN
      BY DEF HealthInv
<1>4. reloads \in [count : 0 .. MaxReloadFailures, since : Ages]
      BY DEF ReloadsInv
<1>5. slept \in 0 .. RestartCooldown /\ tried \in 0 .. ReloadCooldown
      BY DEF CoolingInv
<1> QED
    BY <1>1, <1>2, <1>3, <1>4, <1>5, Zenon DEF MonitorFlags, MonitorTypeOK

\* However long a node runs, the failures that a tracker counts stay within its threshold,
\* those of the health endpoint within the ticks of a window, and the cooldowns within their
\* times (FailureTracker of types.go, as the loop of client/monitor/monitor.go uses it).
THEOREM MonitorTypes == MonitorSpec => []MonitorTypeOK
<1>1. MonitorSpec => []RestartInv
      BY RestartsInit, RestartsKept, PTL DEF MonitorSpec
<1>2. MonitorSpec => [](HealthInv /\ MonitorFlags /\ ReloadsInv /\ AgesInv /\ CoolingInv)
      BY <1>1, MonitorTypeInit, HealthStep, FlagsStep, ReloadsStep, AgesStep, CoolingStep, PTL
      DEF MonitorSpec
<1> QED
    BY <1>1, <1>2, MonitorTyped, AlertInTime, PTL

-----------------------------------------------------------------------------
(* The configuration of a node: what the four sources of a setting leave of it, for any *)
(* choice of settings to follow.                                                       *)

LEMMA DefaultsPositive == \A n \in AllNumbers : DefaultOf(n) \in Nat /\ DefaultOf(n) > 0
<1>1. \A n \in RateLimits : Profiles.balanced[n] \in Nat /\ Profiles.balanced[n] > 0
      BY DEF RateLimits, Profiles
<1>2. \A n \in AllNumbers \ RateLimits : Defaults[n] \in Nat /\ Defaults[n] > 0
      BY DEF AllNumbers, CheckedNumbers, RateLimits, Defaults
<1> QED
    BY <1>1, <1>2 DEF DefaultOf

LEMMA ProfilesPositive ==
  \A p \in DOMAIN Profiles, n \in RateLimits : Profiles[p][n] \in Nat /\ Profiles[p][n] > 0
<1>1. DOMAIN Profiles = {"light", "balanced", "strict", "lockdown"}
      BY DEF Profiles
<1>2. \A n \in RateLimits :
        /\ Profiles["light"][n] \in Nat /\ Profiles["light"][n] > 0
        /\ Profiles["balanced"][n] \in Nat /\ Profiles["balanced"][n] > 0
        /\ Profiles["strict"][n] \in Nat /\ Profiles["strict"][n] > 0
        /\ Profiles["lockdown"][n] \in Nat /\ Profiles["lockdown"][n] > 0
      BY DEF Profiles, RateLimits
<1> QED
    BY <1>1, <1>2

\* A configuration that a node runs with.
Sound(c, given, env) ==
  /\ \A n \in Numbers : /\ c.numbers[n] \in Int
                        /\ PassedOver(env, n) \/ c.numbers[n] = Documented(given, env, n)
  /\ \A t \in Texts : c.texts[t] = DocumentedText(given, env, t)
  /\ \A n \in Numbers \cap CheckedNumbers : c.numbers[n] > 0
  /\ \A t \in Texts \cap URLs : c.texts[t] \in GoodURLs

\* The order of precedence in which the code takes a number.
InOrder(given, env, n) ==
  LET profile == IF given.state = "yaml" /\ given.profile \in DOMAIN Profiles
                 THEN given.profile ELSE "balanced"
      builtIn == IF n \in RateLimits THEN Profiles[profile][n] ELSE Defaults[n]
  IN  IF env.numbers[n] > 0 THEN env.numbers[n]
      ELSE IF given.state = "yaml" /\ given.numbers[n] # 0 THEN given.numbers[n]
      ELSE builtIn

LEMMA LoadedIsSound ==
  ASSUME NEW given \in ConfigFiles, NEW env \in Environments, NEW c \in LoadClientConfig(given, env)
  PROVE  Sound(c, given, env)
<1> USE NodeConfigAssumption
<1>1. /\ FieldErrors(c) = {}
      /\ \/ given.state = "yaml" /\ c = Completed(LoadFromYAML(given), env)
         \/ given.state = "absent" /\ c = Completed(ZeroConfig, env)
      BY DEF LoadClientConfig
<1>2. /\ env.numbers \in [Numbers -> {-1, 0, EnvValue}]
      /\ env.texts \in [Texts -> {"", "env url", "other"}]
      /\ \A n \in Numbers : env.numbers[n] # 0 => n \in env.named
      BY DEF Environments
<1>3. ASSUME given.state = "yaml"
      PROVE  /\ given.numbers \in [Numbers -> {-1, 0, FileValue}]
             /\ given.texts \in [Texts -> {"", "blank", "file url", "other"}]
             /\ given.profile \in {"", "strict", "misspelt"}
      BY <1>3 DEF ConfigFiles, Unusable, Documents
\* Each setting: the environment, the file, the profile, the default.
<1>4. ASSUME NEW n \in Numbers
      PROVE  c.numbers[n] \in Int /\ c.numbers[n] = InOrder(given, env, n) /\ c.numbers[n] # 0
  <2>1. n \in AllNumbers /\ DefaultOf(n) \in Nat /\ DefaultOf(n) > 0
        BY DefaultsPositive
  <2>2. CASE given.state = "absent"
    <3>1. c = Completed(ZeroConfig, env)
          BY <1>1, <2>2
    <3> DEFINE over == IF env.numbers[n] > 0 THEN env.numbers[n] ELSE 0
    <3>0. env.numbers[n] \in {-1, 0, 55}
          BY <1>2 DEF EnvValue
    <3>5. c.numbers[n] = IF over = 0 THEN DefaultOf(n) ELSE over
          BY <3>1 DEF Completed, ApplyDefaults, ApplyEnvOverrides, ZeroConfig
    <3>2. c.numbers[n] = IF env.numbers[n] > 0 THEN env.numbers[n] ELSE DefaultOf(n)
          BY ONLY <3>0, <3>5
    <3>3. "balanced" \in DOMAIN Profiles /\ given.state # "yaml"
          BY <2>2 DEF Profiles
    <3>4. InOrder(given, env, n) = IF env.numbers[n] > 0 THEN env.numbers[n] ELSE DefaultOf(n)
          BY <3>3 DEF InOrder, DefaultOf
    <3>6. c.numbers[n] = InOrder(given, env, n)
          BY <3>2, <3>4
    <3>7. c.numbers[n] \in Int /\ c.numbers[n] # 0
          BY ONLY <2>1, <3>0, <3>2
    <3> QED
        BY <3>6, <3>7
  <2>3. CASE given.state = "yaml"
    <3> DEFINE base == IF given.numbers[n] # 0 THEN given.numbers[n] ELSE FromProfile(given.profile, n)
               over == IF env.numbers[n] > 0 THEN env.numbers[n] ELSE base
    <3>1. c = Completed(LoadFromYAML(given), env)
          BY <1>1, <2>3
    <3>2. c.numbers[n] = IF over = 0 THEN DefaultOf(n) ELSE over
          BY <3>1 DEF Completed, ApplyDefaults, ApplyEnvOverrides, LoadFromYAML
    <3>3. /\ "strict" \in DOMAIN Profiles /\ "" \notin DOMAIN Profiles /\ "misspelt" \notin DOMAIN Profiles
          /\ "balanced" \in DOMAIN Profiles
          BY DEF Profiles
    <3>4. /\ n \in RateLimits => /\ FromProfile("", n) = 0
                                 /\ FromProfile("strict", n) = Profiles["strict"][n]
                                 /\ FromProfile("misspelt", n) = Profiles["balanced"][n]
          /\ n \notin RateLimits => \A p \in {"", "strict", "misspelt"} : FromProfile(p, n) = 0
          BY <3>3 DEF FromProfile
    <3>5. n \in RateLimits => /\ Profiles["strict"][n] \in Nat /\ Profiles["strict"][n] > 0
                              /\ Profiles["balanced"][n] \in Nat /\ Profiles["balanced"][n] > 0
          BY <3>3, ProfilesPositive
    <3>6. env.numbers[n] \in {-1, 0, 55} /\ given.numbers[n] \in {-1, 0, 77}
          BY <1>2, <1>3, <2>3 DEF EnvValue, FileValue
    <3>7. n \in RateLimits => DefaultOf(n) = Profiles["balanced"][n]
          BY DEF DefaultOf
    <3>8. n \notin RateLimits => DefaultOf(n) = Defaults[n]
          BY DEF DefaultOf
    <3>9. InOrder(given, env, n) =
            IF env.numbers[n] > 0 THEN env.numbers[n]
            ELSE IF given.numbers[n] # 0 THEN given.numbers[n]
            ELSE IF n \notin RateLimits THEN DefaultOf(n)
            ELSE IF given.profile = "strict" THEN Profiles["strict"][n] ELSE DefaultOf(n)
          BY <1>3, <2>3, <3>3, <3>7, <3>8 DEF InOrder
    <3>10. c.numbers[n] = InOrder(given, env, n)
      <4>1. FromProfile(given.profile, n) =
              IF n \notin RateLimits \/ given.profile = "" THEN 0
              ELSE IF given.profile = "strict" THEN Profiles["strict"][n] ELSE DefaultOf(n)
            BY <1>3, <2>3, <3>4, <3>7
      <4>2. given.profile = "strict" => given.profile # ""
            OBVIOUS
      <4>3. FromProfile(given.profile, n) = 0
              <=> n \notin RateLimits \/ given.profile = ""
        <5>1. DefaultOf(n) # 0
              BY ONLY <2>1
        <5>2. n \in RateLimits => Profiles["strict"][n] # 0
              BY ONLY <3>5
        <5> QED
            BY ONLY <4>1, <5>1, <5>2
      <4>4. IF given.numbers[n] # 0 THEN base = given.numbers[n] ELSE base = FromProfile(given.profile, n)
            OBVIOUS
      <4>5. IF env.numbers[n] > 0 THEN over = env.numbers[n] ELSE over = base
            OBVIOUS
      <4> HIDE DEF base, over
      <4>6. CASE env.numbers[n] > 0
            BY ONLY <3>2, <3>6, <3>9, <4>5, <4>6
      <4>7. CASE ~(env.numbers[n] > 0) /\ given.numbers[n] # 0
            BY ONLY <3>2, <3>6, <3>9, <4>4, <4>5, <4>7
      <4>8. CASE ~(env.numbers[n] > 0) /\ given.numbers[n] = 0
            BY ONLY <3>2, <3>9, <4>1, <4>2, <4>3, <4>4, <4>5, <4>8
      <4> QED
          BY <4>6, <4>7, <4>8
    <3>11. InOrder(given, env, n) \in Int /\ InOrder(given, env, n) # 0
           BY <2>1, <3>5, <3>6, <3>9
    <3> QED
        BY <3>10, <3>11
  <2> QED
      BY <1>1, <2>2, <2>3
<1>7. ASSUME NEW n \in Numbers, ~PassedOver(env, n)
      PROVE  Documented(given, env, n) = InOrder(given, env, n)
  <2>1. (n \in env.named => env.numbers[n] > 0) /\ (n \notin env.named => env.numbers[n] = 0)
    <3>1. env.numbers[n] \in {-1, 0, 55} /\ (env.numbers[n] # 0 => n \in env.named)
          BY <1>2 DEF EnvValue
    <3>2. n \in env.named => ~(env.numbers[n] <= 0)
          BY <1>7 DEF PassedOver
    <3> QED
        BY ONLY <3>1, <3>2
  <2>2. n \in env.named <=> env.numbers[n] > 0
        BY <2>1
  <2> QED
      BY <2>2, Zenon DEF Documented, InOrder
<1>8. ASSUME NEW t \in Texts PROVE c.texts[t] = DocumentedText(given, env, t)
  <2>1. CASE given.state = "absent"
    <3>1. c = Completed(ZeroConfig, env) /\ given.state # "yaml"
          BY <1>1, <2>1
    <3> QED
        BY <3>1 DEF Completed, ApplyDefaults, ApplyEnvOverrides, ZeroConfig, DocumentedText
  <2>2. CASE given.state = "yaml"
    <3>1. c = Completed(LoadFromYAML(given), env)
          BY <1>1, <2>2
    <3> QED
        BY <2>2, <3>1 DEF Completed, ApplyDefaults, ApplyEnvOverrides, LoadFromYAML, DocumentedText
  <2> QED
      BY <1>1, <2>1, <2>2
<1>5. \A n \in Numbers \cap CheckedNumbers : c.numbers[n] > 0
  <2> TAKE n \in Numbers \cap CheckedNumbers
  <2>1. ~(c.numbers[n] < 0)
        BY <1>1 DEF FieldErrors
  <2> QED
      BY <1>4, <2>1
<1>6. \A t \in Texts \cap URLs : c.texts[t] \in GoodURLs
  <2> TAKE t \in Texts \cap URLs
  <2>1. t \in Texts \cap Required
        BY DEF Required
  <2>2. c.texts[t] \notin {"", "blank"}
        BY <1>1, <2>1 DEF FieldErrors
  <2>3. ~InvalidURL(c.texts[t])
        BY <1>1, <2>2 DEF FieldErrors
  <2> QED
      BY <2>3 DEF InvalidURL
<1> QED
    BY <1>4, <1>5, <1>6, <1>7, <1>8 DEF Sound

ConfigInv ==
  nodeRunning =>
    /\ Sound(cfg, source.file, source.env)
    /\ limits \in [Numbers \cap RateLimits -> Nat] /\ \A n \in Numbers \cap RateLimits : limits[n] > 0

\* Whichever settings are followed: what the passes over file, environment and defaults
\* leave in a node that runs is for every text, and for every number whose variable is not
\* set to something that is not positive, what the order of precedence of
\* docs/configuration.md says; and nothing that is accepted, nor any plan that the master
\* sends afterwards, leaves one of the six numbers that ValidateClientConfig looks at, or a
\* threshold of the limiter, without a positive value (LoadClientConfig, UpdateThresholds).
THEOREM NodeRunsAsDocumented == NodeConfigSpec => []RunsAsDocumented
<1>1. NodeConfigInit => ConfigInv
      BY DEF NodeConfigInit, ConfigInv
<1>2. ConfigInv /\ [NodeConfigNext]_nodeConfigVars => ConfigInv'
  <2> SUFFICES ASSUME ConfigInv, [NodeConfigNext]_nodeConfigVars PROVE ConfigInv'
      OBVIOUS
  <2>1. ASSUME NEW given \in ConfigFiles, NEW env \in Environments, StartNode(given, env) PROVE ConfigInv'
    <3>1. PICK c \in LoadClientConfig(given, env) : cfg' = c /\ limits' = LimitsOf(c)
          BY <2>1 DEF StartNode
    <3>2. source'.file = given /\ source'.env = env
          BY <2>1 DEF StartNode
    <3>3. Sound(c, given, env)
          BY <3>1, LoadedIsSound
    <3>4. /\ limits' = [n \in Numbers \cap RateLimits |-> c.numbers[n]]
          /\ \A n \in Numbers \cap RateLimits : c.numbers[n] \in Int /\ c.numbers[n] > 0
          BY <3>1, <3>3 DEF Sound, LimitsOf, CheckedNumbers
    <3>5. \A n \in Numbers \cap RateLimits : c.numbers[n] \in Nat /\ c.numbers[n] > 0
          BY <3>4
    <3>6. Sound(cfg, source.file, source.env)'
          BY <3>1, <3>2, <3>3 DEF Sound
    <3> QED
        BY <3>4, <3>5, <3>6 DEF ConfigInv
  <2>2. ASSUME NEW rate \in PlanRates, NEW xdpEnabled \in BOOLEAN, PlanReceived(rate, xdpEnabled)
        PROVE  ConfigInv'
    <3>1. /\ rate \in {0, 1200} /\ nodeRunning
          /\ limits' = [n \in Numbers \cap RateLimits |->
                          IF n # "HardBlockAfter" /\ rate > 0 THEN rate ELSE limits[n]]
          BY <2>2 DEF PlanRates, PlanReceived, UpdateThresholds
    <3>2. UNCHANGED <<nodeRunning, cfg, source>>
          BY <2>2 DEF PlanReceived
    <3>3. Sound(cfg, source.file, source.env)'
          BY <3>1, <3>2 DEF Sound, ConfigInv
    <3> QED
        BY <3>1, <3>3 DEF ConfigInv
  <2>3. ASSUME Shutdown PROVE ConfigInv'
        BY <2>3 DEF Shutdown, ConfigInv
  <2>4. CASE UNCHANGED nodeConfigVars
        BY <2>4 DEF nodeConfigVars, ConfigInv, Sound
  <2> QED
      BY <2>1, <2>2, <2>3, <2>4 DEF NodeConfigNext
<1>3. ConfigInv => RunsAsDocumented
  <2> SUFFICES ASSUME ConfigInv, nodeRunning PROVE RunsAsDocumented
      BY DEF RunsAsDocumented
  <2>1. DOMAIN limits = Numbers \cap RateLimits /\ \A n \in Numbers \cap RateLimits : limits[n] > 0
        BY DEF ConfigInv
  <2>2. Sound(cfg, source.file, source.env)
        BY DEF ConfigInv
  <2> QED
      BY <2>1, <2>2 DEF RunsAsDocumented, Sound
<1> QED
    BY <1>1, <1>2, <1>3, PTL DEF NodeConfigSpec

\* A configuration that loads without an error is complete: every setting has a value.
Complete(c) ==
  /\ c.numbers \in [Numbers -> Int]
  /\ c.texts \in [Texts -> TextValues]
  /\ c.admins \in AdminLists \ {"addresses"}

LEMMA LoadedIsComplete ==
  ASSUME NEW given \in ConfigFiles, NEW env \in Environments, NEW c \in LoadClientConfig(given, env)
  PROVE  Complete(c)
<1>1. /\ FieldErrors(c) = {}
      /\ \/ given.state = "yaml" /\ c = Completed(LoadFromYAML(given), env)
         \/ given.state = "absent" /\ c = Completed(ZeroConfig, env)
      BY DEF LoadClientConfig
<1>2. PICK base : /\ c = Completed(base, env)
                  /\ base.texts \in [Texts -> TextValues] /\ base.admins \in AdminLists
  <2>1. CASE given.state = "yaml" /\ c = Completed(LoadFromYAML(given), env)
    <3>1. given.texts \in [Texts -> {"", "blank", "file url", "other"}] /\ given.admins \in AdminLists
          BY <2>1 DEF ConfigFiles, Unusable, Documents
    <3>2. LoadFromYAML(given).texts = given.texts /\ LoadFromYAML(given).admins = given.admins
          BY DEF LoadFromYAML
    <3> QED
        BY <2>1, <3>1, <3>2 DEF TextValues, GoodURLs
  <2>2. CASE given.state = "absent" /\ c = Completed(ZeroConfig, env)
    <3>1. ZeroConfig.texts \in [Texts -> TextValues] /\ ZeroConfig.admins \in AdminLists
          BY DEF ZeroConfig, TextValues, AdminLists
    <3> QED
        BY <2>2, <3>1
  <2> QED
      BY <1>1, <2>1, <2>2
<1>3. env.texts \in [Texts -> {"", "env url", "other"}] /\ env.admins \in {"unset", "none"}
      BY DEF Environments
<1> DEFINE over == ApplyEnvOverrides(base, env)
<1>4. /\ over.texts = [t \in Texts |-> IF env.texts[t] # "" THEN env.texts[t] ELSE base.texts[t]]
      /\ over.admins = IF env.admins # "unset" THEN env.admins ELSE base.admins
      /\ over = [numbers |-> over.numbers, texts |-> over.texts, admins |-> over.admins]
      BY DEF ApplyEnvOverrides
<1>5. c = ApplyDefaults(over)
      BY <1>2 DEF Completed
<1> HIDE DEF over
<1>6. /\ c.numbers = [n \in Numbers |-> IF over.numbers[n] = 0 THEN DefaultOf(n) ELSE over.numbers[n]]
      /\ c.texts = [t \in Texts |->
                      IF t \in Defaulted /\ over.texts[t] = "" THEN "default" ELSE over.texts[t]]
      /\ c.admins = over.admins
      BY <1>4, <1>5 DEF ApplyDefaults
<1>7. c.numbers \in [Numbers -> Int]
  <2>1. \A n \in Numbers : c.numbers[n] \in Int
        BY LoadedIsSound DEF Sound
  <2> QED
      BY <1>6, <2>1
<1>8. c.texts \in [Texts -> TextValues]
  <2>0. \A t \in Texts : env.texts[t] \in TextValues /\ base.texts[t] \in TextValues
        BY <1>2, <1>3 DEF TextValues, GoodURLs
  <2>1. over.texts \in [Texts -> TextValues]
    <3>1. \A t \in Texts : (IF env.texts[t] # "" THEN env.texts[t] ELSE base.texts[t]) \in TextValues
          BY <2>0
    <3> QED
        BY <1>4, <3>1
  <2>2. "default" \in TextValues
        BY DEF TextValues
  <2> QED
      BY <1>6, <2>1, <2>2
<1>9. c.admins \in AdminLists \ {"addresses"}
  <2>1. c.admins \in AdminLists
        BY <1>2, <1>3, <1>4, <1>6 DEF AdminLists
  <2>2. c.admins # "addresses"
        BY <1>1 DEF FieldErrors
  <2> QED
      BY <2>1, <2>2
<1> QED
    BY <1>7, <1>8, <1>9 DEF Complete

ConfigTypes ==
  /\ nodeRunning \in BOOLEAN /\ xdpStarted \in BOOLEAN
  /\ Complete(cfg)
  /\ limits \in [Numbers \cap RateLimits -> Nat]

LEMMA ZeroIsComplete ==
  Complete(ZeroConfig) /\ LimitsOf(ZeroConfig) \in [Numbers \cap RateLimits -> Nat]
<1>1. /\ ZeroConfig.numbers = [n \in Numbers |-> 0] /\ ZeroConfig.texts = [t \in Texts |-> ""]
      /\ ZeroConfig.admins = "none"
      BY DEF ZeroConfig
<1>2. Complete(ZeroConfig)
  <2>1. ZeroConfig.numbers \in [Numbers -> Int]
    <3>1. [n \in Numbers |-> 0] \in [Numbers -> Int]
          OBVIOUS
    <3> QED
        BY <1>1, <3>1, Zenon
  <2>2. "" \in TextValues /\ "none" \in AdminLists \ {"addresses"}
        BY DEF TextValues, AdminLists
  <2>3. ZeroConfig.texts \in [Texts -> TextValues]
        BY <1>1, <2>2
  <2> QED
      BY <1>1, <2>1, <2>2, <2>3 DEF Complete
<1>3. LimitsOf(ZeroConfig) \in [Numbers \cap RateLimits -> Nat]
  <2>1. \A n \in Numbers \cap RateLimits : ZeroConfig.numbers[n] = 0
        BY <1>1
  <2> QED
      BY <2>1 DEF LimitsOf
<1> QED
    BY <1>2, <1>3

LEMMA ConfigTypesStep ==
  ASSUME ConfigTypes, [NodeConfigNext]_nodeConfigVars PROVE ConfigTypes'
<1>1. ASSUME NEW given \in ConfigFiles, NEW env \in Environments, StartNode(given, env)
      PROVE  ConfigTypes'
  <2>1. PICK c \in LoadClientConfig(given, env) : cfg' = c /\ limits' = LimitsOf(c)
        BY <1>1 DEF StartNode
  <2>2. Complete(c) /\ Sound(c, given, env)
        BY <2>1, LoadedIsComplete, LoadedIsSound
  <2>3. \A n \in Numbers \cap RateLimits : c.numbers[n] \in Int /\ c.numbers[n] > 0
        BY <2>2 DEF Sound, CheckedNumbers
  <2>4. \A n \in Numbers \cap RateLimits : c.numbers[n] \in Nat
        BY <2>3
  <2>5. limits' \in [Numbers \cap RateLimits -> Nat]
        BY <2>1, <2>4 DEF LimitsOf
  <2>6. Complete(cfg)'
        BY <2>1, <2>2 DEF Complete
  <2>7. nodeRunning' = TRUE /\ xdpStarted' = FALSE
        BY <1>1 DEF StartNode
  <2> QED
      BY <2>5, <2>6, <2>7 DEF ConfigTypes
<1>2. ASSUME NEW rate \in PlanRates, NEW xdpEnabled \in BOOLEAN, PlanReceived(rate, xdpEnabled)
      PROVE  ConfigTypes'
  <2>1. /\ rate \in {0, 1200} /\ UNCHANGED <<nodeRunning, cfg>>
        /\ xdpStarted' = (xdpStarted \/ xdpEnabled)
        /\ limits' = [n \in Numbers \cap RateLimits |->
                        IF n # "HardBlockAfter" /\ rate > 0 THEN rate ELSE limits[n]]
        BY <1>2 DEF PlanRates, PlanReceived, UpdateThresholds
  <2>2. limits' \in [Numbers \cap RateLimits -> Nat]
    <3>1. limits \in [Numbers \cap RateLimits -> Nat]
          BY DEF ConfigTypes
    <3> QED
        BY ONLY <2>1, <3>1
  <2>3. Complete(cfg)'
        BY <2>1 DEF Complete, ConfigTypes
  <2>4. nodeRunning' \in BOOLEAN /\ xdpStarted' \in BOOLEAN
        BY <2>1 DEF ConfigTypes
  <2> QED
      BY <2>2, <2>3, <2>4 DEF ConfigTypes
<1>3. ASSUME Shutdown PROVE ConfigTypes'
  <2>1. /\ nodeRunning' = FALSE /\ xdpStarted' = FALSE
        /\ cfg' = ZeroConfig /\ limits' = LimitsOf(ZeroConfig)
        BY <1>3 DEF Shutdown
  <2>2. Complete(cfg)'
        BY <2>1, ZeroIsComplete DEF Complete
  <2> QED
      BY <2>1, <2>2, ZeroIsComplete DEF ConfigTypes
<1>4. CASE UNCHANGED nodeConfigVars
      BY <1>4 DEF nodeConfigVars, ConfigTypes, Complete
<1> QED
    BY <1>1, <1>2, <1>3, <1>4 DEF NodeConfigNext

\* Whichever settings are followed: a node that runs, and one that does not, has a value for each
\* of them, and none that the validation should have refused (LoadClientConfig and
\* ValidateClientConfig).
THEOREM NodeConfigTypes == NodeConfigSpec => []NodeConfigTypeOK
<1>1. NodeConfigInit => ConfigTypes
      BY ZeroIsComplete DEF NodeConfigInit, ConfigTypes
<1>2. ConfigTypes => NodeConfigTypeOK
      BY Zenon DEF ConfigTypes, Complete, NodeConfigTypeOK
<1> QED
    BY <1>1, <1>2, ConfigTypesStep, PTL DEF NodeConfigSpec

-----------------------------------------------------------------------------
(* Guesses at the admin key.  An attempt that has been let through and not yet logged *)
(* counts as much as a failure that is logged: the count that let it through was below *)
(* the limit, and no more attempts can be under way than there are goroutines.        *)

UnderWay == {g \in Logins : loginStep[g] \in {"compare", "log failure"}}

GuessTypes ==
  /\ loginStep \in [Logins -> {"idle", "count", "lock", "compare", "log failure", "session"}]
  /\ failedLogins \in [0..LockTime -> Nat]

GuessInv ==
  /\ GuessTypes
  /\ FailedWithin(FailWindow) + Cardinality(UnderWay) <= MaxFailed

\* FailedWithin adds up the failures of each age.
LEMMA FailuresAreSummed == ASSUME NEW a PROVE FailedWithin(a) = SumOn(failedLogins, 0..a)
BY DEF FailedWithin, ReduceSet, FoldSet, MapThenFoldSet, SumOn, Sums, SumBody, First

LEMMA FailuresAreSummedNext ==
  ASSUME NEW a PROVE FailedWithin(a)' = SumOn(failedLogins', (0..a)')
BY DEF FailedWithin, ReduceSet, FoldSet, MapThenFoldSet, SumOn, Sums, SumBody, First

LEMMA Windows ==
  /\ FailWindow \in Nat /\ LockTime \in Nat /\ FailWindow \in 0..LockTime
  /\ 0 \in 0..FailWindow /\ 0..FailWindow \subseteq 0..LockTime
<1>1. FailWindow \in Nat /\ LockTime \in Nat /\ FailWindow <= LockTime
      BY AdminAssumption, Zenon
<1> QED
    BY ONLY <1>1

LEMMA FailureSums ==
  ASSUME GuessTypes
  PROVE  /\ FailedWithin(FailWindow) \in Nat /\ FailedWithin(LockTime) \in Nat
         /\ FailedWithin(FailWindow) <= FailedWithin(LockTime)
<1> USE Windows DEF GuessTypes
<1>1. \A x \in 0..LockTime : failedLogins[x] \in Nat
      OBVIOUS
<1>2. FailWindow \in 0..LockTime /\ \A x \in 0..FailWindow : failedLogins[x] \in Nat
      OBVIOUS
<1>3. SumOn(failedLogins, 0..FailWindow) \in Nat /\ SumOn(failedLogins, 0..LockTime) \in Nat
      BY <1>1, <1>2, SumUpToIsNat
<1>4. SumOn(failedLogins, 0..FailWindow) <= SumOn(failedLogins, 0..LockTime)
      BY <1>1, <1>2, SumUpToGrows
<1> QED
    BY <1>3, <1>4, FailuresAreSummed

LEMMA UnderWayCounts ==
  ASSUME NEW S \in SUBSET Logins
  PROVE  /\ IsFiniteSet(S) /\ Cardinality(S) \in Nat /\ Cardinality(Logins) \in Nat
         /\ Cardinality(S) <= Cardinality(Logins)
         /\ \A R \in SUBSET S : Cardinality(R) \in Nat /\ Cardinality(R) <= Cardinality(S)
         /\ \A g \in S : Cardinality(S \ {g}) = Cardinality(S) - 1
<1>1. IsFiniteSet(Logins) /\ IsFiniteSet(S)
      BY AdminAssumption, FS_Subset
<1>2. \A R \in SUBSET S : Cardinality(R) \in Nat /\ Cardinality(R) <= Cardinality(S)
      BY <1>1, FS_Subset, FS_CardinalityType
<1>3. Cardinality(Logins) \in Nat /\ Cardinality(S) \in Nat /\ Cardinality(S) <= Cardinality(Logins)
      BY <1>1, FS_Subset, FS_CardinalityType
<1>4. \A g \in S : Cardinality(S \ {g}) = Cardinality(S) - 1
      BY <1>1, FS_RemoveElement
<1> QED
    BY <1>1, <1>2, <1>3, <1>4

LEMMA GuessInit == AdminInit => GuessInv
<1> SUFFICES ASSUME AdminInit PROVE GuessInv
    OBVIOUS
<1>1. GuessTypes /\ UnderWay = {}
      BY DEF AdminInit, GuessTypes, UnderWay
<1>2. FailWindow \in Nat /\ \A x \in 0..FailWindow : failedLogins[x] = 0
      BY AdminAssumption DEF AdminInit
<1>3. FailedWithin(FailWindow) = 0
      BY <1>2, SumOnZero, FailuresAreSummed
<1>4. Cardinality(UnderWay) = 0
      BY <1>1, FS_EmptySet
<1>5. Cardinality(Logins) \in Nat
      BY UnderWayCounts
<1> QED
    BY <1>1, <1>3, <1>4, <1>5, AdminAssumption DEF GuessInv, MaxFailed

LEMMA GuessStep == GuessInv /\ [AdminNext]_adminVars => GuessInv'
<1> SUFFICES ASSUME GuessInv, [AdminNext]_adminVars PROVE GuessInv'
    OBVIOUS
<1> USE DEF GuessInv
<1>0. /\ FailLimit \in Nat /\ MaxFailed = FailLimit - 1 + Cardinality(Logins)
      /\ FailedWithin(FailWindow) \in Nat /\ FailedWithin(LockTime) \in Nat
      /\ FailedWithin(FailWindow) <= FailedWithin(LockTime)
      /\ UnderWay \in SUBSET Logins
      BY AdminAssumption, FailureSums DEF MaxFailed, UnderWay
<1>a. /\ Cardinality(UnderWay) \in Nat /\ Cardinality(Logins) \in Nat
      BY <1>0, UnderWayCounts
\* No attempt is let through and none is logged.
<1>1. ASSUME GuessTypes', UNCHANGED failedLogins, UnderWay' \subseteq UnderWay PROVE GuessInv'
  <2>1. FailedWithin(FailWindow)' = FailedWithin(FailWindow)
        BY <1>1, FailuresAreSummed, FailuresAreSummedNext
  <2>2. Cardinality(UnderWay') \in Nat /\ Cardinality(UnderWay') <= Cardinality(UnderWay)
        BY <1>0, <1>1, UnderWayCounts
  <2>3. MaxFailed' = MaxFailed
        BY DEF MaxFailed
  <2> QED
      BY <1>0, <1>a, <1>1, <2>1, <2>2, <2>3
\* A count below the limit lets an attempt through.
<1>2. ASSUME GuessTypes', UNCHANGED failedLogins, FailedWithin(FailWindow) < FailLimit PROVE GuessInv'
  <2>1. FailedWithin(FailWindow)' = FailedWithin(FailWindow)
        BY <1>2, FailuresAreSummed, FailuresAreSummedNext
  <2>2. UnderWay' \in SUBSET Logins
        BY DEF UnderWay
  <2>3. Cardinality(UnderWay') \in Nat /\ Cardinality(UnderWay') <= Cardinality(Logins)
        BY <2>2, UnderWayCounts
  <2>4. MaxFailed' = MaxFailed
        BY DEF MaxFailed
  <2> QED
      BY <1>0, <1>a, <1>2, <2>1, <2>3, <2>4
<1>3. ASSUME NEW g \in Logins, LoginArrives(g) PROVE GuessInv'
      BY <1>1, <1>3 DEF LoginArrives, LoginAt, GuessTypes, UnderWay
<1>4. ASSUME NEW g \in Logins, CountRecent(g) PROVE GuessInv'
  <2>1. GuessTypes' /\ UNCHANGED failedLogins
        BY <1>4 DEF CountRecent, LoginAt, GuessTypes
  <2>2. CASE FailedWithin(FailWindow) < FailLimit
        BY <1>2, <2>1, <2>2
  <2>3. CASE FailedWithin(FailWindow) >= FailLimit
    <3>1. UnderWay' \subseteq UnderWay
          BY <1>4, <2>3 DEF CountRecent, LoginAt, GuessTypes, UnderWay
    <3> QED
        BY <1>1, <2>1, <3>1
  <2> QED
      BY <1>0, <2>2, <2>3
<1>5. ASSUME NEW g \in Logins, CountLock(g) PROVE GuessInv'
  <2>1. GuessTypes' /\ UNCHANGED failedLogins
        BY <1>5 DEF CountLock, LoginAt, GuessTypes
  <2>2. CASE FailedWithin(FailWindow) < FailLimit
        BY <1>2, <2>1, <2>2
  <2>3. CASE FailedWithin(FailWindow) >= FailLimit
    <3>1. FailedWithin(LockTime) >= FailLimit
          BY <1>0, <2>3
    <3>2. UnderWay' \subseteq UnderWay
          BY <1>5, <3>1 DEF CountLock, LoginAt, GuessTypes, UnderWay
    <3> QED
        BY <1>1, <2>1, <3>2
  <2> QED
      BY <1>0, <2>2, <2>3
<1>6. ASSUME NEW g \in Logins, CompareKey(g) PROVE GuessInv'
      BY <1>1, <1>6 DEF CompareKey, LoginAt, GuessTypes, UnderWay
<1>7. ASSUME NEW g \in Logins, LogFailure(g) PROVE GuessInv'
  <2>1. g \in UnderWay /\ loginStep' = [loginStep EXCEPT ![g] = "idle"]
        BY <1>7 DEF LogFailure, LoginAt, UnderWay
  <2>2. UnderWay' = UnderWay \ {g}
        BY <2>1 DEF UnderWay, GuessTypes
  <2>3. CASE UNCHANGED failedLogins
    <3>1. GuessTypes'
          BY <2>1, <2>3 DEF GuessTypes
    <3> QED
        BY <1>1, <2>2, <2>3, <3>1
  <2>4. CASE LogLoginAttempt
    <3>1. /\ 0 \in 0..FailWindow /\ 0..FailWindow \subseteq 0..LockTime /\ FailWindow \in Int
          /\ failedLogins' = [failedLogins EXCEPT ![0] = @ + 1]
          BY <2>4, Windows DEF LogLoginAttempt
    <3>2. GuessTypes'
      <4>1. failedLogins' \in [0..LockTime -> Nat]
        <5>1. failedLogins \in [0..LockTime -> Nat] /\ 0 \in 0..LockTime
              BY <3>1, Zenon DEF GuessTypes
        <5> QED
            BY ONLY <3>1, <5>1
      <4> QED
          BY <2>1, <4>1 DEF GuessTypes
    <3>3. IsFiniteSet(0..FailWindow)
          BY ONLY <3>1, FS_Interval
    <3>4. Addends(failedLogins, 0..FailWindow)
          BY <3>1, <3>3 DEF Addends, GuessTypes
    <3>5. failedLogins'[0] = failedLogins[0] + 1
          /\ \A x \in (0..FailWindow) \ {0} : failedLogins'[x] = failedLogins[x]
          BY <3>1 DEF GuessTypes
    <3>6. SumOn(failedLogins', 0..FailWindow) = SumOn(failedLogins, 0..FailWindow) + 1
          BY <3>1, <3>4, <3>5, SumOnOneMore
    <3>7. FailedWithin(FailWindow)' = SumOn(failedLogins', 0..FailWindow)
          BY FailuresAreSummedNext
    <3>8. FailedWithin(FailWindow)' = FailedWithin(FailWindow) + 1
          BY <3>6, <3>7, FailuresAreSummed
    <3>9. Cardinality(UnderWay') = Cardinality(UnderWay) - 1
          BY <1>0, <2>1, <2>2, UnderWayCounts
    <3>10. MaxFailed' = MaxFailed
          BY DEF MaxFailed
    <3> QED
        BY <1>0, <1>a, <3>2, <3>8, <3>9, <3>10
  <2> QED
      BY <1>7, <2>3, <2>4 DEF LogFailure
<1>8. ASSUME NEW g \in Logins, NEW s \in Sessions, CreateSession(g, s) PROVE GuessInv'
      BY <1>1, <1>8 DEF CreateSession, LoginAt, GuessTypes, UnderWay
<1>9. CASE AdminTick
  <2>1. /\ failedLogins' = [a \in 0..LockTime |-> IF a = 0 THEN 0 ELSE failedLogins[a - 1]]
        /\ UNCHANGED loginStep
        BY <1>9 DEF AdminTick
  <2>2. GuessTypes'
    <3>1. failedLogins' \in [0..LockTime -> Nat]
      <4>1. ASSUME NEW a \in 0..LockTime, a # 0 PROVE failedLogins[a - 1] \in Nat
        <5>1. LockTime \in Nat
              BY Windows
        <5>2. a - 1 \in 0..LockTime
              BY ONLY <4>1, <5>1, a \in 0..LockTime
        <5> QED
            BY <5>2 DEF GuessTypes
      <4> QED
          BY <2>1, <4>1
    <3> QED
        BY <2>1, <3>1 DEF GuessTypes
  <2>3. UnderWay' = UnderWay /\ MaxFailed' = MaxFailed
        BY <2>1 DEF UnderWay, MaxFailed
  <2>4. FailedWithin(FailWindow)' = SumOn(failedLogins', 0..FailWindow)
        BY FailuresAreSummedNext
  <2>5. SumOn(failedLogins', 0..FailWindow) <= SumOn(failedLogins, 0..FailWindow)
    <3>1. FailWindow \in Nat /\ \A x \in 0..FailWindow : failedLogins[x] \in Nat
          BY Windows DEF GuessTypes
    <3>2. CASE FailWindow = 0
      <4>1. failedLogins'[0] = 0
            BY <2>1, Windows
      <4>2. SumOn(failedLogins', 0..0) = 0
            BY <4>1, SumUpToZero
      <4>3. SumOn(failedLogins, 0..0) \in Nat
            BY <3>1, <3>2, SumUpToIsNat
      <4> QED
          BY <3>2, <4>2, <4>3
    <3>3. CASE FailWindow # 0
      <4>1. PICK n \in Nat : n + 1 = FailWindow
            BY <3>1, <3>3
      <4>2. \A x \in 0..n : failedLogins[x] \in Nat
            BY <3>1, <4>1
      <4>3. failedLogins'[0] = 0 /\ \A x \in 1..(n + 1) : failedLogins'[x] = failedLogins[x - 1]
            BY <2>1, <4>1, Windows
      <4>4. SumOn(failedLogins', 0..(n + 1)) = SumOn(failedLogins, 0..n)
            BY <4>2, <4>3, SumUpToShifts
      <4>5. SumOn(failedLogins, 0..n) <= SumOn(failedLogins, 0..FailWindow)
            BY <3>1, <4>1, SumUpToGrows
      <4> QED
          BY <4>1, <4>4, <4>5
    <3> QED
        BY <3>2, <3>3
  <2>6. FailedWithin(FailWindow)' <= FailedWithin(FailWindow) /\ FailedWithin(FailWindow)' \in Nat
    <3>1. FailedWithin(FailWindow)' \in Nat
      <4>1. FailWindow \in Nat /\ \A x \in 0..FailWindow : failedLogins'[x] \in Nat
            BY <2>2, Windows DEF GuessTypes
      <4> QED
          BY <2>4, <4>1, SumUpToIsNat
    <3> QED
        BY <2>4, <2>5, <3>1, FailuresAreSummed
  <2> QED
      BY <1>0, <1>a, <2>2, <2>3, <2>6
<1>10. ASSUME SessionMissing \/ Logout \/ UpdateCheck \/ Registration \/ UNCHANGED adminVars
              \/ \E v \in Versions : ReleaseCreate(v) \/ ReleaseDelete(v)
       PROVE  GuessInv'
  <2>1. UNCHANGED <<loginStep, failedLogins>>
        BY <1>10 DEF SessionMissing, Logout, UpdateCheck, Registration, adminVars, ReleaseCreate,
                     ReleaseDelete
  <2>2. GuessTypes' /\ UnderWay' \subseteq UnderWay
        BY <2>1 DEF GuessTypes, UnderWay
  <2> QED
      BY <1>1, <2>1, <2>2
<1> QED
    BY <1>3, <1>4, <1>5, <1>6, <1>7, <1>8, <1>9, <1>10 DEF AdminNext

\* What has been compared since the moment that the history looks back to is logged by now,
\* is to be logged yet, or could not be.
Logging == {g \in Logins : loginStep[g] = "log failure"}

ObservedTypes ==
  observed \in [age : 0..FailWindow, guesses : Nat, unlogged : 0..MaxUnlogged]

ObservedInv ==
  /\ ObservedTypes
  /\ observed.guesses <= FailedWithin(observed.age) + Cardinality(Logging) + observed.unlogged

LEMMA ObservedSum == FailedWithin(observed.age) = SumOn(failedLogins, 0..observed.age)
BY DEF FailedWithin, ReduceSet, FoldSet, MapThenFoldSet, SumOn, Sums, SumBody, First

LEMMA ObservedSumNext == FailedWithin(observed.age)' = SumOn(failedLogins', 0..observed'.age)
BY DEF FailedWithin, ReduceSet, FoldSet, MapThenFoldSet, SumOn, Sums, SumBody, First

LEMMA ObservedSums ==
  ASSUME GuessTypes, ObservedTypes
  PROVE  /\ observed.age \in 0..FailWindow /\ observed.age \in Nat
         /\ \A x \in 0..observed.age : failedLogins[x] \in Nat
         /\ FailedWithin(observed.age) \in Nat
         /\ FailedWithin(observed.age) <= FailedWithin(FailWindow)
<1>1. observed.age \in 0..FailWindow /\ observed.age \in Nat
      BY Windows DEF ObservedTypes
<1>2. \A x \in 0..FailWindow : failedLogins[x] \in Nat
      BY Windows DEF GuessTypes
<1>3. \A x \in 0..observed.age : failedLogins[x] \in Nat
      BY <1>1, <1>2, Windows
<1>4. SumOn(failedLogins, 0..observed.age) \in Nat
      BY <1>1, <1>3, SumUpToIsNat
<1>5. SumOn(failedLogins, 0..observed.age) <= SumOn(failedLogins, 0..FailWindow)
      BY <1>1, <1>2, Windows, SumUpToGrows
<1> QED
    BY <1>1, <1>3, <1>4, <1>5, ObservedSum, FailuresAreSummed

LEMMA ObservedInit == AdminInit => ObservedInv
<1> SUFFICES ASSUME AdminInit PROVE ObservedInv
    OBVIOUS
<1>1. observed = [age |-> 0, guesses |-> 0, unlogged |-> 0]
      BY DEF AdminInit, Unobserved
<1>2. ObservedTypes
      BY <1>1, Windows, AdminAssumption DEF ObservedTypes
<1>3. GuessTypes
      BY DEF AdminInit, GuessTypes
<1>4. Cardinality(Logging) \in Nat
      BY UnderWayCounts DEF Logging
<1> QED
    BY <1>1, <1>2, <1>3, <1>4, ObservedSums DEF ObservedInv

\* With the failures and what is observed as they were, only a smaller set of attempts that are
\* to be logged could break the bound.
LEMMA NothingCompared ==
  ASSUME ObservedInv, UNCHANGED <<failedLogins, observed>>, Logging' = Logging
  PROVE  ObservedInv'
<1>1. FailedWithin(observed.age)' = FailedWithin(observed.age)
      BY ObservedSum, ObservedSumNext
<1> QED
    BY <1>1 DEF ObservedInv, ObservedTypes

LEMMA ObservedStep ==
  ASSUME GuessTypes, ObservedInv, [AdminNext]_adminVars PROVE ObservedInv'
<1>0. /\ FailedWithin(observed.age) \in Nat /\ observed.age \in Nat
      /\ observed.guesses \in Nat /\ observed.unlogged \in Nat
      /\ Logging \in SUBSET Logins /\ Cardinality(Logging) \in Nat
  <2>1. FailedWithin(observed.age) \in Nat /\ observed.age \in Nat
        BY ObservedSums DEF ObservedInv
  <2>2. MaxUnlogged \in Nat
        BY AdminAssumption, Zenon
  <2>3. observed.guesses \in Nat /\ observed.unlogged \in Nat
        BY <2>2 DEF ObservedInv, ObservedTypes
  <2>4. Logging \in SUBSET Logins
        BY DEF Logging
  <2>5. Cardinality(Logging) \in Nat
        BY <2>4, UnderWayCounts
  <2> QED
      BY <2>1, <2>3, <2>4, <2>5
<1>a. observed.guesses <= FailedWithin(observed.age) + Cardinality(Logging) + observed.unlogged
      BY DEF ObservedInv
<1>1. ASSUME NEW g \in Logins, LoginArrives(g) \/ CountRecent(g) \/ CountLock(g) PROVE ObservedInv'
  <2>1. UNCHANGED <<failedLogins, observed>>
        BY <1>1 DEF LoginArrives, CountRecent, CountLock
  <2>2. Logging' = Logging
        BY <1>1 DEF LoginArrives, CountRecent, CountLock, LoginAt, GuessTypes, Logging
  <2> QED
      BY <2>1, <2>2, NothingCompared
<1>2. ASSUME NEW g \in Logins, CompareKey(g) PROVE ObservedInv'
  <2>1. CASE LoginAt(g, "compare", "session") /\ UNCHANGED observed
    <3>1. UNCHANGED failedLogins /\ Logging' = Logging
          BY <1>2, <2>1 DEF CompareKey, LoginAt, GuessTypes, Logging
    <3> QED
        BY <2>1, <3>1, NothingCompared
  <2>2. CASE LoginAt(g, "compare", "log failure")
             /\ observed' = [observed EXCEPT !.guesses = @ + 1]
    <3>1. Logging' = Logging \cup {g} /\ g \notin Logging
          BY <2>2 DEF LoginAt, GuessTypes, Logging
    <3>2. Logging' \in SUBSET Logins /\ Logging' \ {g} = Logging /\ g \in Logging'
          BY <3>1, <1>0
    <3>3. Cardinality(Logging') = Cardinality(Logging) + 1
      <4>1. Cardinality(Logging' \ {g}) = Cardinality(Logging') - 1 /\ Cardinality(Logging') \in Nat
            BY <3>2, UnderWayCounts
      <4> QED
          BY <1>0, <3>2, <4>1
    <3>4. /\ ObservedTypes' /\ observed'.age = observed.age
          /\ observed'.guesses = observed.guesses + 1 /\ observed'.unlogged = observed.unlogged
      <4>1. /\ observed \in [age : 0..FailWindow, guesses : Nat, unlogged : 0..MaxUnlogged]
            /\ observed' = [observed EXCEPT !.guesses = @ + 1]
            BY <2>2 DEF ObservedInv, ObservedTypes
      <4>2. observed' \in [age : 0..FailWindow, guesses : Nat, unlogged : 0..MaxUnlogged]
            BY ONLY <4>1
      <4> QED
          BY <4>1, <4>2 DEF ObservedTypes
    <3>5. FailedWithin(observed.age)' = FailedWithin(observed.age)
      <4>1. UNCHANGED failedLogins
            BY <1>2 DEF CompareKey
      <4> QED
          BY <3>4, <4>1, ObservedSum, ObservedSumNext
    <3>6. observed'.guesses <= FailedWithin(observed.age) + Cardinality(Logging') + observed'.unlogged
          BY <1>0, <1>a, <3>3, <3>4
    <3> QED
        BY <3>4, <3>5, <3>6 DEF ObservedInv
  <2> QED
      BY <1>2, <2>1, <2>2 DEF CompareKey
<1>3. ASSUME NEW g \in Logins, LogFailure(g) PROVE ObservedInv'
  <2>1. Logging' = Logging \ {g} /\ g \in Logging
        BY <1>3 DEF LogFailure, LoginAt, GuessTypes, Logging
  <2>2. Cardinality(Logging') = Cardinality(Logging) - 1
        BY <1>0, <2>1, UnderWayCounts
  <2>3. CASE observed.unlogged < MaxUnlogged /\ UNCHANGED failedLogins
             /\ observed' = [observed EXCEPT !.unlogged = @ + 1]
    <3>1. /\ observed'.age = observed.age /\ observed'.guesses = observed.guesses
          /\ observed'.unlogged = observed.unlogged + 1
          BY <2>3 DEF ObservedInv, ObservedTypes
    <3>2. observed.unlogged + 1 \in 0..MaxUnlogged
          BY <1>0, <2>3, AdminAssumption
    <3>3. ObservedTypes'
          BY <2>3, <3>2 DEF ObservedInv, ObservedTypes
    <3>4. FailedWithin(observed.age)' = FailedWithin(observed.age)
          BY <2>3, <3>1, ObservedSum, ObservedSumNext
    <3>5. observed'.guesses <= FailedWithin(observed.age) + Cardinality(Logging') + observed'.unlogged
          BY <1>0, <1>a, <2>2, <3>1
    <3> QED
        BY <3>3, <3>4, <3>5 DEF ObservedInv
  <2>4. CASE LogLoginAttempt /\ UNCHANGED observed
    <3>1. /\ 0 \in 0..observed.age /\ 0..observed.age \subseteq 0..LockTime
          /\ failedLogins' = [failedLogins EXCEPT ![0] = @ + 1]
          BY <1>0, <2>4, Windows DEF LogLoginAttempt, ObservedInv, ObservedTypes
    <3>2. Addends(failedLogins, 0..observed.age)
      <4>1. \A x \in 0..observed.age : failedLogins[x] \in Nat
            BY ObservedSums DEF ObservedInv
      <4>2. IsFiniteSet(0..observed.age)
        <5>1. 0 \in Int /\ observed.age \in Int
              BY <1>0
        <5> QED
            BY <5>1, FS_Interval, Zenon
      <4> QED
          BY <4>1, <4>2 DEF Addends
    <3>3. failedLogins'[0] = failedLogins[0] + 1
          /\ \A x \in (0..observed.age) \ {0} : failedLogins'[x] = failedLogins[x]
          BY <3>1 DEF GuessTypes
    <3>4. SumOn(failedLogins', 0..observed.age) = SumOn(failedLogins, 0..observed.age) + 1
          BY <3>1, <3>2, <3>3, SumOnOneMore
    <3>5. FailedWithin(observed.age)' = FailedWithin(observed.age) + 1
          BY <2>4, <3>4, ObservedSum, ObservedSumNext
    <3>6. observed.guesses <= FailedWithin(observed.age)' + Cardinality(Logging') + observed.unlogged
          BY <1>0, <1>a, <2>2, <3>5
    <3>7. ObservedTypes' /\ observed' = observed
          BY <2>4 DEF ObservedInv, ObservedTypes
    <3> QED
        BY <3>6, <3>7 DEF ObservedInv
  <2> QED
      BY <1>3, <2>3, <2>4 DEF LogFailure
<1>4. ASSUME NEW g \in Logins, NEW s \in Sessions, CreateSession(g, s) PROVE ObservedInv'
  <2>1. UNCHANGED <<failedLogins, observed>> /\ Logging' = Logging
        BY <1>4 DEF CreateSession, LoginAt, GuessTypes, Logging
  <2> QED
      BY <2>1, NothingCompared
<1>5. CASE AdminTick
  <2>1. /\ failedLogins' = [a \in 0..LockTime |-> IF a = 0 THEN 0 ELSE failedLogins[a - 1]]
        /\ Logging' = Logging
        BY <1>5 DEF AdminTick, Logging
  <2>2. CASE observed' = Unobserved
    <3>1. observed'.age = 0 /\ observed'.guesses = 0 /\ observed'.unlogged = 0
          BY <2>2 DEF Unobserved
    <3>2. ObservedTypes'
          BY <2>2, Windows, AdminAssumption DEF Unobserved, ObservedTypes
    <3>3. failedLogins'[0] = 0
          BY <2>1, Windows
    <3>4. SumOn(failedLogins', 0..0) = 0
          BY <3>3, SumUpToZero
    <3>5. FailedWithin(observed.age)' = 0
          BY <3>1, <3>4, ObservedSumNext
    <3> QED
        BY <1>0, <2>1, <3>1, <3>2, <3>5 DEF ObservedInv
  <2>3. CASE observed.age < FailWindow /\ observed' = [observed EXCEPT !.age = @ + 1]
    <3>1. /\ observed'.age = observed.age + 1 /\ observed'.guesses = observed.guesses
          /\ observed'.unlogged = observed.unlogged
          BY <2>3 DEF ObservedInv, ObservedTypes
    <3>2. observed.age + 1 \in 0..FailWindow
          BY <1>0, <2>3, Windows
    <3>3. ObservedTypes'
          BY <2>3, <3>2 DEF ObservedInv, ObservedTypes
    <3>4. 0 \in 0..LockTime /\ 0..(observed.age + 1) \subseteq 0..LockTime
          BY <1>0, <3>2, Windows
    <3>5. /\ failedLogins'[0] = 0
          /\ \A x \in 1..(observed.age + 1) : failedLogins'[x] = failedLogins[x - 1]
      <4>1. \A x \in 1..(observed.age + 1) : x \in 0..(observed.age + 1) /\ x # 0
            BY <1>0
      <4> QED
          BY <2>1, <3>4, <4>1
    <3>6. \A x \in 0..observed.age : failedLogins[x] \in Nat
          BY ObservedSums DEF ObservedInv
    <3>7. SumOn(failedLogins', 0..(observed.age + 1)) = SumOn(failedLogins, 0..observed.age)
          BY <1>0, <3>5, <3>6, SumUpToShifts
    <3>8. FailedWithin(observed.age)' = FailedWithin(observed.age)
          BY <3>1, <3>7, ObservedSum, ObservedSumNext
    <3> QED
        BY <1>a, <2>1, <3>1, <3>3, <3>8 DEF ObservedInv
  <2> QED
      BY <1>5, <2>2, <2>3 DEF AdminTick
<1>6. ASSUME SessionMissing \/ Logout \/ UpdateCheck \/ Registration \/ UNCHANGED adminVars
             \/ \E v \in Versions : ReleaseCreate(v) \/ ReleaseDelete(v)
      PROVE  ObservedInv'
  <2>1. UNCHANGED <<loginStep, failedLogins, observed>>
        BY <1>6 DEF SessionMissing, Logout, UpdateCheck, Registration, adminVars, ReleaseCreate,
                     ReleaseDelete
  <2> QED
      BY <2>1, NothingCompared DEF Logging
<1> QED
    BY <1>1, <1>2, <1>3, <1>4, <1>5, <1>6 DEF AdminNext

\* However many logins run at once, whichever queries fail and whatever time passes between
\* the count of an attempt, the comparison and its log: in any window an address has no more
\* wrong keys compared than the limit, one for each other login at the same time, and those
\* whose failure could not be logged, of which the code bounds no number
\* (AdminBruteForceMiddleware and HandleAdminLogin of handlers/admin_auth.go).
THEOREM GuessesStayBounded == AdminSpec => []GuessesBounded
<1>1. GuessInv /\ ObservedInv => GuessesBounded
  <2> SUFFICES ASSUME GuessInv, ObservedInv PROVE GuessesBounded
      OBVIOUS
  <2>1. /\ Logging \in SUBSET UnderWay /\ UnderWay \in SUBSET Logins
        BY DEF Logging, UnderWay
  <2>2. /\ Cardinality(Logging) \in Nat /\ Cardinality(UnderWay) \in Nat
        /\ Cardinality(Logging) <= Cardinality(UnderWay) /\ Cardinality(Logins) \in Nat
        BY <2>1, UnderWayCounts
  <2>3. /\ FailedWithin(observed.age) \in Nat /\ FailedWithin(FailWindow) \in Nat
        /\ FailedWithin(observed.age) <= FailedWithin(FailWindow)
        BY ObservedSums, FailureSums DEF GuessInv, ObservedInv
  <2>4. /\ observed.guesses \in Nat /\ observed.unlogged \in Nat /\ MaxFailed \in Int
        BY <2>2, AdminAssumption DEF ObservedInv, ObservedTypes, MaxFailed
  <2>5. FailedWithin(FailWindow) + Cardinality(UnderWay) <= MaxFailed
        BY DEF GuessInv
  <2>6. observed.guesses <= FailedWithin(observed.age) + Cardinality(Logging) + observed.unlogged
        BY DEF ObservedInv
  <2> QED
      BY <2>2, <2>3, <2>4, <2>5, <2>6 DEF GuessesBounded
<1>2. GuessInv => GuessTypes
      BY DEF GuessInv
<1> QED
    BY <1>1, <1>2, GuessInit, GuessStep, ObservedInit, ObservedStep, PTL DEF AdminSpec

\* What else the master keeps: each part by itself.  A version is released only once, so a
\* list that loses one release still names each version once.
StepsInv ==
  /\ loginStep \in [Logins -> {"idle", "count", "lock", "compare", "log failure", "session"}]
  /\ sinceBlock \in 0..LockTime + 1
FailuresInv == failedLogins \in [0..LockTime -> Nat]
SessionsInv ==
  /\ sessions \in [Sessions -> {NotIssued} \cup 0..SessionTTL]
  /\ adminCookie \in Sessions \cup {NoSession}
ReleasesInv ==
  /\ releases \in Seq(Versions) /\ IsInjective(releases)
  /\ nodeVersion \in Versions \cup {Bundled}
RegInv == regEntry \in [count : 0..RegLimit, age : 0..RegWindow + 1]

LEMMA AdminLimits ==
  /\ LockTime \in Nat /\ SessionTTL \in Nat \ {0}
  /\ RegLimit \in Nat \ {0} /\ RegWindow \in Nat \ {0}
BY AdminAssumption

\* Removing one element.
LEMMA RemovedOnce ==
  ASSUME NEW s \in Seq(Versions), IsInjective(s), NEW i \in DOMAIN s
  PROVE  RemoveAt(s, i) \in Seq(Versions) /\ IsInjective(RemoveAt(s, i))
<1> DEFINE front == SubSeq(s, 1, i - 1)
           back == SubSeq(s, i + 1, Len(s))
<1>1. i \in 1..Len(s) /\ Len(s) \in Nat /\ \A j \in 1..Len(s) : s[j] \in Versions
      OBVIOUS
<1>2. /\ front \in Seq(Versions) /\ Len(front) = i - 1
      /\ \A j \in 1 .. i - 1 : front[j] = s[j]
  <2>1. \A j \in 1 .. i - 1 : s[j] \in Versions
        BY <1>1
  <2>2. 1 \in Int /\ i - 1 \in Int
        BY <1>1
  <2>3. /\ front \in Seq(Versions) /\ Len(front) = IF 1 <= i - 1 THEN (i - 1) - 1 + 1 ELSE 0
        /\ \A j \in 1 .. (i - 1) - 1 + 1 : front[j] = s[1 + j - 1]
        BY <2>1, <2>2, SubSeqProperties
  <2> HIDE DEF front
  <2>4. ASSUME NEW j \in 1 .. i - 1 PROVE front[j] = s[j]
    <3>1. j \in 1 .. (i - 1) - 1 + 1 /\ 1 + j - 1 = j
          BY <1>1
    <3> QED
        BY <2>3, <3>1
  <2> QED
      BY <1>1, <2>3, <2>4
<1>3. /\ back \in Seq(Versions) /\ Len(back) = Len(s) - i
      /\ \A j \in 1 .. Len(s) - i : back[j] = s[i + j]
  <2>1. \A j \in i + 1 .. Len(s) : s[j] \in Versions
        BY <1>1
  <2>2. i + 1 \in Int /\ Len(s) \in Int
        BY <1>1
  <2>3. /\ back \in Seq(Versions) /\ Len(back) = IF i + 1 <= Len(s) THEN Len(s) - (i + 1) + 1 ELSE 0
        /\ \A j \in 1 .. Len(s) - (i + 1) + 1 : back[j] = s[(i + 1) + j - 1]
        BY <2>1, <2>2, SubSeqProperties
  <2> HIDE DEF back
  <2>4. ASSUME NEW j \in 1 .. Len(s) - i PROVE back[j] = s[i + j]
    <3>1. j \in 1 .. Len(s) - (i + 1) + 1 /\ (i + 1) + j - 1 = i + j
          BY <1>1
    <3> QED
        BY <2>3, <3>1
  <2> QED
      BY <1>1, <2>3, <2>4
<1>4. RemoveAt(s, i) = front \o back
      BY Zenon DEF RemoveAt
<1> HIDE DEF front, back
<1> DEFINE rest == front \o back
           Old(j) == IF j < i THEN j ELSE j + 1
<1>5. rest \in Seq(Versions) /\ Len(rest) = Len(front) + Len(back) /\ DOMAIN rest = 1..Len(rest)
      BY <1>2, <1>3, ConcatProperties
<1>6. ASSUME NEW j \in DOMAIN rest PROVE rest[j] = s[Old(j)] /\ Old(j) \in 1..Len(s)
  <2>1. Len(rest) = Len(s) - 1 /\ j \in 1..Len(rest)
        BY <1>1, <1>2, <1>3, <1>5
  <2>2. rest[j] = IF j <= Len(front) THEN front[j] ELSE back[j - Len(front)]
        BY ONLY <1>2, <1>3, <1>5, <2>1, SMTT(30)
  <2> HIDE DEF rest
  <2>3. CASE j < i
    <3>1. j <= Len(front) /\ j \in 1 .. i - 1 /\ Old(j) = j
          BY <1>1, <1>2, <2>1, <2>3
    <3> QED
        BY <1>1, <1>2, <2>2, <3>1
  <2>4. CASE j >= i
    <3>1. ~(j <= Len(front)) /\ j - Len(front) \in 1 .. Len(s) - i /\ i + (j - Len(front)) = j + 1
          /\ Old(j) = j + 1 /\ j + 1 \in 1..Len(s)
          BY <1>1, <1>2, <2>1, <2>4
    <3> QED
        BY <1>3, <2>2, <3>1
  <2> QED
      BY <1>1, <2>1, <2>3, <2>4
<1> HIDE DEF rest
<1>7. \A j, k \in DOMAIN rest : Old(j) = Old(k) => j = k
      BY <1>1, <1>5
<1> HIDE DEF Old
<1>8. \A j, k \in DOMAIN rest : rest[j] = rest[k] => j = k
  <2> SUFFICES ASSUME NEW j \in DOMAIN rest, NEW k \in DOMAIN rest, rest[j] = rest[k] PROVE j = k
      OBVIOUS
  <2>1. s[Old(j)] = s[Old(k)] /\ Old(j) \in DOMAIN s /\ Old(k) \in DOMAIN s
        BY <1>1, <1>6
  <2>2. Old(j) = Old(k)
        BY <2>1 DEF IsInjective
  <2> QED
      BY <1>7, <2>2
<1> QED
    BY <1>4, <1>5, <1>8 DEF IsInjective, rest

LEMMA AddedOnce ==
  ASSUME NEW s \in Seq(Versions), IsInjective(s), NEW v \in Versions, ~Contains(s, v)
  PROVE  Append(s, v) \in Seq(Versions) /\ IsInjective(Append(s, v))
<1> DEFINE more == Append(s, v)
<1>1. /\ more \in Seq(Versions) /\ Len(more) = Len(s) + 1 /\ Len(s) \in Nat
      /\ DOMAIN more = 1 .. Len(s) + 1 /\ DOMAIN s = 1..Len(s)
      /\ more[Len(s) + 1] = v /\ \A i \in 1..Len(s) : more[i] = s[i]
      OBVIOUS
<1> HIDE DEF more
<1>2. \A i \in 1..Len(s) : s[i] # v
      BY DEF Contains
<1>3. \A i, j \in 1..Len(s) : s[i] = s[j] => i = j
      BY <1>1 DEF IsInjective
<1>4. \A i, j \in 1 .. Len(s) + 1 : more[i] = more[j] => i = j
      BY <1>1, <1>2, <1>3
<1> QED
    BY <1>1, <1>4 DEF IsInjective, more

LEMMA StepsStep ==
  ASSUME StepsInv, [AdminNext]_adminVars PROVE StepsInv'
<1> USE AdminLimits DEF StepsInv, LoginAt
<1>1. ASSUME NEW g \in Logins, LoginArrives(g) \/ CompareKey(g) PROVE StepsInv'
      BY <1>1 DEF LoginArrives, CompareKey
<1>2. ASSUME NEW g \in Logins, CountRecent(g) PROVE StepsInv'
      BY <1>2 DEF CountRecent
<1>3. ASSUME NEW g \in Logins, CountLock(g) PROVE StepsInv'
      BY <1>3 DEF CountLock
<1>4. ASSUME NEW g \in Logins, LogFailure(g) PROVE StepsInv'
  <2>1. loginStep' \in [Logins -> {"idle", "count", "lock", "compare", "log failure", "session"}]
        BY <1>4 DEF LogFailure
  <2>2. sinceBlock' \in {0, sinceBlock}
        BY <1>4, Zenon DEF LogFailure
  <2>3. 0 \in 0 .. (LockTime + 1)
        BY ONLY AdminLimits
  <2> QED
      BY <2>1, <2>2, <2>3
<1>5. ASSUME NEW g \in Logins, NEW s \in Sessions, CreateSession(g, s) PROVE StepsInv'
      BY <1>5 DEF CreateSession
<1>6. SessionMissing \/ Logout \/ UpdateCheck \/ Registration \/ UNCHANGED adminVars => StepsInv'
      BY DEF SessionMissing, Logout, UpdateCheck, Registration, adminVars
<1>7. ASSUME NEW v \in Versions, ReleaseCreate(v) \/ ReleaseDelete(v) PROVE StepsInv'
      BY <1>7 DEF ReleaseCreate, ReleaseDelete
<1>8. ASSUME AdminTick PROVE StepsInv'
  <2>1. UNCHANGED loginStep /\ sinceBlock' = IF sinceBlock > LockTime THEN sinceBlock ELSE sinceBlock + 1
        BY <1>8 DEF AdminTick
  <2>2. sinceBlock' \in 0 .. (LockTime + 1)
    <3>1. sinceBlock \in 0 .. (LockTime + 1) /\ LockTime \in Nat
          OBVIOUS
    <3> QED
        BY ONLY <2>1, <3>1
  <2> QED
      BY <2>1, <2>2
<1> QED
    BY <1>1, <1>2, <1>3, <1>4, <1>5, <1>6, <1>7, <1>8 DEF AdminNext

LEMMA FailuresStep ==
  ASSUME FailuresInv, [AdminNext]_adminVars PROVE FailuresInv'
<1> USE AdminLimits
<1>0. UNCHANGED failedLogins => FailuresInv'
      BY DEF FailuresInv
<1>1. ASSUME NEW g \in Logins, LoginArrives(g) \/ CompareKey(g) \/ CountRecent(g) \/ CountLock(g)
      PROVE  FailuresInv'
      BY <1>0, <1>1 DEF LoginArrives, CompareKey, CountRecent, CountLock
<1>2. ASSUME NEW g \in Logins, LogFailure(g) PROVE FailuresInv'
  <2>1. failedLogins' = [failedLogins EXCEPT ![0] = @ + 1] \/ UNCHANGED failedLogins
        BY <1>2 DEF LogFailure, LogLoginAttempt
  <2>2. 0 \in 0..LockTime
        OBVIOUS
  <2> QED
      BY <2>1, <2>2 DEF FailuresInv
<1>3. ASSUME NEW g \in Logins, NEW s \in Sessions, CreateSession(g, s) PROVE FailuresInv'
      BY <1>0, <1>3 DEF CreateSession
<1>4. SessionMissing \/ Logout \/ UpdateCheck \/ Registration \/ UNCHANGED adminVars => FailuresInv'
      BY <1>0 DEF SessionMissing, Logout, UpdateCheck, Registration, adminVars
<1>5. ASSUME NEW v \in Versions, ReleaseCreate(v) \/ ReleaseDelete(v) PROVE FailuresInv'
      BY <1>0, <1>5 DEF ReleaseCreate, ReleaseDelete
<1>6. ASSUME AdminTick PROVE FailuresInv'
  <2>1. failedLogins' = [a \in 0..LockTime |-> IF a = 0 THEN 0 ELSE failedLogins[a - 1]]
        BY <1>6 DEF AdminTick
  <2>2. \A a \in 0..LockTime : a # 0 => a - 1 \in 0..LockTime
        OBVIOUS
  <2>3. \A a \in 0..LockTime : (IF a = 0 THEN 0 ELSE failedLogins[a - 1]) \in Nat
        BY <2>2 DEF FailuresInv
  <2> QED
      BY <2>1, <2>3 DEF FailuresInv
<1> QED
    BY <1>1, <1>2, <1>3, <1>4, <1>5, <1>6 DEF AdminNext

LEMMA SessionsStep ==
  ASSUME SessionsInv, [AdminNext]_adminVars PROVE SessionsInv'
<1> USE AdminLimits DEF NotIssued
<1>0. UNCHANGED <<sessions, adminCookie>> => SessionsInv'
      BY DEF SessionsInv
<1>1. ASSUME NEW g \in Logins, LoginArrives(g) \/ CompareKey(g) \/ CountRecent(g) \/ CountLock(g)
      PROVE  SessionsInv'
      BY <1>0, <1>1 DEF LoginArrives, CompareKey, CountRecent, CountLock
<1>2. ASSUME NEW g \in Logins, LogFailure(g) PROVE SessionsInv'
      BY <1>0, <1>2 DEF LogFailure
<1>3. ASSUME NEW g \in Logins, NEW s \in Sessions, CreateSession(g, s) PROVE SessionsInv'
  <2>1. \/ sessions' = [sessions EXCEPT ![s] = SessionTTL] /\ adminCookie' = s
        \/ UNCHANGED <<sessions, adminCookie>>
        BY <1>3 DEF CreateSession, InsertSession
  <2>2. SessionTTL \in {NotIssued} \cup 0..SessionTTL
        OBVIOUS
  <2> QED
      BY <1>0, <2>1, <2>2 DEF SessionsInv
<1>4. ASSUME SessionMissing PROVE SessionsInv'
      BY <1>4 DEF SessionMissing, SessionsInv
<1>5. ASSUME Logout PROVE SessionsInv'
  <2>1. /\ sessions' = [sessions EXCEPT ![adminCookie] = 0] \/ UNCHANGED sessions
        /\ adminCookie' = NoSession
        BY <1>5 DEF Logout, DeleteSession
  <2>2. 0 \in {NotIssued} \cup 0..SessionTTL
        OBVIOUS
  <2> QED
      BY <2>1, <2>2 DEF SessionsInv
<1>6. ASSUME AdminTick PROVE SessionsInv'
  <2>1. /\ sessions' = [s \in Sessions |-> IF sessions[s] > 0 THEN sessions[s] - 1 ELSE sessions[s]]
        /\ UNCHANGED adminCookie
        BY <1>6 DEF AdminTick
  <2>2. \A n \in {NotIssued} \cup 0..SessionTTL :
          (IF n > 0 THEN n - 1 ELSE n) \in {NotIssued} \cup 0..SessionTTL
        OBVIOUS
  <2>3. \A s \in Sessions : sessions[s] \in {NotIssued} \cup 0..SessionTTL
        BY DEF SessionsInv
  <2> QED
      BY <2>1, <2>2, <2>3 DEF SessionsInv
<1>7. UpdateCheck \/ Registration \/ UNCHANGED adminVars => SessionsInv'
      BY <1>0 DEF UpdateCheck, Registration, adminVars
<1>8. ASSUME NEW v \in Versions, ReleaseCreate(v) \/ ReleaseDelete(v) PROVE SessionsInv'
      BY <1>0, <1>8 DEF ReleaseCreate, ReleaseDelete
<1> QED
    BY <1>1, <1>2, <1>3, <1>4, <1>5, <1>6, <1>7, <1>8 DEF AdminNext

LEMMA ReleasesStep ==
  ASSUME ReleasesInv, [AdminNext]_adminVars PROVE ReleasesInv'
<1>0. UNCHANGED <<releases, nodeVersion>> => ReleasesInv'
      BY DEF ReleasesInv
<1>1. ASSUME NEW g \in Logins, LoginArrives(g) \/ CompareKey(g) \/ CountRecent(g) \/ CountLock(g)
      PROVE  ReleasesInv'
      BY <1>0, <1>1 DEF LoginArrives, CompareKey, CountRecent, CountLock, Unread
<1>2. ASSUME NEW g \in Logins, LogFailure(g) PROVE ReleasesInv'
      BY <1>0, <1>2 DEF LogFailure, Unread
<1>3. ASSUME NEW g \in Logins, NEW s \in Sessions, CreateSession(g, s) PROVE ReleasesInv'
      BY <1>0, <1>3 DEF CreateSession, Unread
<1>4. SessionMissing \/ Logout \/ Registration \/ AdminTick \/ UNCHANGED adminVars => ReleasesInv'
      BY <1>0 DEF SessionMissing, Logout, Registration, AdminTick, Unread, adminVars
<1>5. ASSUME NEW v \in Versions, ReleaseCreate(v) PROVE ReleasesInv'
  <2>1. ~Contains(releases, v) /\ releases' = Append(releases, v) /\ UNCHANGED nodeVersion
        BY <1>5 DEF ReleaseCreate
  <2> QED
      BY <2>1, AddedOnce DEF ReleasesInv
<1>6. ASSUME NEW v \in Versions, ReleaseDelete(v) PROVE ReleasesInv'
  <2>1. PICK i \in DOMAIN releases : releases' = RemoveAt(releases, i)
        BY <1>6 DEF ReleaseDelete
  <2>2. UNCHANGED nodeVersion
        BY <1>6 DEF ReleaseDelete
  <2> QED
      BY <2>1, <2>2, RemovedOnce DEF ReleasesInv
<1>7. ASSUME UpdateCheck PROVE ReleasesInv'
  <2>1. releases # <<>> /\ nodeVersion' = releases[Len(releases)] /\ UNCHANGED releases
        BY <1>7 DEF UpdateCheck, Last
  <2>2. releases[Len(releases)] \in Versions
        BY <2>1 DEF ReleasesInv
  <2> QED
      BY <2>1, <2>2 DEF ReleasesInv
<1> QED
    BY <1>1, <1>2, <1>3, <1>4, <1>5, <1>6, <1>7 DEF AdminNext

LEMMA RegistrationsStep ==
  ASSUME RegInv, [AdminNext]_adminVars PROVE RegInv'
<1> USE AdminLimits
<1>0. UNCHANGED regEntry => RegInv'
      BY DEF RegInv
<1>1. ASSUME NEW g \in Logins, LoginArrives(g) \/ CompareKey(g) \/ CountRecent(g) \/ CountLock(g)
      PROVE  RegInv'
      BY <1>0, <1>1 DEF LoginArrives, CompareKey, CountRecent, CountLock, Unread
<1>2. ASSUME NEW g \in Logins, LogFailure(g) PROVE RegInv'
      BY <1>0, <1>2 DEF LogFailure, Unread
<1>3. ASSUME NEW g \in Logins, NEW s \in Sessions, CreateSession(g, s) PROVE RegInv'
      BY <1>0, <1>3 DEF CreateSession, Unread
<1>4. SessionMissing \/ Logout \/ UpdateCheck \/ UNCHANGED adminVars => RegInv'
      BY <1>0 DEF SessionMissing, Logout, UpdateCheck, Unread, adminVars
<1>5. ASSUME NEW v \in Versions, ReleaseCreate(v) \/ ReleaseDelete(v) PROVE RegInv'
      BY <1>0, <1>5 DEF ReleaseCreate, ReleaseDelete
<1>6. ASSUME Registration PROVE RegInv'
  <2>1. CASE regEntry' = [count |-> 1, age |-> 0]
        BY <2>1 DEF RegInv
  <2>2. CASE regEntry.count < RegLimit /\ regEntry' = [regEntry EXCEPT !.count = @ + 1]
        BY <2>2 DEF RegInv
  <2> QED
      BY <1>6, <2>1, <2>2 DEF Registration
<1>7. ASSUME AdminTick PROVE RegInv'
  <2>1. regEntry' = [regEntry EXCEPT !.age = IF @ > RegWindow THEN @ ELSE @ + 1]
        BY <1>7 DEF AdminTick
  <2> QED
      BY <2>1 DEF RegInv
<1> QED
    BY <1>1, <1>2, <1>3, <1>4, <1>5, <1>6, <1>7 DEF AdminNext

LEMMA AdminTypeInit ==
  AdminInit => StepsInv /\ FailuresInv /\ SessionsInv /\ ReleasesInv /\ RegInv
<1> SUFFICES ASSUME AdminInit
             PROVE  StepsInv /\ FailuresInv /\ SessionsInv /\ ReleasesInv /\ RegInv
    OBVIOUS
<1> USE AdminLimits DEF AdminInit
<1>1. StepsInv /\ FailuresInv
      BY DEF StepsInv, FailuresInv
<1>2. SessionsInv
      BY DEF SessionsInv
<1>3. ReleasesInv
      BY DEF ReleasesInv, IsInjective
<1>4. RegInv
      BY DEF RegInv
<1> QED
    BY <1>1, <1>2, <1>3, <1>4

\* For any number of logins, sessions and versions: whatever queries fail and however the
\* steps of the requests mix, a version is offered once, a session ends in time, and an address
\* is never credited with more registrations than the limit (handlers/admin_auth.go,
\* db/admin_ctx.go, db/release.go and handlers/register.go).
THEOREM AdminTypes == AdminSpec => []AdminTypeOK
<1>1. ASSUME StepsInv, FailuresInv, SessionsInv, ReleasesInv, RegInv, ObservedInv PROVE AdminTypeOK
  <2>1. ToSet(releases) \subseteq Versions
        BY <1>1 DEF ReleasesInv, ToSet
  <2> QED
      BY <1>1, <2>1, Zenon DEF StepsInv, FailuresInv, SessionsInv, ReleasesInv, RegInv, ObservedInv,
                            ObservedTypes, AdminTypeOK
<1>2. GuessInv => GuessTypes
      BY DEF GuessInv
<1> QED
    BY <1>1, <1>2, GuessInit, GuessStep, ObservedInit, ObservedStep, AdminTypeInit, StepsStep, FailuresStep, SessionsStep, ReleasesStep, RegistrationsStep, PTL
    DEF AdminSpec

-----------------------------------------------------------------------------
(* The license table *)

\* What any operation makes of a row is a row.
LEMMA OutcomesAreRows ==
  ASSUME today \in Nat, NEW o \in Lic!ReadWriteOps, NEW l \in Lic!Rows, NEW m \in Lic!Outcomes(o, l)
  PROVE  m \in Lic!Rows
<1> USE NodeAssumption DEF Lic!Rows, Lic!Statuses, Lic!ReadWriteOps
<1>1. CASE o = "Activate"
  BY <1>1 DEF Lic!Outcomes
<1>2. CASE o = "Suspend"
  BY <1>2 DEF Lic!Outcomes
<1>3. CASE o = "Upgrade"
  BY <1>3 DEF Lic!Outcomes, Lic!Upgraded
<1>4. CASE o = "Update"
  BY <1>4 DEF Lic!Outcomes, Lic!EditForm
<1>5. CASE o \in {"Downgrade", "CheckExpiry"}
  BY <1>5 DEF Lic!Outcomes, Lic!ToCommunity, Lic!Perpetual
<1> QED
  BY <1>1, <1>2, <1>3, <1>4, <1>5

LEMMA LicenseTypeInit == Lic!LicenseInit => Lic!LicenseTypeOK
  BY NodeAssumption
     DEF Lic!LicenseInit, Lic!LicenseTypeOK, Lic!Rows, Lic!Statuses, Lic!Registered, Lic!Created, Lic!Perpetual

LEMMA LicenseTypeStep == Lic!LicenseTypeOK /\ [Lic!LicenseNext]_Lic!licenseVars => Lic!LicenseTypeOK'
<1> SUFFICES ASSUME Lic!LicenseTypeOK, [Lic!LicenseNext]_Lic!licenseVars
             PROVE  Lic!LicenseTypeOK'
  OBVIOUS
<1> USE NodeAssumption
<1>1. ASSUME NEW r \in Admins, NEW o \in LicenseOps, Lic!Read(r, o)
      PROVE  Lic!LicenseTypeOK'
  BY <1>1 DEF Lic!LicenseTypeOK, Lic!Read, Lic!InProgress
<1>2. ASSUME NEW r \in Admins, Lic!Write(r)
      PROVE  Lic!LicenseTypeOK'
  <2>1. req[r] \in Lic!InProgress
    BY <1>2 DEF Lic!LicenseTypeOK, Lic!Write
  <2>2. row' \in Lic!Rows \cup {NoRow}
    BY <1>2, <2>1, OutcomesAreRows DEF Lic!LicenseTypeOK, Lic!Write, Lic!InProgress
  <2> QED
    BY <1>2, <2>2 DEF Lic!LicenseTypeOK, Lic!Write
<1>3. ASSUME NEW r \in Admins, Lic!WriteFails(r)
      PROVE  Lic!LicenseTypeOK'
  BY <1>3 DEF Lic!LicenseTypeOK, Lic!WriteFails
<1>4. CASE Lic!Statement
  <2>1. CASE Lic!Renew
    <3>1. row \in Lic!Rows /\ today + row.days \in Nat
      BY <2>1 DEF Lic!LicenseTypeOK, Lic!Renew, Lic!Rows
    <3>2. Lic!Renewed(row) \in Lic!Rows
      BY <3>1 DEF Lic!Renewed, Lic!Rows, Lic!Statuses
    <3> QED
      BY <2>1, <3>2 DEF Lic!LicenseTypeOK, Lic!Renew
  <2>2. CASE Lic!Revoke
    BY <2>2 DEF Lic!LicenseTypeOK, Lic!Revoke, Lic!Rows, Lic!Statuses
  <2>3. CASE Lic!Rotate \/ Lic!Delete
    BY <2>3 DEF Lic!LicenseTypeOK, Lic!Rotate, Lic!Delete
  <2> QED
    BY <1>4, <2>1, <2>2, <2>3 DEF Lic!Statement
<1>5. CASE Lic!DayPasses
  BY <1>5 DEF Lic!LicenseTypeOK, Lic!DayPasses
<1>6. CASE UNCHANGED Lic!licenseVars
  BY <1>6 DEF Lic!LicenseTypeOK, Lic!licenseVars
<1> QED
  BY <1>1, <1>2, <1>3, <1>4, <1>5, <1>6 DEF Lic!LicenseNext

LEMMA LicenseTypes == Lic!SalesSpec => []Lic!LicenseTypeOK
<1>1. Lic!SalesInit => Lic!LicenseTypeOK
  BY LicenseTypeInit DEF Lic!SalesInit
<1>2. Lic!LicenseTypeOK /\ [Lic!SalesNext]_Lic!salesVars => Lic!LicenseTypeOK'
  BY LicenseTypeStep DEF Lic!SalesNext, Lic!salesVars, Lic!licenseVars
<1> QED
  BY <1>1, <1>2, PTL DEF Lic!SalesSpec

\* The edit form, which may give any plan any end, is not in use.
NoEdit == \A r \in Admins : req[r] # Nothing => req[r].op # "Update"

\* The plan and the end of the row, and of every copy of it, were sold together.
SoldAs(l, sales) == l.plan # "community" => <<l.plan, l.expires>> \in sales

CopiesSold ==
  /\ row # NoRow => SoldAs(row, sold)
  /\ \A r \in Admins : req[r] # Nothing => SoldAs(req[r].seen, sold)

\* An operation keeps the plan and the end of its copy, sells anew or makes it free.
LEMMA OutcomesAreSold ==
  ASSUME NEW o \in Lic!ReadWriteOps \ {"Update"}, NEW l \in Lic!Rows, NEW m \in Lic!Outcomes(o, l)
  PROVE  \/ m.plan = l.plan /\ m.expires = l.expires
         \/ o = "Upgrade" /\ m.expires = today + 1
         \/ m.plan = "community"
<1> USE DEF Lic!ReadWriteOps, Lic!Rows
<1>1. CASE o = "Activate"
  BY <1>1 DEF Lic!Outcomes
<1>2. CASE o = "Suspend"
  BY <1>2 DEF Lic!Outcomes
<1>3. CASE o = "Upgrade"
  BY <1>3 DEF Lic!Outcomes, Lic!Upgraded
<1>4. CASE o \in {"Downgrade", "CheckExpiry"}
  BY <1>4 DEF Lic!Outcomes, Lic!ToCommunity
<1> QED
  BY <1>1, <1>2, <1>3, <1>4

LEMMA SoldStep ==
  ASSUME "Update" \notin LicenseOps, Lic!LicenseTypeOK, NoEdit, CopiesSold, [Lic!SalesNext]_Lic!salesVars
  PROVE  CopiesSold' /\ NoEdit'
<1> USE NodeAssumption
<1>1. sold \subseteq sold'
  BY DEF Lic!SalesNext, Lic!salesVars
<1>2. ASSUME NEW l, SoldAs(l, sold)
      PROVE  SoldAs(l, sold')
  BY <1>1, <1>2 DEF SoldAs
<1>3. ASSUME NEW r \in Admins, NEW o \in LicenseOps, Lic!Read(r, o)
      PROVE  CopiesSold' /\ NoEdit'
  <2>1. row' = row /\ (row # NoRow => SoldAs(row, sold')) /\ SoldAs(req'[r].seen, sold')
    BY <1>1, <1>3 DEF CopiesSold, SoldAs, Lic!Read, Lic!LicenseTypeOK
  <2>2. ASSUME NEW q \in Admins, req'[q] # Nothing
        PROVE  SoldAs(req'[q].seen, sold') /\ req'[q].op # "Update"
    BY <1>1, <1>3, <2>2 DEF CopiesSold, SoldAs, NoEdit, Lic!Read, Lic!LicenseTypeOK
  <2> QED
    BY <2>1, <2>2 DEF CopiesSold, NoEdit, SoldAs
<1>4. ASSUME NEW r \in Admins, Lic!Write(r), Lic!SalesNext
      PROVE  CopiesSold' /\ NoEdit'
  <2>1. /\ req[r].op \in Lic!ReadWriteOps \ {"Update"} /\ req[r].seen \in Lic!Rows
        /\ SoldAs(req[r].seen, sold)
    BY <1>4 DEF Lic!LicenseTypeOK, CopiesSold, NoEdit, Lic!Write, Lic!InProgress
  <2>2. CASE row = NoRow
    BY <1>1, <1>4, <2>2 DEF CopiesSold, SoldAs, NoEdit, Lic!Write, Lic!LicenseTypeOK
  <2>3. CASE row # NoRow
    <3>1. row' \in Lic!Outcomes(req[r].op, req[r].seen)
      BY <1>4, <2>3 DEF Lic!Write
    <3>2. \/ row'.plan = req[r].seen.plan /\ row'.expires = req[r].seen.expires
          \/ req[r].op = "Upgrade" /\ row'.expires = today + 1
          \/ row'.plan = "community"
      BY <2>1, <3>1, OutcomesAreSold
    <3>3. req[r].op = "Upgrade" => <<row'.plan, today + 1>> \in sold'
      BY <1>4, <2>3 DEF Lic!SalesNext, Lic!Upgrading, Lic!Write
    <3>4. SoldAs(row', sold')
      BY <1>1, <2>1, <3>2, <3>3 DEF SoldAs
    <3>5. ASSUME NEW q \in Admins, req'[q] # Nothing
          PROVE  SoldAs(req'[q].seen, sold') /\ req'[q].op # "Update"
      BY <1>1, <1>4, <3>5 DEF CopiesSold, SoldAs, NoEdit, Lic!Write, Lic!LicenseTypeOK
    <3> QED
      BY <3>4, <3>5 DEF CopiesSold, NoEdit, SoldAs
  <2> QED
    BY <2>2, <2>3
<1>5. ASSUME NEW r \in Admins, Lic!WriteFails(r)
      PROVE  CopiesSold' /\ NoEdit'
  BY <1>1, <1>5 DEF CopiesSold, SoldAs, NoEdit, Lic!WriteFails, Lic!LicenseTypeOK
<1>6. CASE Lic!Renew /\ Lic!SalesNext
  <2>1. row \in Lic!Rows /\ row' = Lic!Renewed(row) /\ row # NoRow
    BY <1>6 DEF Lic!Renew, Lic!LicenseTypeOK
  <2>2. row'.plan = row.plan /\ row'.expires = today + row.days
    BY <2>1 DEF Lic!Renewed, Lic!Rows
  <2>3. row.plan # "community" => <<row.plan, today + row.days>> \in sold'
    BY <1>6, <2>1 DEF Lic!SalesNext, Lic!Renewing
  <2>4. SoldAs(row', sold')
    BY <2>2, <2>3 DEF SoldAs
  <2>5. req' = req
    BY <1>6 DEF Lic!Renew
  <2> QED
    BY <1>1, <2>4, <2>5 DEF CopiesSold, SoldAs, NoEdit
<1>7. CASE Lic!Revoke
  <2>1. row \in Lic!Rows /\ row'.plan = row.plan /\ row'.expires = row.expires /\ req' = req
    BY <1>7 DEF Lic!Revoke, Lic!LicenseTypeOK, Lic!Rows
  <2> QED
    BY <1>1, <1>7, <2>1 DEF CopiesSold, SoldAs, NoEdit, Lic!Revoke
<1>8. CASE Lic!Rotate \/ Lic!Delete \/ Lic!DayPasses \/ UNCHANGED Lic!licenseVars
  BY <1>1, <1>8 DEF CopiesSold, SoldAs, NoEdit, Lic!Rotate, Lic!Delete, Lic!DayPasses, Lic!licenseVars
<1>9. CASE Lic!SalesNext
  BY <1>3, <1>4, <1>5, <1>6, <1>7, <1>8, <1>9 DEF Lic!SalesNext, Lic!LicenseNext, Lic!Statement
<1>10. CASE UNCHANGED Lic!salesVars
  BY <1>8, <1>10 DEF Lic!salesVars, Lic!licenseVars
<1> QED
  BY <1>9, <1>10

\* Without the edit form, no interleaving of the operations of the license table, and no copy
\* that UpdateLicense writes back late, gives a license a paid plan with an end other than one
\* with which that plan was sold.
THEOREM PaidPlansAreSold ==
  ASSUME "Update" \notin LicenseOps
  PROVE  Lic!SalesSpec => []PaidAsSold
<1> DEFINE SoldInv == Lic!LicenseTypeOK /\ NoEdit /\ CopiesSold
<1>1. Lic!SalesInit => SoldInv
  BY LicenseTypeInit DEF Lic!SalesInit, Lic!LicenseInit, NoEdit, CopiesSold, SoldAs
<1>2. SoldInv /\ [Lic!SalesNext]_Lic!salesVars => SoldInv'
  BY LicenseTypeStep, SoldStep DEF Lic!SalesNext, Lic!salesVars, Lic!licenseVars
<1>3. SoldInv => PaidAsSold
  BY DEF CopiesSold, SoldAs, PaidAsSold, Lic!PaidAsSold
<1> HIDE DEF SoldInv
<1> QED
  BY <1>1, <1>2, <1>3, PTL DEF Lic!SalesSpec

-----------------------------------------------------------------------------
(* The parts in one system *)

InFocus(part) == focus = part

\* A step of the whole is one of the part in focus, and the focus stays.
LEMMA FocusStays ==
  [NodeNext]_allVars =>
    /\ InFocus("pool")' <=> InFocus("pool")
    /\ InFocus("update")' <=> InFocus("update")
    /\ InFocus("offline")' <=> InFocus("offline")
    /\ InFocus("monitor")' <=> InFocus("monitor")
    /\ InFocus("kernel")' <=> InFocus("kernel")
    /\ InFocus("geoip")' <=> InFocus("geoip")
    /\ InFocus("traffic")' <=> InFocus("traffic")
    /\ InFocus("snapshots")' <=> InFocus("snapshots")
    /\ InFocus("admin")' <=> InFocus("admin")
    /\ InFocus("installer")' <=> InFocus("installer")
    /\ InFocus("loop")' <=> InFocus("loop")
    /\ InFocus("config")' <=> InFocus("config")
    /\ InFocus("runtime")' <=> InFocus("runtime")
    /\ InFocus("signed")' <=> InFocus("signed")
    /\ InFocus("filter")' <=> InFocus("filter")
    /\ InFocus("license")' <=> InFocus("license")
BY Zenon DEF NodeNext, OnlyFocusMoves, allVars, InFocus

LEMMA NodeStep ==
  [NodeNext]_allVars =>
    /\ InFocus("pool") => [Next]_vars
    /\ InFocus("update") => [UpdateNext]_updateVars
    /\ InFocus("offline") => [OfflineNext]_offlineVars
    /\ InFocus("monitor") => [MonitorNext]_monitorVars
    /\ InFocus("kernel") => [KernelNext]_kernelVars
    /\ InFocus("geoip") => [GeoNext]_geoVars
    /\ InFocus("traffic") => [TrafficNext]_trafficVars
    /\ InFocus("snapshots") => [SnapshotNext]_snapshotVars
    /\ InFocus("admin") => [AdminNext]_adminVars
    /\ InFocus("installer") => [InstallerNext]_installVars
    /\ InFocus("loop") => [UpdateLoopNext]_updateLoopVars
    /\ InFocus("config") => [NodeConfigNext]_nodeConfigVars
    /\ InFocus("runtime") => [RuntimeConfigNext]_runtimeConfigVars
    /\ InFocus("signed") => [SignedUpdateNext]_signedVars
    /\ InFocus("filter") => [XDPNext]_filterAllVars
    /\ InFocus("license") => [Lic!SalesNext]_licenseVars
BY Zenon DEF NodeNext, allVars, InFocus

LEMMA FocusIs ==
  /\ InFocus("pool") <=> focus = "pool"
  /\ InFocus("update") <=> focus = "update"
  /\ InFocus("offline") <=> focus = "offline"
  /\ InFocus("monitor") <=> focus = "monitor"
  /\ InFocus("kernel") <=> focus = "kernel"
  /\ InFocus("geoip") <=> focus = "geoip"
  /\ InFocus("traffic") <=> focus = "traffic"
  /\ InFocus("snapshots") <=> focus = "snapshots"
  /\ InFocus("admin") <=> focus = "admin"
  /\ InFocus("installer") <=> focus = "installer"
  /\ InFocus("loop") <=> focus = "loop"
  /\ InFocus("config") <=> focus = "config"
  /\ InFocus("runtime") <=> focus = "runtime"
  /\ InFocus("signed") <=> focus = "signed"
  /\ InFocus("filter") <=> focus = "filter"
  /\ InFocus("license") <=> focus = "license"
BY DEF InFocus

LEMMA NodeStarts ==
  NodeInit =>
    /\ Init
    /\ UpdateInit
    /\ OfflineInit
    /\ MonitorInit
    /\ KernelInit
    /\ GeoInit
    /\ TrafficInit
    /\ SnapshotInit
    /\ AdminInit
    /\ InstallerInit
    /\ UpdateLoopInit
    /\ NodeConfigInit
    /\ RuntimeConfigInit
    /\ SignedUpdateInit
    /\ XDPInit
    /\ Lic!SalesInit
BY Zenon DEF NodeInit

\* What is run as one system, the part in focus moving and the others at rest, behaves as that
\* part does on its own, and so has what is proved of it.
THEOREM NodeIsEachPart ==
  NodeSpec =>
    /\ focus = "pool" => Spec
    /\ focus = "update" => UpdateSpec
    /\ focus = "offline" => OfflineSpec
    /\ focus = "monitor" => MonitorSpec
    /\ focus = "kernel" => KernelSpec
    /\ focus = "geoip" => GeoSpec
    /\ focus = "traffic" => TrafficSpec
    /\ focus = "snapshots" => SnapshotSpec
    /\ focus = "admin" => AdminSpec
    /\ focus = "installer" => InstallerSpec
    /\ focus = "loop" => UpdateLoopSpec
    /\ focus = "config" => NodeConfigSpec
    /\ focus = "runtime" => RuntimeConfigSpec
    /\ focus = "signed" => SignedUpdateSpec
    /\ focus = "filter" => XDPSpec
    /\ focus = "license" => Lic!SalesSpec
<1>1. NodeSpec => (focus = "pool" => Spec)
  <2>1. [NodeNext]_allVars =>
          (InFocus("pool")' <=> InFocus("pool")) /\ (InFocus("pool") => [Next]_vars)
        BY FocusStays, NodeStep, Zenon
  <2>2. (NodeInit => Init) /\ (InFocus("pool") <=> focus = "pool")
        BY NodeStarts, FocusIs, Zenon
  <2> QED BY <2>1, <2>2, PTL DEF NodeSpec, Spec
<1>2. NodeSpec => (focus = "update" => UpdateSpec)
  <2>1. [NodeNext]_allVars =>
          (InFocus("update")' <=> InFocus("update")) /\ (InFocus("update") => [UpdateNext]_updateVars)
        BY FocusStays, NodeStep, Zenon
  <2>2. (NodeInit => UpdateInit) /\ (InFocus("update") <=> focus = "update")
        BY NodeStarts, FocusIs, Zenon
  <2> QED BY <2>1, <2>2, PTL DEF NodeSpec, UpdateSpec
<1>3. NodeSpec => (focus = "offline" => OfflineSpec)
  <2>1. [NodeNext]_allVars =>
          (InFocus("offline")' <=> InFocus("offline")) /\ (InFocus("offline") => [OfflineNext]_offlineVars)
        BY FocusStays, NodeStep, Zenon
  <2>2. (NodeInit => OfflineInit) /\ (InFocus("offline") <=> focus = "offline")
        BY NodeStarts, FocusIs, Zenon
  <2> QED BY <2>1, <2>2, PTL DEF NodeSpec, OfflineSpec
<1>4. NodeSpec => (focus = "monitor" => MonitorSpec)
  <2>1. [NodeNext]_allVars =>
          (InFocus("monitor")' <=> InFocus("monitor")) /\ (InFocus("monitor") => [MonitorNext]_monitorVars)
        BY FocusStays, NodeStep, Zenon
  <2>2. (NodeInit => MonitorInit) /\ (InFocus("monitor") <=> focus = "monitor")
        BY NodeStarts, FocusIs, Zenon
  <2> QED BY <2>1, <2>2, PTL DEF NodeSpec, MonitorSpec
<1>5. NodeSpec => (focus = "kernel" => KernelSpec)
  <2>1. [NodeNext]_allVars =>
          (InFocus("kernel")' <=> InFocus("kernel")) /\ (InFocus("kernel") => [KernelNext]_kernelVars)
        BY FocusStays, NodeStep, Zenon
  <2>2. (NodeInit => KernelInit) /\ (InFocus("kernel") <=> focus = "kernel")
        BY NodeStarts, FocusIs, Zenon
  <2> QED BY <2>1, <2>2, PTL DEF NodeSpec, KernelSpec
<1>6. NodeSpec => (focus = "geoip" => GeoSpec)
  <2>1. [NodeNext]_allVars =>
          (InFocus("geoip")' <=> InFocus("geoip")) /\ (InFocus("geoip") => [GeoNext]_geoVars)
        BY FocusStays, NodeStep, Zenon
  <2>2. (NodeInit => GeoInit) /\ (InFocus("geoip") <=> focus = "geoip")
        BY NodeStarts, FocusIs, Zenon
  <2> QED BY <2>1, <2>2, PTL DEF NodeSpec, GeoSpec
<1>7. NodeSpec => (focus = "traffic" => TrafficSpec)
  <2>1. [NodeNext]_allVars =>
          (InFocus("traffic")' <=> InFocus("traffic")) /\ (InFocus("traffic") => [TrafficNext]_trafficVars)
        BY FocusStays, NodeStep, Zenon
  <2>2. (NodeInit => TrafficInit) /\ (InFocus("traffic") <=> focus = "traffic")
        BY NodeStarts, FocusIs, Zenon
  <2> QED BY <2>1, <2>2, PTL DEF NodeSpec, TrafficSpec
<1>8. NodeSpec => (focus = "snapshots" => SnapshotSpec)
  <2>1. [NodeNext]_allVars =>
          (InFocus("snapshots")' <=> InFocus("snapshots")) /\ (InFocus("snapshots") => [SnapshotNext]_snapshotVars)
        BY FocusStays, NodeStep, Zenon
  <2>2. (NodeInit => SnapshotInit) /\ (InFocus("snapshots") <=> focus = "snapshots")
        BY NodeStarts, FocusIs, Zenon
  <2> QED BY <2>1, <2>2, PTL DEF NodeSpec, SnapshotSpec
<1>9. NodeSpec => (focus = "admin" => AdminSpec)
  <2>1. [NodeNext]_allVars =>
          (InFocus("admin")' <=> InFocus("admin")) /\ (InFocus("admin") => [AdminNext]_adminVars)
        BY FocusStays, NodeStep, Zenon
  <2>2. (NodeInit => AdminInit) /\ (InFocus("admin") <=> focus = "admin")
        BY NodeStarts, FocusIs, Zenon
  <2> QED BY <2>1, <2>2, PTL DEF NodeSpec, AdminSpec
<1>10. NodeSpec => (focus = "installer" => InstallerSpec)
  <2>1. [NodeNext]_allVars =>
          (InFocus("installer")' <=> InFocus("installer")) /\ (InFocus("installer") => [InstallerNext]_installVars)
        BY FocusStays, NodeStep, Zenon
  <2>2. (NodeInit => InstallerInit) /\ (InFocus("installer") <=> focus = "installer")
        BY NodeStarts, FocusIs, Zenon
  <2> QED BY <2>1, <2>2, PTL DEF NodeSpec, InstallerSpec
<1>11. NodeSpec => (focus = "loop" => UpdateLoopSpec)
  <2>1. [NodeNext]_allVars =>
          (InFocus("loop")' <=> InFocus("loop")) /\ (InFocus("loop") => [UpdateLoopNext]_updateLoopVars)
        BY FocusStays, NodeStep, Zenon
  <2>2. (NodeInit => UpdateLoopInit) /\ (InFocus("loop") <=> focus = "loop")
        BY NodeStarts, FocusIs, Zenon
  <2> QED BY <2>1, <2>2, PTL DEF NodeSpec, UpdateLoopSpec
<1>12. NodeSpec => (focus = "config" => NodeConfigSpec)
  <2>1. [NodeNext]_allVars =>
          (InFocus("config")' <=> InFocus("config")) /\ (InFocus("config") => [NodeConfigNext]_nodeConfigVars)
        BY FocusStays, NodeStep, Zenon
  <2>2. (NodeInit => NodeConfigInit) /\ (InFocus("config") <=> focus = "config")
        BY NodeStarts, FocusIs, Zenon
  <2> QED BY <2>1, <2>2, PTL DEF NodeSpec, NodeConfigSpec
<1>13. NodeSpec => (focus = "runtime" => RuntimeConfigSpec)
  <2>1. [NodeNext]_allVars =>
          (InFocus("runtime")' <=> InFocus("runtime")) /\ (InFocus("runtime") => [RuntimeConfigNext]_runtimeConfigVars)
        BY FocusStays, NodeStep, Zenon
  <2>2. (NodeInit => RuntimeConfigInit) /\ (InFocus("runtime") <=> focus = "runtime")
        BY NodeStarts, FocusIs, Zenon
  <2> QED BY <2>1, <2>2, PTL DEF NodeSpec, RuntimeConfigSpec
<1>14. NodeSpec => (focus = "signed" => SignedUpdateSpec)
  <2>1. [NodeNext]_allVars =>
          (InFocus("signed")' <=> InFocus("signed")) /\ (InFocus("signed") => [SignedUpdateNext]_signedVars)
        BY FocusStays, NodeStep, Zenon
  <2>2. (NodeInit => SignedUpdateInit) /\ (InFocus("signed") <=> focus = "signed")
        BY NodeStarts, FocusIs, Zenon
  <2> QED BY <2>1, <2>2, PTL DEF NodeSpec, SignedUpdateSpec
<1>15. NodeSpec => (focus = "filter" => XDPSpec)
  <2>1. [NodeNext]_allVars =>
          (InFocus("filter")' <=> InFocus("filter")) /\ (InFocus("filter") => [XDPNext]_filterAllVars)
        BY FocusStays, NodeStep, Zenon
  <2>2. (NodeInit => XDPInit) /\ (InFocus("filter") <=> focus = "filter")
        BY NodeStarts, FocusIs, Zenon
  <2> QED BY <2>1, <2>2, PTL DEF NodeSpec, XDPSpec
<1>16. NodeSpec => (focus = "license" => Lic!SalesSpec)
  <2>1. [NodeNext]_allVars =>
          (InFocus("license")' <=> InFocus("license")) /\ (InFocus("license") => [Lic!SalesNext]_licenseVars)
        BY FocusStays, NodeStep, Zenon
  <2>2. (NodeInit => Lic!SalesInit) /\ (InFocus("license") <=> focus = "license")
        BY NodeStarts, FocusIs, Zenon
  <2>3. [Lic!SalesNext]_licenseVars => [Lic!SalesNext]_Lic!salesVars
        BY Zenon DEF licenseVars, Lic!salesVars
  <2> QED BY <2>1, <2>2, <2>3, PTL DEF NodeSpec, Lic!SalesSpec
<1> QED BY <1>1, <1>2, <1>3, <1>4, <1>5, <1>6, <1>7, <1>8, <1>9, <1>10, <1>11, <1>12, <1>13, <1>14, <1>15, <1>16

\* Whichever part moves, for any numbers of callers, releases, CPUs and files and any limits,
\* sizes and times: what legal calls, failures and crashes make of the state of a part stays of
\* its type, queues and counts within their bounds, goroutines where they can be.
THEOREM NodeTypes == NodeSpec => []NodeTypesOK
<1>1. NodeSpec => [](focus = "pool" => TypeOK)
  <2>1. [NodeNext]_allVars => (InFocus("pool")' <=> InFocus("pool"))
        BY FocusStays, Zenon
  <2>2. InFocus("pool") <=> focus = "pool"
        BY FocusIs, Zenon
  <2>3. NodeSpec => (focus = "pool" => Spec)
        BY NodeIsEachPart
  <2> QED BY <2>1, <2>2, <2>3, PoolTypes, PTL DEF NodeSpec
<1>2. NodeSpec => [](focus = "update" => UpdateTypeOK)
  <2>1. [NodeNext]_allVars => (InFocus("update")' <=> InFocus("update"))
        BY FocusStays, Zenon
  <2>2. InFocus("update") <=> focus = "update"
        BY FocusIs, Zenon
  <2>3. NodeSpec => (focus = "update" => UpdateSpec)
        BY NodeIsEachPart
  <2> QED BY <2>1, <2>2, <2>3, UpdateTypes, PTL DEF NodeSpec
<1>3. NodeSpec => [](focus = "offline" => OfflineTypeOK)
  <2>1. [NodeNext]_allVars => (InFocus("offline")' <=> InFocus("offline"))
        BY FocusStays, Zenon
  <2>2. InFocus("offline") <=> focus = "offline"
        BY FocusIs, Zenon
  <2>3. NodeSpec => (focus = "offline" => OfflineSpec)
        BY NodeIsEachPart
  <2> QED BY <2>1, <2>2, <2>3, OfflineTypes, PTL DEF NodeSpec
<1>4. NodeSpec => [](focus = "monitor" => MonitorTypeOK)
  <2>1. [NodeNext]_allVars => (InFocus("monitor")' <=> InFocus("monitor"))
        BY FocusStays, Zenon
  <2>2. InFocus("monitor") <=> focus = "monitor"
        BY FocusIs, Zenon
  <2>3. NodeSpec => (focus = "monitor" => MonitorSpec)
        BY NodeIsEachPart
  <2> QED BY <2>1, <2>2, <2>3, MonitorTypes, PTL DEF NodeSpec
<1>5. NodeSpec => [](focus = "kernel" => KernelTypeOK)
  <2>1. [NodeNext]_allVars => (InFocus("kernel")' <=> InFocus("kernel"))
        BY FocusStays, Zenon
  <2>2. InFocus("kernel") <=> focus = "kernel"
        BY FocusIs, Zenon
  <2>3. NodeSpec => (focus = "kernel" => KernelSpec)
        BY NodeIsEachPart
  <2> QED BY <2>1, <2>2, <2>3, KernelTypes, PTL DEF NodeSpec
<1>6. NodeSpec => [](focus = "geoip" => GeoTypeOK)
  <2>1. [NodeNext]_allVars => (InFocus("geoip")' <=> InFocus("geoip"))
        BY FocusStays, Zenon
  <2>2. InFocus("geoip") <=> focus = "geoip"
        BY FocusIs, Zenon
  <2>3. NodeSpec => (focus = "geoip" => GeoSpec)
        BY NodeIsEachPart
  <2> QED BY <2>1, <2>2, <2>3, GeoTypes, PTL DEF NodeSpec
<1>7. NodeSpec => [](focus = "traffic" => TrafficTypeOK)
  <2>1. [NodeNext]_allVars => (InFocus("traffic")' <=> InFocus("traffic"))
        BY FocusStays, Zenon
  <2>2. InFocus("traffic") <=> focus = "traffic"
        BY FocusIs, Zenon
  <2>3. NodeSpec => (focus = "traffic" => TrafficSpec)
        BY NodeIsEachPart
  <2> QED BY <2>1, <2>2, <2>3, TrafficTypes, PTL DEF NodeSpec
<1>8. NodeSpec => [](focus = "snapshots" => SnapshotTypeOK)
  <2>1. [NodeNext]_allVars => (InFocus("snapshots")' <=> InFocus("snapshots"))
        BY FocusStays, Zenon
  <2>2. InFocus("snapshots") <=> focus = "snapshots"
        BY FocusIs, Zenon
  <2>3. NodeSpec => (focus = "snapshots" => SnapshotSpec)
        BY NodeIsEachPart
  <2> QED BY <2>1, <2>2, <2>3, SnapshotTypes, PTL DEF NodeSpec
<1>9. NodeSpec => [](focus = "admin" => AdminTypeOK)
  <2>1. [NodeNext]_allVars => (InFocus("admin")' <=> InFocus("admin"))
        BY FocusStays, Zenon
  <2>2. InFocus("admin") <=> focus = "admin"
        BY FocusIs, Zenon
  <2>3. NodeSpec => (focus = "admin" => AdminSpec)
        BY NodeIsEachPart
  <2> QED BY <2>1, <2>2, <2>3, AdminTypes, PTL DEF NodeSpec
<1>10. NodeSpec => [](focus = "installer" => InstallerTypeOK)
  <2>1. [NodeNext]_allVars => (InFocus("installer")' <=> InFocus("installer"))
        BY FocusStays, Zenon
  <2>2. InFocus("installer") <=> focus = "installer"
        BY FocusIs, Zenon
  <2>3. NodeSpec => (focus = "installer" => InstallerSpec)
        BY NodeIsEachPart
  <2> QED BY <2>1, <2>2, <2>3, InstallerTypes, PTL DEF NodeSpec
<1>11. NodeSpec => [](focus = "loop" => UpdateLoopTypeOK)
  <2>1. [NodeNext]_allVars => (InFocus("loop")' <=> InFocus("loop"))
        BY FocusStays, Zenon
  <2>2. InFocus("loop") <=> focus = "loop"
        BY FocusIs, Zenon
  <2>3. NodeSpec => (focus = "loop" => UpdateLoopSpec)
        BY NodeIsEachPart
  <2> QED BY <2>1, <2>2, <2>3, UpdateLoopTypes, PTL DEF NodeSpec
<1>12. NodeSpec => [](focus = "config" => NodeConfigTypeOK)
  <2>1. [NodeNext]_allVars => (InFocus("config")' <=> InFocus("config"))
        BY FocusStays, Zenon
  <2>2. InFocus("config") <=> focus = "config"
        BY FocusIs, Zenon
  <2>3. NodeSpec => (focus = "config" => NodeConfigSpec)
        BY NodeIsEachPart
  <2> QED BY <2>1, <2>2, <2>3, NodeConfigTypes, PTL DEF NodeSpec
<1>13. NodeSpec => [](focus = "runtime" => RuntimeConfigTypeOK)
  <2>1. [NodeNext]_allVars => (InFocus("runtime")' <=> InFocus("runtime"))
        BY FocusStays, Zenon
  <2>2. InFocus("runtime") <=> focus = "runtime"
        BY FocusIs, Zenon
  <2>3. NodeSpec => (focus = "runtime" => RuntimeConfigSpec)
        BY NodeIsEachPart
  <2> QED BY <2>1, <2>2, <2>3, RuntimeConfigTypes, PTL DEF NodeSpec
<1>14. NodeSpec => [](focus = "signed" => SignedUpdateTypeOK)
  <2>1. [NodeNext]_allVars => (InFocus("signed")' <=> InFocus("signed"))
        BY FocusStays, Zenon
  <2>2. InFocus("signed") <=> focus = "signed"
        BY FocusIs, Zenon
  <2>3. NodeSpec => (focus = "signed" => SignedUpdateSpec)
        BY NodeIsEachPart
  <2> QED BY <2>1, <2>2, <2>3, SignedTypes, PTL DEF NodeSpec
<1>15. NodeSpec => [](focus = "filter" => XDPTypeOK)
  <2>1. [NodeNext]_allVars => (InFocus("filter")' <=> InFocus("filter"))
        BY FocusStays, Zenon
  <2>2. InFocus("filter") <=> focus = "filter"
        BY FocusIs, Zenon
  <2>3. NodeSpec => (focus = "filter" => XDPSpec)
        BY NodeIsEachPart
  <2> QED BY <2>1, <2>2, <2>3, XDPTypes, PTL DEF NodeSpec
<1>16. NodeSpec => [](focus = "license" => Lic!LicenseTypeOK)
  <2>1. [NodeNext]_allVars => (InFocus("license")' <=> InFocus("license"))
        BY FocusStays, Zenon
  <2>2. InFocus("license") <=> focus = "license"
        BY FocusIs, Zenon
  <2>3. NodeSpec => (focus = "license" => Lic!SalesSpec)
        BY NodeIsEachPart
  <2> QED BY <2>1, <2>2, <2>3, LicenseTypes, PTL DEF NodeSpec
<1> DEFINE FirstFive ==
             /\ focus = "pool" => TypeOK
             /\ focus = "update" => UpdateTypeOK
             /\ focus = "offline" => OfflineTypeOK
             /\ focus = "monitor" => MonitorTypeOK
             /\ focus = "kernel" => KernelTypeOK
<1> DEFINE NextFive ==
             /\ focus = "geoip" => GeoTypeOK
             /\ focus = "traffic" => TrafficTypeOK
             /\ focus = "snapshots" => SnapshotTypeOK
             /\ focus = "admin" => AdminTypeOK
             /\ focus = "installer" => InstallerTypeOK
<1> DEFINE LastSix ==
             /\ focus = "loop" => UpdateLoopTypeOK
             /\ focus = "config" => NodeConfigTypeOK
             /\ focus = "runtime" => RuntimeConfigTypeOK
             /\ focus = "signed" => SignedUpdateTypeOK
             /\ focus = "filter" => XDPTypeOK
             /\ focus = "license" => Lic!LicenseTypeOK
<1>17. NodeSpec => []FirstFive
      BY <1>1, <1>2, <1>3, <1>4, <1>5, PTL
<1>18. NodeSpec => []NextFive
      BY <1>6, <1>7, <1>8, <1>9, <1>10, PTL
<1>19. NodeSpec => []LastSix
      BY <1>11, <1>12, <1>13, <1>14, <1>15, <1>16, PTL
<1>20. FirstFive /\ NextFive /\ LastSix => NodeTypesOK
      BY Zenon DEF NodeTypesOK
<1> HIDE DEF FirstFive, NextFive, LastSix
<1> QED BY <1>17, <1>18, <1>19, <1>20, PTL
=============================================================================
