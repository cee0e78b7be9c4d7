------------------------------ MODULE TrafficGuard ------------------------------
(***************************************************************************)
(* What the health monitor makes of the traffic (monitor/traffic.go): the    *)
(* analyzer's sliding window, the emergency mode that halves the rate limit   *)
(* for a while after a crash under load, and the detector of attacks.  Each   *)
(* call locks for itself, and the callbacks run inside the lock.  No program  *)
(* of the repository wires these parts: the goroutines here do what its       *)
(* comments say of them, look at the rate and then call.                      *)
(***************************************************************************)
EXTENDS Integers, Sequences, SequencesExt, FiniteSetsExt

CONSTANTS Watchers,                  \* goroutines that watch the traffic
          Rates, PlanLimits,         \* requests per second
          AnalyzerWindow, EmergencyTime,         \* 10 s, 5 min, in ticks
          EmergencyFactor, AttackFactor,         \* 5 and 10
          MaxSamples                 \* bound: samples in the window

ASSUME TrafficAssumption ==
  /\ Rates \subseteq Nat /\ PlanLimits \subseteq Nat /\ PlanLimits # {}
  /\ AnalyzerWindow \in Nat /\ EmergencyTime \in Nat \ {0} /\ MaxSamples \in Nat

VARIABLES samples,        \* of the analyzer: rate and age, oldest first
          planThreshold,  \* of the analyzer
          originalLimit,  \* of the emergency mode: the limit it was made with
          emergency,      \* ticks since it was activated, or Off
          limitSet,       \* the rate limit that its callbacks last set
          attack,         \* the detector is active
          strict,         \* XDP strict mode was switched on
          alerts,         \* history: alerts since the detector was last cleared
          watcher         \* per goroutine: what it found and will now call

trafficVars == <<samples, planThreshold, originalLimit, emergency, limitSet, attack, strict,
                 alerts, watcher>>

Off == -1

TrafficTypeOK ==
  /\ samples \in Seq([rps : Rates, age : 0..AnalyzerWindow + 1]) /\ Len(samples) <= MaxSamples
  /\ planThreshold \in PlanLimits /\ originalLimit \in PlanLimits
  /\ emergency \in {Off} \cup 0..EmergencyTime /\ limitSet \in Nat
  /\ attack \in BOOLEAN /\ strict \in BOOLEAN /\ alerts \in 0..1
  /\ watcher \in [Watchers -> {"idle", "crashed", "activate", "detect", "clear"}]

EmergencyInit == emergency = Off /\ limitSet = originalLimit
DetectorInit == attack = FALSE /\ strict = FALSE /\ alerts = 0

TrafficInit ==
  /\ samples = <<>>
  /\ planThreshold \in PlanLimits
  /\ originalLimit = planThreshold
  /\ EmergencyInit /\ DetectorInit
  /\ watcher = [w \in Watchers |-> "idle"]

-----------------------------------------------------------------------------
(* The analyzer. *)
InWindow(s) == s.age <= AnalyzerWindow

\* currentRateAt: the average over the window, rounded down.
CurrentRate ==
  LET fresh == SelectSeq(samples, InWindow)
  IN  IF fresh = <<>> THEN 0
      ELSE FoldSeq(LAMBDA s, sum : s.rps + sum, 0, fresh) \div Len(fresh)

Exceeds(factor) == planThreshold # 0 /\ CurrentRate > planThreshold * factor
IsEmergency == Exceeds(EmergencyFactor)
IsDDoS == Exceeds(AttackFactor)

RecordSample(rps) ==
  /\ Len(samples) < MaxSamples
  /\ LET all == Append(samples, [rps |-> rps, age |-> 0])
     IN  \E firstValid \in DOMAIN all :       \* pruneOldSamples
           /\ InWindow(all[firstValid]) /\ \A i \in 1 .. firstValid - 1 : ~InWindow(all[i])
           /\ samples' = SubSeq(all, firstValid, Len(all))
  /\ UNCHANGED <<planThreshold, originalLimit, emergency, limitSet, attack, strict, alerts, watcher>>

SetPlanThreshold(limit) ==
  /\ planThreshold' = limit
  /\ UNCHANGED <<samples, originalLimit, emergency, limitSet, attack, strict, alerts, watcher>>

-----------------------------------------------------------------------------
(* A goroutine looks at the rate, and later makes the call that follows. *)
Watch(w) ==
  /\ watcher[w] = "idle"
  /\ \E next \in {"crashed", IF IsDDoS THEN "detect" ELSE "clear"} :
       watcher' = [watcher EXCEPT ![w] = next]
  /\ UNCHANGED <<samples, planThreshold, originalLimit, emergency, limitSet, attack, strict, alerts>>

\* The protected service crashed: in an emergency, if the traffic is that of one.
AfterCrash(w) ==
  /\ watcher[w] = "crashed"
  /\ watcher' = [watcher EXCEPT ![w] = IF IsEmergency THEN "activate" ELSE "idle"]
  /\ UNCHANGED <<samples, planThreshold, originalLimit, emergency, limitSet, attack, strict, alerts>>

Acts(w, call) == watcher[w] = call /\ watcher' = [watcher EXCEPT ![w] = "idle"]

Activate(w) ==
  /\ Acts(w, "activate")
  /\ IF emergency # Off THEN UNCHANGED <<emergency, limitSet>>
     ELSE emergency' = 0 /\ limitSet' = originalLimit \div 2
  /\ UNCHANGED <<samples, planThreshold, originalLimit, attack, strict, alerts>>

CheckExpiry ==
  /\ emergency >= EmergencyTime
  /\ emergency' = Off /\ limitSet' = originalLimit
  /\ UNCHANGED <<samples, planThreshold, originalLimit, attack, strict, alerts, watcher>>

\* Strict mode may fail to come on; it is not tried again while the detector is active.
Detect(w) ==
  /\ Acts(w, "detect")
  /\ IF attack THEN UNCHANGED <<attack, strict, alerts>>
     ELSE /\ attack' = TRUE /\ alerts' = alerts + 1
          /\ strict' \in {strict, TRUE}
  /\ UNCHANGED <<samples, planThreshold, originalLimit, emergency, limitSet>>

\* Strict mode stays on.
Clear(w) ==
  /\ Acts(w, "clear")
  /\ attack' = FALSE
  /\ alerts' = IF attack THEN 0 ELSE alerts
  /\ UNCHANGED <<samples, planThreshold, originalLimit, emergency, limitSet, strict>>

TrafficTick ==
  /\ samples' = [i \in DOMAIN samples |->
       [samples[i] EXCEPT !.age = IF @ > AnalyzerWindow THEN @ ELSE @ + 1]]
  /\ emergency' = IF emergency \in {Off, EmergencyTime} THEN emergency ELSE emergency + 1
  /\ UNCHANGED <<planThreshold, originalLimit, limitSet, attack, strict, alerts, watcher>>

TrafficNext ==
  \/ \E w \in Watchers : Watch(w) \/ AfterCrash(w) \/ Activate(w) \/ Detect(w) \/ Clear(w)
  \/ \E rps \in Rates : RecordSample(rps)
  \/ \E limit \in PlanLimits : SetPlanThreshold(limit)
  \/ CheckExpiry \/ TrafficTick

TrafficSpec == TrafficInit /\ [][TrafficNext]_trafficVars
================================================================================
