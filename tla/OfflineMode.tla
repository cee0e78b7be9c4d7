------------------------------- MODULE OfflineMode -------------------------------
(***************************************************************************)
(* The offline manager of a node (client/monitor/offline.go): the mode      *)
(* follows the last contact with the master, a reconnect loop asks for one  *)
(* with an exponential backoff, and the heartbeat reports its own.  The     *)
(* mutex covers single steps only: a contact is announced (configuration,   *)
(* report, callback) after it is released.  Time is counted in ticks.       *)
(***************************************************************************)
EXTENDS Integers

CONSTANTS OfflineThreshold, ReconnectInterval, MaxReconnectBackoff,
          MaxAttempts        \* bound of attempts in one offline period

ASSUME OfflineAssumption ==
  /\ {OfflineThreshold, ReconnectInterval, MaxReconnectBackoff} \subseteq Nat \ {0}
  /\ MaxAttempts \in Nat

Contacts == {"heartbeat", "reconnect"}

VARIABLES isOffline, lastContact, lastAttempt,  \* ages, for the two times
          attempts, backoff,
          contactPc,                            \* per caller
          told,                                 \* what onModeChange was called with last
          owed, overtaken                       \* history: offline periods not yet reported, and
                                                \* whether the last one began in an announcement

offlineVars == <<isOffline, lastContact, lastAttempt, attempts, backoff, contactPc,
                 told, owed, overtaken>>

OfflineTypeOK ==
  /\ isOffline \in BOOLEAN
  /\ lastContact \in 0 .. OfflineThreshold + 1
  /\ lastAttempt \in 0 .. MaxReconnectBackoff
  /\ attempts \in 0 .. MaxAttempts
  /\ backoff \in {ReconnectInterval} \cup 0 .. MaxReconnectBackoff
  /\ contactPc \in [Contacts -> {"idle", "attempt", "check", "announce"}]
  /\ told \in {"online", "offline"} /\ owed \in 0 .. 3 /\ overtaken \in BOOLEAN

OfflineInit ==
  /\ isOffline = FALSE /\ lastContact = 0 /\ lastAttempt = MaxReconnectBackoff
  /\ attempts = 0 /\ backoff = ReconnectInterval
  /\ contactPc = [c \in Contacts |-> "idle"]
  /\ told = "online" /\ owed = 0 /\ overtaken = FALSE

-----------------------------------------------------------------------------
NextBackoffAddsBase(current) ==    \* mutant: the wait grows by one interval at a time
  IF current + ReconnectInterval > MaxReconnectBackoff THEN MaxReconnectBackoff
                                                       ELSE current + ReconnectInterval

NextBackoff(current) ==
  IF current * 2 > MaxReconnectBackoff THEN MaxReconnectBackoff ELSE current * 2

\* The backoff that belongs to an attempt, as a function of its number alone.
CalculateBackoff[attempt \in Nat] ==
  IF attempt <= 1 THEN ReconnectInterval
  ELSE LET doubled == CalculateBackoff[attempt - 1] * 2
       IN  IF doubled > MaxReconnectBackoff THEN MaxReconnectBackoff ELSE doubled

At(c, pc) == contactPc[c] = pc
GoesTo(c, pc) == contactPc' = [contactPc EXCEPT ![c] = pc]
Announcing == {c \in Contacts : At(c, "announce")}

\* EvaluateConnectivity, its callback made while the mutex is held.
EvaluateConnectivity ==
  /\ ~isOffline /\ lastContact > OfflineThreshold
  /\ isOffline' = TRUE
  /\ attempts' = 0 /\ backoff' = ReconnectInterval
  /\ told' = "offline"
  /\ owed' = owed + 1 /\ overtaken' = (Announcing # {})
  /\ UNCHANGED <<lastContact, lastAttempt, contactPc>>

ContactKeepsOffline(c) ==   \* mutant: the mode is set only when the announcement is made
  /\ lastContact' = 0
  /\ \/ isOffline /\ GoesTo(c, "announce")
     \/ ~isOffline /\ GoesTo(c, "idle")
  /\ UNCHANGED <<isOffline, attempts, backoff, lastAttempt, told, owed, overtaken>>

\* RecordMasterContact under the mutex: the caller that ends the offline period
\* announces it.
RecordMasterContact(c) ==
  /\ lastContact' = 0
  /\ \/ /\ isOffline /\ isOffline' = FALSE
        /\ attempts' = 0 /\ backoff' = ReconnectInterval
        /\ GoesTo(c, "announce")
     \/ ~isOffline /\ UNCHANGED <<isOffline, attempts, backoff>> /\ GoesTo(c, "idle")
  /\ UNCHANGED <<lastAttempt, told, owed, overtaken>>

Heartbeat == At("heartbeat", "idle") /\ RecordMasterContact("heartbeat")

\* syncConfig and sendOfflineReport, whatever comes of them, and the callback, without the
\* mutex.  None of them has a deadline.
SyncAndReport == owed' = owed - 1

Announce(c) ==
  /\ At(c, "announce") /\ GoesTo(c, "idle")
  /\ SyncAndReport
  /\ told' = "online"
  /\ UNCHANGED <<isOffline, lastContact, lastAttempt, attempts, backoff, overtaken>>

\* AttemptReconnect reads the mode and the backoff, ...
DecideAttempt ==
  /\ At("reconnect", "idle") /\ isOffline /\ lastAttempt >= backoff
  /\ attempts < MaxAttempts
  /\ GoesTo("reconnect", "attempt")
  /\ UNCHANGED <<isOffline, lastContact, lastAttempt, attempts, backoff, told, owed, overtaken>>

\* ... counts the attempt ...
CountAttempt ==
  /\ At("reconnect", "attempt") /\ GoesTo("reconnect", "check")
  /\ attempts' = attempts + 1
  /\ lastAttempt' = 0
  /\ UNCHANGED <<isOffline, lastContact, backoff, told, owed, overtaken>>

\* ... and asks the master.
ReconnectFails ==
  /\ At("reconnect", "check") /\ GoesTo("reconnect", "idle")
  /\ backoff' = NextBackoff(backoff)
  /\ UNCHANGED <<isOffline, lastContact, lastAttempt, attempts, told, owed, overtaken>>

ReconnectSucceeds == At("reconnect", "check") /\ RecordMasterContact("reconnect")

OfflineTick ==
  /\ lastContact' = IF lastContact > OfflineThreshold THEN lastContact ELSE lastContact + 1
  /\ lastAttempt' = IF lastAttempt = MaxReconnectBackoff THEN lastAttempt
                                                         ELSE lastAttempt + 1
  /\ UNCHANGED <<isOffline, attempts, backoff, contactPc, told, owed, overtaken>>

OfflineNext ==
  \/ EvaluateConnectivity
  \/ Heartbeat
  \/ \E c \in Contacts : Announce(c)
  \/ DecideAttempt \/ CountAttempt \/ ReconnectFails \/ ReconnectSucceeds
  \/ OfflineTick

OfflineSpec == OfflineInit /\ [][OfflineNext]_offlineVars

-----------------------------------------------------------------------------
\* When nothing is being announced, the callback was last told the mode that the
\* manager is in, although the mode changes under the mutex and a return to online is
\* told after it, by two callers at a time.  Left out: an offline period that began while
\* a return to online was still being announced; offline.go:163-165 then tells "online"
\* after line 218 told "offline".
ToldTheMode ==
  Announcing = {} => \/ told = (IF isOffline THEN "offline" ELSE "online")
                     \/ isOffline /\ overtaken

\* Each offline period is reported to the master once, whichever of the heartbeat and
\* the reconnect loop ends it first (RecordMasterContact), and also when its report is
\* overtaken by the next period: the reports that are owed are those on their way.
ReportedOnce ==
  owed = (IF isOffline THEN 1 ELSE 0) + (IF At("heartbeat", "announce") THEN 1 ELSE 0)
                                      + (IF At("reconnect", "announce") THEN 1 ELSE 0)

\* The wait that AttemptReconnect respects is never shorter than the one that its
\* documented formula gives for the attempts of this period, also when an answer that
\* belongs to an earlier period comes in late.
BackoffRespected ==
  isOffline /\ At("reconnect", "idle") => backoff >= CalculateBackoff[attempts + 1]
=================================================================================
