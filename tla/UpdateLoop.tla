------------------------------- MODULE UpdateLoop -------------------------------
(***************************************************************************)
(* The loop that asks the master for updates (client/updater/updater.go,    *)
(* Run): at each tick of a ticker, and at once when a heartbeat answer has   *)
(* announced one through a channel with room for one signal.  A signal that  *)
(* finds the channel full is dropped; the ticker keeps one tick at most, and *)
(* starts anew after a check that a signal asked for.  What is found is only *)
(* logged.  Time is counted in poll intervals.                              *)
(***************************************************************************)
EXTENDS Naturals

CONSTANTS Releases,          \* versions that the master may offer
          Current            \* the version the process was built from

ASSUME UpdateLoopAssumption == Current \in Releases

VARIABLES pushed, ticked,    \* a signal, and a tick, wait in their channels
          loopAt,            \* what the loop is at
          forPush,           \* the check under way was asked for by a signal
          offered,           \* the version the master offers
          checked,           \* LastCheckAt was set in this interval
          logged,            \* what the last check found, or Current
          announced          \* history: versions announced since a check last began

updateLoopVars == <<pushed, ticked, loopAt, forPush, offered, checked, logged, announced>>

UpdateLoopTypeOK ==
  /\ pushed \in BOOLEAN /\ ticked \in BOOLEAN /\ forPush \in BOOLEAN /\ checked \in BOOLEAN
  /\ loopAt \in {"select", "check", "stopped"}
  /\ offered \in Releases /\ logged \in Releases
  /\ announced \subseteq Releases

UpdateLoopInit ==
  /\ pushed = FALSE /\ ticked = FALSE /\ forPush = FALSE /\ checked = FALSE
  /\ loopAt = "select"
  /\ offered = Current /\ logged = Current
  /\ announced = {}

\* The master publishes a release, or takes the last one back.
Publish(r) ==
  /\ offered' = r
  /\ UNCHANGED <<pushed, ticked, loopAt, forPush, checked, logged, announced>>

TriggerDropsWhileChecking ==   \* mutant: no signal is left while a check is under way
  /\ pushed' = (pushed \/ loopAt # "check")
  /\ announced' = announced \cup {offered}
  /\ UNCHANGED <<ticked, loopAt, forPush, offered, checked, logged>>

\* A heartbeat answer says that there is an update.
TriggerUpdateCheck ==
  /\ pushed' = TRUE
  /\ announced' = announced \cup {offered}
  /\ UNCHANGED <<ticked, loopAt, forPush, offered, checked, logged>>

PollTick ==
  /\ ticked' = TRUE /\ checked' = FALSE
  /\ UNCHANGED <<pushed, loopAt, forPush, offered, logged, announced>>

\* select takes one of the channels that are ready, in no order.
TakeSignal ==
  /\ loopAt = "select" /\ loopAt' = "check"
  /\ \/ pushed /\ pushed' = FALSE /\ forPush' = TRUE /\ UNCHANGED ticked
     \/ ticked /\ ticked' = FALSE /\ forPush' = FALSE /\ UNCHANGED pushed
  /\ announced' = {}
  /\ UNCHANGED <<offered, checked, logged>>

\* performUpdateCheck does no more than log what it is offered.
LogOffer == checked' = TRUE /\ logged' = offered

\* CheckForUpdate: the answer of the master, which offers what the process does not run, or
\* no answer.
CheckForUpdate ==
  /\ loopAt = "check" /\ loopAt' = "select"
  /\ ticked' = (ticked /\ ~forPush)
  /\ \/ LogOffer
     \/ UNCHANGED <<checked, logged>>
  /\ UNCHANGED <<pushed, forPush, offered, announced>>

StopLoop ==
  /\ loopAt \in {"select", "check"} /\ loopAt' = "stopped"
  /\ UNCHANGED <<pushed, ticked, forPush, offered, checked, logged, announced>>

UpdateLoopNext ==
  \/ \E r \in Releases : Publish(r)
  \/ TriggerUpdateCheck \/ PollTick
  \/ TakeSignal \/ CheckForUpdate \/ StopLoop

UpdateLoopSpec == UpdateLoopInit /\ [][UpdateLoopNext]_updateLoopVars

-----------------------------------------------------------------------------
\* An announcement is never lost, although signals are dropped when one is waiting and the
\* ticker is reset after a check: a check begins after it, or its signal is still there.
AnnouncementKept == announced # {} => pushed
=================================================================================
