------------------------------ MODULE HealthMonitor ------------------------------
(***************************************************************************)
(* The health monitor of a node (client/monitor/monitor.go, xdp_checker.go, *)
(* types.go): one goroutine that checks the health endpoint and the kernel  *)
(* program on each tick, restarts the service after MaxConsecFailures bad   *)
(* checks, and escalates restarts and reloads that keep failing.  Time is   *)
(* counted in check intervals.                                              *)
(***************************************************************************)
EXTENDS Integers, Sequences

CONSTANTS MaxConsecFailures, MaxRestartFailures, MaxReloadFailures,
          RestartCooldown, ReloadCooldown,
          FailureWindow          \* of the restart and the reload tracker

ASSUME MonitorAssumption ==
  /\ {MaxConsecFailures, MaxRestartFailures, MaxReloadFailures} \subseteq Nat \ {0}
  /\ {RestartCooldown, ReloadCooldown, FailureWindow} \subseteq Nat \ {0}

HealthWindow == MaxConsecFailures + 1

VARIABLES running, doing,      \* started, and what the goroutine is at
          due,                 \* a tick waits in the channel of the ticker
          health, restarts, reloads,  \* FailureTrackers
          binaryOK, attached,  \* MonitorStatus: BinaryHealthy, XDPAttached
          slept,               \* since the cooldown before a restart began
          tried,               \* since lastReloadAttempt
          failed               \* history: ages of the restarts that failed since an
                               \* alert or a success, youngest last

monitorVars == <<running, doing, due, health, restarts, reloads, binaryOK, attached,
                 slept, tried, failed>>

Longest(window) == window + 1     \* an age beyond the window needs no other number
Ages == 0 .. Longest(FailureWindow)
Forgotten == 2 * MaxRestartFailures + 1      \* bound: failed restarts remembered

MonitorTypeOK ==
  /\ running \in BOOLEAN /\ due \in BOOLEAN /\ binaryOK \in BOOLEAN /\ attached \in BOOLEAN
  /\ doing \in {"nothing", "waiting", "deciding", "cooling", "restarting", "xdp"}
  /\ health \in [count : 0 .. MaxConsecFailures + 2, since : 0 .. Longest(HealthWindow)]
  /\ restarts \in [count : 0 .. MaxRestartFailures, since : Ages]
  /\ reloads \in [count : 0 .. MaxReloadFailures, since : Ages]
  /\ slept \in 0 .. RestartCooldown /\ tried \in 0 .. ReloadCooldown
  /\ failed \in Seq(0 .. FailureWindow) /\ Len(failed) <= Forgotten

-----------------------------------------------------------------------------
(* FailureTracker: a count of failures in the window that the first one opens *)

Reset == [count |-> 0, since |-> 0]
Expired(t, window) == t.count > 0 /\ t.since > window

Record(t, window) ==
  IF Expired(t, window) \/ t.count = 0 THEN [count |-> 1, since |-> 0]
                                       ELSE [t EXCEPT !.count = t.count + 1]

ShouldEscalate(t, window, threshold) == t.count >= threshold /\ ~Expired(t, window)

\* ShouldEscalate also forgets a full count whose window has passed.
AfterAsking(t, window, threshold) ==
  IF t.count >= threshold /\ Expired(t, window) THEN Reset ELSE t

Aged(t, window) ==
  IF t.count > 0 /\ t.since <= window THEN [t EXCEPT !.since = t.since + 1] ELSE t

-----------------------------------------------------------------------------
MonitorInit ==
  /\ running = FALSE /\ doing = "nothing" /\ due = FALSE
  /\ health = Reset /\ restarts = Reset /\ reloads = Reset
  /\ binaryOK = FALSE /\ attached = FALSE
  /\ slept = 0 /\ tried = ReloadCooldown
  /\ failed = <<>>

Goes(from, to) == doing = from /\ doing' = to
Status == <<binaryOK, attached>>

MonitorStart ==
  /\ ~running /\ running' = TRUE /\ due' = FALSE
  /\ Goes("nothing", "waiting")
  /\ UNCHANGED <<health, restarts, reloads, Status, slept, tried, failed>>

\* Stop cancels the context, which the goroutine looks at between checks, and waits
\* for it; a cancelled parent context ends the goroutine and leaves running set.
MonitorStop ==
  /\ running
  /\ \/ doing \in {"nothing", "waiting"} /\ doing' = "nothing" /\ running' = FALSE
     \/ doing = "waiting" /\ doing' = "nothing" /\ UNCHANGED running
  /\ UNCHANGED <<due, health, restarts, reloads, Status, slept, tried, failed>>

\* performHealthCheck.
CheckHealth(healthy) ==
  /\ due /\ due' = FALSE
  /\ binaryOK' = healthy
  /\ LET after == IF healthy THEN Reset ELSE Record(health, HealthWindow)
     IN  /\ health' = after
         /\ Goes("waiting", IF after.count >= MaxConsecFailures THEN "deciding" ELSE "xdp")
  /\ UNCHANGED <<running, restarts, reloads, attached, slept, tried, failed>>

\* handleRestartNeeded: enough failed restarts are reported to the master, and the
\* goroutine sleeps before the next.
DecideRestart ==
  /\ restarts' = AfterAsking(restarts, FailureWindow, MaxRestartFailures)
  /\ \/ /\ ShouldEscalate(restarts, FailureWindow, MaxRestartFailures)
        /\ Goes("deciding", "cooling") /\ slept' = 0
        /\ failed' = <<>>
     \/ /\ ~ShouldEscalate(restarts, FailureWindow, MaxRestartFailures)
        /\ Goes("deciding", "restarting") /\ UNCHANGED <<slept, failed>>
  /\ UNCHANGED <<running, due, health, reloads, Status, tried>>

CooledDown ==
  /\ slept = RestartCooldown /\ slept' = 0
  /\ Goes("cooling", "restarting")
  /\ restarts' = Reset
  /\ UNCHANGED <<running, due, health, reloads, Status, tried, failed>>

\* The context is cancelled during the sleep.
CooldownCancelled ==
  /\ slept' = 0
  /\ Goes("cooling", "xdp")
  /\ UNCHANGED <<running, due, health, restarts, reloads, Status, tried, failed>>

RestartForgetsFailure ==     \* mutant: the tracker is reset whatever came of the restart
  /\ Goes("restarting", "xdp")
  /\ restarts' = Reset
  /\ failed' = IF Len(failed) < Forgotten THEN Append(failed, 0) ELSE failed
  /\ UNCHANGED <<running, due, health, reloads, Status, slept, tried>>

RestartFailed ==
  /\ Goes("restarting", "xdp")
  /\ restarts' = Record(restarts, FailureWindow)
  /\ failed' = IF Len(failed) < Forgotten THEN Append(failed, 0) ELSE failed
  /\ UNCHANGED <<running, due, health, reloads, Status, slept, tried>>

RestartSucceeded ==
  /\ Goes("restarting", "xdp")
  /\ restarts' = Reset /\ health' = Reset
  /\ binaryOK' = TRUE
  /\ failed' = <<>>
  /\ UNCHANGED <<running, due, reloads, attached, slept, tried>>

\* performXDPCheck stores what CheckXDP finds, and calls HandleDetached.
CheckXDP(found) == attached' = found

XDPAttached ==
  /\ Goes("xdp", "waiting")
  /\ CheckXDP(TRUE)
  /\ UNCHANGED <<running, due, health, restarts, reloads, binaryOK, slept, tried, failed>>

Escalated == ShouldEscalate(reloads, FailureWindow, MaxReloadFailures)

XDPCooling ==
  /\ Goes("xdp", "waiting")
  /\ Escalated /\ tried < ReloadCooldown
  /\ CheckXDP(FALSE)
  /\ UNCHANGED <<running, due, health, restarts, reloads, binaryOK, slept, tried, failed>>

XDPReload(reattached) ==
  /\ Goes("xdp", "waiting")
  /\ Escalated => tried >= ReloadCooldown
  /\ tried' = 0 /\ attached' = reattached
  /\ LET before == IF Escalated THEN Reset
                   ELSE AfterAsking(reloads, FailureWindow, MaxReloadFailures)
     IN  reloads' = IF reattached THEN Reset ELSE Record(before, FailureWindow)
  /\ UNCHANGED <<running, due, health, restarts, binaryOK, slept, failed>>

\* A check interval passes, while the goroutine waits, sleeps or restarts.
MonitorTick ==
  /\ doing \in {"waiting", "cooling", "restarting"}
  /\ doing = "waiting" => ~due
  /\ doing = "cooling" => slept < RestartCooldown
  /\ due' = TRUE
  /\ slept' = IF doing = "cooling" THEN slept + 1 ELSE slept
  /\ tried' = IF tried < ReloadCooldown THEN tried + 1 ELSE tried
  /\ health' = Aged(health, HealthWindow)
  /\ restarts' = Aged(restarts, FailureWindow) /\ reloads' = Aged(reloads, FailureWindow)
  /\ \E gone \in 0 .. Len(failed) :       \* the oldest, at the front, leave the window
       /\ \A i \in DOMAIN failed : failed[i] = FailureWindow <=> i <= gone
       /\ failed' = [i \in 1 .. Len(failed) - gone |-> failed[gone + i] + 1]
  /\ UNCHANGED <<running, doing, Status>>

MonitorNext ==
  \/ MonitorStart \/ MonitorStop
  \/ \E ok \in BOOLEAN : CheckHealth(ok) \/ XDPReload(ok)
  \/ DecideRestart \/ CooledDown \/ CooldownCancelled
  \/ RestartFailed \/ RestartSucceeded
  \/ XDPAttached \/ XDPCooling
  \/ MonitorTick

MonitorSpec == MonitorInit /\ [][MonitorNext]_monitorVars

-----------------------------------------------------------------------------
\* Restarts that keep failing are reported: the window is not a sliding one, so that
\* two of them may fill up side by side, but never does a whole window pass with more
\* failed restarts than these two hold and no alert.
AlertNotOverdue == Len(failed) <= 2 * MaxRestartFailures
=================================================================================
