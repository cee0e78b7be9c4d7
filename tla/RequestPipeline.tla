---------------------------- MODULE RequestPipeline ----------------------------
(***************************************************************************)
(* How the client node treats the page requests of one visitor            *)
(* (internal/client/proxy.go): the ban check, the sliding-window limiter   *)
(* (ratelimit/limiter.go), the access cookie, the challenge of the level   *)
(* found, and the verification that clears the visitor's window.           *)
(*                                                                         *)
(* Every call to the limiter or to the ban engine locks for itself, so     *)
(* each is a step of the goroutine that serves the request, and other      *)
(* requests of the visitor, and time, come between any two.  What the      *)
(* cookie, the escalation engine, the loop detector and the solution of a  *)
(* challenge are worth is a free choice here: Escalation and AccessCookie  *)
(* say more of them.  Thresholds stay as they are: a plan change            *)
(* (UpdateThresholds) is a step of Heartbeat.                              *)
(***************************************************************************)
EXTENDS FiniteSets, Integers

CONSTANTS Threads,     \* goroutines that serve the visitor
          Records,     \* entries of the visitor's window, Hard - 1 and one per thread
          Soft, Hard,  \* SoftThreshold and HardThreshold
          Window,      \* WindowDuration, in ticks
          BanTime,     \* BlockTTLSeconds, in ticks
          NoRecord

ASSUME PipelineAssumption ==
  /\ IsFiniteSet(Records)
  /\ NoRecord \notin Records
  /\ Soft \in Nat \ {0} /\ Hard \in Nat \ {0}
  /\ Window \in Nat /\ BanTime \in Nat
  /\ Window < BanTime

VARIABLES age,       \* per record: ticks since the request, or Free
          banLeft,   \* ticks until the ban of the visitor is over, 0 if none
          pc,        \* per goroutine: the step it is at in ServeHTTP
          mine,      \* per goroutine: the record of its request, while it lasts
          volume,    \* per goroutine: the level found from the limiter
          served     \* history: the records whose requests reached the backend

vars == <<age, banLeft, pc, mine, volume, served>>

Free == -1
Steps == {"idle", "banned", "record", "hard", "soft", "cookie",
          "level4", "level3", "level2", "engine", "bypass", "spare", "serve", "ban", "reset"}

TypeOK ==
  /\ age \in [Records -> {Free} \cup 0..Window]
  /\ banLeft \in 0..BanTime
  /\ pc \in [Threads -> Steps]
  /\ mine \in [Threads -> Records \cup {NoRecord}]
  /\ volume \in [Threads -> 0..4]
  /\ served \subseteq Records

Init ==
  /\ age = [r \in Records |-> Free]
  /\ banLeft = 0
  /\ pc = [t \in Threads |-> "idle"]
  /\ mine = [t \in Threads |-> NoRecord]
  /\ volume = [t \in Threads |-> 0]
  /\ served = {}

-----------------------------------------------------------------------------
(* The limiter: what is in the window, after the pruning that each call does. *)
Logged == {r \in Records : age[r] # Free}
Count == Cardinality(Logged)
AllowedOneMore == Count <= Soft   \* mutant: the limit itself is allowed
Allowed == Count < Soft
DoubleThreshold == Count >= 2 * Soft
HardBlocked == Count >= Hard

Goto(t, step) == pc' = [pc EXCEPT ![t] = step]

\* The request is over; a record that it left in the window stays.
Finish(t) ==
  /\ Goto(t, "idle")
  /\ mine' = [mine EXCEPT ![t] = NoRecord]
  /\ volume' = [volume EXCEPT ![t] = 0]

ToBackend(t) == Finish(t) /\ served' = served \cup ({mine[t]} \cap Records)

Unchanged == UNCHANGED <<age, banLeft>>

\* ServeHTTP, for a path that is no verification and a browser's user agent.
Arrive(t) ==
  /\ pc[t] = "idle"
  /\ Goto(t, "banned")
  /\ UNCHANGED <<mine, volume, served>> /\ Unchanged

IsBannedIgnored(t) ==   \* mutant: a banned visitor is recorded like any other
  /\ pc[t] = "banned"
  /\ Goto(t, "record")
  /\ UNCHANGED <<mine, volume, served>> /\ Unchanged

IsBanned(t) ==
  /\ pc[t] = "banned"
  /\ IF banLeft > 0 THEN Finish(t) ELSE Goto(t, "record") /\ UNCHANGED <<mine, volume>>
  /\ UNCHANGED served /\ Unchanged

RecordRequest(t) ==
  /\ pc[t] = "record"
  /\ \E r \in Records \ Logged :
       /\ age' = [age EXCEPT ![r] = 0]
       /\ mine' = [mine EXCEPT ![t] = r]
  /\ Goto(t, "hard")
  /\ UNCHANGED <<banLeft, volume, served>>

IsHardBlocked(t) ==
  /\ pc[t] = "hard"
  /\ Goto(t, IF HardBlocked THEN "ban" ELSE "soft")
  /\ UNCHANGED <<mine, volume, served>> /\ Unchanged

Allow(t) ==
  /\ pc[t] = "soft"
  /\ Goto(t, IF Allowed THEN "cookie" ELSE "level4")
  /\ UNCHANGED <<mine, volume, served>> /\ Unchanged

\* A valid cookie within its own limit, or none.
CheckCookie(t) ==
  /\ pc[t] = "cookie"
  /\ \/ ToBackend(t)
     \/ Goto(t, "level4") /\ UNCHANGED <<mine, volume, served>>
  /\ Unchanged

\* getEscalationLevel: three calls to the limiter, each only if the one before
\* found nothing, and then the escalation engine.
VolumeIs(t, found, level, otherwise) ==
  /\ volume' = [volume EXCEPT ![t] = IF found THEN level ELSE 0]
  /\ Goto(t, IF found THEN "engine" ELSE otherwise)
  /\ UNCHANGED <<mine, served>> /\ Unchanged

LevelHard(t) == pc[t] = "level4" /\ VolumeIs(t, HardBlocked, 4, "level3")
LevelDouble(t) == pc[t] = "level3" /\ VolumeIs(t, DoubleThreshold, 3, "level2")
LevelSoft(t) == pc[t] = "level2" /\ VolumeIs(t, ~Allowed, 2, "engine")

EngineLevel(t) ==
  /\ pc[t] = "engine"
  /\ \E level \in 0..4 :
       volume' = [volume EXCEPT ![t] = IF @ > level THEN @ ELSE level]
  /\ Goto(t, "bypass")
  /\ UNCHANGED <<mine, served>> /\ Unchanged

\* serveChallengeForLevel asks the limiter once more: only a visitor within the
\* limit may be spared its page by the loop detector.
MayBypass(t) ==
  /\ pc[t] = "bypass"
  /\ Goto(t, IF Allowed THEN "spare" ELSE "serve")
  /\ UNCHANGED <<mine, volume, served>> /\ Unchanged

\* The backend at level 0, a ban at level 4, else the page of the level.
Serve(t) ==
  /\ pc[t] \in {"spare", "serve"}
  /\ \/ volume[t] = 0 /\ ToBackend(t)
     \/ volume[t] \in 1..3 /\ pc[t] = "spare" /\ ToBackend(t)
     \/ volume[t] \in 1..3 /\ Finish(t) /\ UNCHANGED served
     \/ volume[t] = 4 /\ Goto(t, "ban") /\ UNCHANGED <<mine, volume, served>>
  /\ Unchanged

BanForWindow(t) ==      \* mutant: the ban lasts as long as the window
  /\ pc[t] = "ban"
  /\ banLeft' = Window
  /\ Finish(t)
  /\ UNCHANGED <<age, served>>

Ban(t) ==
  /\ pc[t] = "ban"
  /\ banLeft' = BanTime
  /\ Finish(t)
  /\ UNCHANGED <<age, served>>

\* A verification that succeeds, banned or not, clears the visitor's window.
Verify(t) ==
  /\ pc[t] = "idle"
  /\ Goto(t, "reset")
  /\ UNCHANGED <<mine, volume, served>> /\ Unchanged

ResetIP(t) ==
  /\ pc[t] = "reset"
  /\ age' = [r \in Records |-> Free]
  /\ mine' = [u \in Threads |-> NoRecord]
  /\ served' = {}
  /\ Goto(t, "idle")
  /\ UNCHANGED <<banLeft, volume>>

\* A tick of the clock; entries older than the window are pruned.
OutdatedLate == {r \in Records : age[r] > Window}   \* mutant: one tick late

Outdated == {r \in Records : age[r] = Window}

Tick ==
  /\ age' = [r \in Records |-> IF age[r] = Free \/ r \in Outdated THEN Free ELSE age[r] + 1]
  /\ banLeft' = IF banLeft > 0 THEN banLeft - 1 ELSE 0
  /\ mine' = [t \in Threads |-> IF mine[t] \in Outdated THEN NoRecord ELSE mine[t]]
  /\ served' = served \ Outdated
  /\ UNCHANGED <<pc, volume>>

Step(t) ==
  \/ IsBanned(t) \/ RecordRequest(t) \/ IsHardBlocked(t) \/ Allow(t) \/ CheckCookie(t)
  \/ LevelHard(t) \/ LevelDouble(t) \/ LevelSoft(t) \/ EngineLevel(t)
  \/ MayBypass(t) \/ Serve(t) \/ Ban(t) \/ ResetIP(t)

Next == (\E t \in Threads : Arrive(t) \/ Verify(t) \/ Step(t)) \/ Tick

Spec == Init /\ [][Next]_vars

\* A request that was accepted is served to its end, and time passes.  Nothing
\* makes the visitor send one, or stop.
FairSpec == Spec /\ WF_vars(Tick) /\ \A t \in Threads : WF_vars(Step(t))

-----------------------------------------------------------------------------
\* Of the requests in the visitor's window, fewer than SoftThreshold have reached
\* the backend, since the window was last cleared: by cookie, at level 0 or past
\* the loop detector, and however requests that record themselves at the same
\* time and then ask for permission interleave (proxy.go:150-202).
SoftLimitHolds == Cardinality(served) < Soft

\* When no request is between its record and the answer to it, a window with
\* HardThreshold requests in it means that the visitor is banned: concurrent
\* requests, pruning and earlier bans that run out never let a flood go without
\* one (proxy.go:155-162).
FloodIsBanned ==
  (\A t \in Threads : pc[t] \notin {"hard", "ban"}) /\ HardBlocked => banLeft > 0

\* A ban comes to its end even for a visitor that never stops sending: refused
\* requests are not recorded, and those under way when it began run out.
BanEnds == []<>(banLeft = 0)
===============================================================================
