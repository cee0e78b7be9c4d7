------------------------------ MODULE MasterAdmin ------------------------------
(***************************************************************************)
(* The way into the admin pages of the master (handlers/admin_auth.go,       *)
(* db/admin_ctx.go), what an administrator publishes there (handlers/admin.go *)
(* and db/release*.go) and what a node is then told (HandleUpdateCheck), and  *)
(* the limiter of registrations (handlers/register.go), for one address.     *)
(* Each query is a step of its goroutine and may fail.                        *)
(***************************************************************************)
EXTENDS Integers, Sequences, FiniteSets, SequencesExt, FiniteSetsExt

CONSTANTS Logins,             \* goroutines that serve POST /admin/login
          Sessions,           \* session tokens
          Versions,
          FailLimit,          \* failed attempts that block (5)
          FailWindow, LockTime, SessionTTL,   \* 10 min, 30 min, 12 h, in ticks
          RegLimit, RegWindow,                \* 10 registrations an hour
          MaxUnlogged,        \* bound: failed logins that could not be logged
          NoSession

ASSUME AdminAssumption ==
  /\ {FailLimit, RegLimit, RegWindow, SessionTTL} \subseteq Nat \ {0}
  /\ MaxUnlogged \in Nat /\ FailWindow \in Nat /\ LockTime \in Nat /\ FailWindow <= LockTime
  /\ IsFiniteSet(Logins) /\ NoSession \notin Sessions

VARIABLES loginStep,     \* per goroutine
          failedLogins,        \* admin_login_attempts: failures of the address, by age in ticks
          sessions,      \* admin_sessions: ticks left; 0 when expired or deleted
          adminCookie,        \* the session cookie that the browser holds
          releases,      \* the releases of a component and channel, oldest first
          nodeVersion,   \* what a node of that channel runs
          regEntry,      \* the limiter's entry: count, and ticks since its window began
          sinceBlock,    \* history: ticks since the limit was last reached, at most LockTime
          observed       \* history: wrong keys compared since some moment of the last FailWindow

adminVars == <<loginStep, failedLogins, sessions, adminCookie, releases, nodeVersion,
               regEntry, sinceBlock, observed>>

MaxFailed == FailLimit - 1 + Cardinality(Logins)
NotIssued == -1
Bundled == 0       \* the version a node was installed with

AdminTypeOK ==
  /\ loginStep \in [Logins -> {"idle", "count", "lock", "compare", "log failure", "session"}]
  /\ failedLogins \in [0..LockTime -> Nat]
  /\ sessions \in [Sessions -> {NotIssued} \cup 0..SessionTTL]
  /\ adminCookie \in Sessions \cup {NoSession}
  /\ IsInjective(releases) /\ ToSet(releases) \subseteq Versions
  /\ nodeVersion \in Versions \cup {Bundled}
  /\ regEntry \in [count : 0..RegLimit, age : 0..RegWindow + 1]
  /\ sinceBlock \in 0..LockTime + 1
  /\ observed \in [age : 0..FailWindow, guesses : Nat, unlogged : 0..MaxUnlogged]

Unobserved == [age |-> 0, guesses |-> 0, unlogged |-> 0]

AdminInit ==
  /\ loginStep = [g \in Logins |-> "idle"]
  /\ failedLogins = [a \in 0..LockTime |-> 0]
  /\ sessions = [s \in Sessions |-> NotIssued]
  /\ adminCookie = NoSession
  /\ releases = <<>> /\ nodeVersion = Bundled
  /\ regEntry = [count |-> 0, age |-> RegWindow + 1]   \* no entry yet
  /\ sinceBlock = LockTime + 1 /\ observed = Unobserved

FailedWithin(age) == ReduceSet(LAMBDA a, sum : failedLogins[a] + sum, 0..age, 0)
LoginAt(g, from, to) == loginStep[g] = from /\ loginStep' = [loginStep EXCEPT ![g] = to]
Unread == UNCHANGED <<releases, nodeVersion, regEntry>>

-----------------------------------------------------------------------------
\* POST /admin/login from an address of the allowlist; any other gets a 404.
LoginArrives(g) ==
  /\ LoginAt(g, "idle", "count")
  /\ UNCHANGED <<failedLogins, sessions, adminCookie, sinceBlock, observed>> /\ Unread

\* AdminBruteForceMiddleware: two queries, and a 500 when one of them fails.
CountRecentLate(g) ==     \* mutant: the limit itself is let through
  /\ loginStep[g] = "count"
  /\ \/ LoginAt(g, "count", IF FailedWithin(FailWindow) > FailLimit THEN "lock" ELSE "compare")
     \/ LoginAt(g, "count", "idle")
  /\ UNCHANGED <<failedLogins, sessions, adminCookie, sinceBlock, observed>> /\ Unread

CountRecent(g) ==
  /\ loginStep[g] = "count"
  /\ \/ LoginAt(g, "count", IF FailedWithin(FailWindow) >= FailLimit THEN "lock" ELSE "compare")
     \/ LoginAt(g, "count", "idle")
  /\ UNCHANGED <<failedLogins, sessions, adminCookie, sinceBlock, observed>> /\ Unread

CountLock(g) ==
  /\ loginStep[g] = "lock"
  /\ \/ LoginAt(g, "lock", IF FailedWithin(LockTime) >= FailLimit THEN "idle" ELSE "compare")
     \/ LoginAt(g, "lock", "idle")
  /\ UNCHANGED <<failedLogins, sessions, adminCookie, sinceBlock, observed>> /\ Unread

\* HandleAdminLogin: the key that was given is the admin key or it is not.
CompareKey(g) ==
  /\ \/ /\ LoginAt(g, "compare", "log failure")
        /\ observed' = [observed EXCEPT !.guesses = @ + 1]
     \/ /\ LoginAt(g, "compare", "session")   \* a success is logged, and counts for nothing
        /\ UNCHANGED observed
  /\ UNCHANGED <<failedLogins, sessions, adminCookie, sinceBlock>> /\ Unread

\* The answer is a 401 whether the failure could be logged or not (the client hung up,
\* the database was busy).
LogLoginAttempt == failedLogins' = [failedLogins EXCEPT ![0] = @ + 1]

LogFailure(g) ==
  /\ LoginAt(g, "log failure", "idle")
  /\ \/ /\ LogLoginAttempt
        /\ sinceBlock' = IF FailedWithin(FailWindow) + 1 >= FailLimit THEN 0 ELSE sinceBlock
        /\ UNCHANGED observed
     \/ /\ observed.unlogged < MaxUnlogged
        /\ observed' = [observed EXCEPT !.unlogged = @ + 1]
        /\ UNCHANGED <<failedLogins, sinceBlock>>
  /\ UNCHANGED <<sessions, adminCookie>> /\ Unread

InsertSession(s) == sessions[s] = NotIssued /\ sessions' = [sessions EXCEPT ![s] = SessionTTL]

CreateSession(g, s) ==
  /\ LoginAt(g, "session", "idle")
  /\ \/ /\ InsertSession(s)
        /\ adminCookie' = s
     \/ UNCHANGED <<sessions, adminCookie>>
  /\ UNCHANGED <<failedLogins, sinceBlock, observed>> /\ Unread

-----------------------------------------------------------------------------
\* AdminSessionMiddleware: a session that the table holds and that is not over.
SessionByToken(s) == sessions[s] > 0
LoggedIn == adminCookie # NoSession /\ SessionByToken(adminCookie)

\* A cookie that leads to no session is cleared.
SessionMissing ==
  /\ adminCookie # NoSession /\ ~LoggedIn
  /\ adminCookie' = NoSession
  /\ UNCHANGED <<loginStep, failedLogins, sessions, sinceBlock, observed>> /\ Unread

\* HandleAdminLogout: the cookie goes, even when the row could not be deleted.
DeleteSession(s) == sessions' = [sessions EXCEPT ![s] = 0]

Logout ==
  /\ LoggedIn
  /\ \/ DeleteSession(adminCookie)
     \/ UNCHANGED sessions
  /\ adminCookie' = NoSession
  /\ UNCHANGED <<loginStep, failedLogins, sinceBlock, observed>> /\ Unread

\* CreateRelease: a version of a component and channel is there only once.
ReleaseCreate(v) ==
  /\ LoggedIn /\ ~Contains(releases, v)
  /\ releases' = Append(releases, v)
  /\ UNCHANGED <<loginStep, failedLogins, sessions, adminCookie, nodeVersion, regEntry,
                 sinceBlock, observed>>

ReleaseDelete(v) ==
  /\ LoggedIn /\ Contains(releases, v)
  /\ \E i \in DOMAIN releases : releases[i] = v /\ releases' = RemoveAt(releases, i)
  /\ UNCHANGED <<loginStep, failedLogins, sessions, adminCookie, nodeVersion, regEntry,
                 sinceBlock, observed>>

\* HandleUpdateCheck offers the release created last, when it is another version than
\* the node's, an older one too; the node takes it.
UpdateCheck ==
  /\ releases # <<>> /\ Last(releases) # nodeVersion
  /\ nodeVersion' = Last(releases)
  /\ UNCHANGED <<loginStep, failedLogins, sessions, adminCookie, releases, regEntry,
                 sinceBlock, observed>>

-----------------------------------------------------------------------------
\* allow of the registration limiter: a window begins with the first request after it.
Registration ==
  /\ \/ /\ regEntry.age > RegWindow
        /\ regEntry' = [count |-> 1, age |-> 0]
     \/ /\ regEntry.age <= RegWindow /\ regEntry.count < RegLimit
        /\ regEntry' = [regEntry EXCEPT !.count = @ + 1]
  /\ UNCHANGED <<loginStep, failedLogins, sessions, adminCookie, releases, nodeVersion,
                 sinceBlock, observed>>

\* Ten minutes pass, in the middle of a request too (which has five seconds).  What is
\* observed reaches back one tick more, or begins anew.
AdminTick ==
  /\ failedLogins' = [a \in 0..LockTime |-> IF a = 0 THEN 0 ELSE failedLogins[a - 1]]
  /\ sessions' = [s \in Sessions |-> IF sessions[s] > 0 THEN sessions[s] - 1 ELSE sessions[s]]
  /\ regEntry' = [regEntry EXCEPT !.age = IF @ > RegWindow THEN @ ELSE @ + 1]
  /\ sinceBlock' = IF sinceBlock > LockTime THEN sinceBlock ELSE sinceBlock + 1
  /\ \/ observed.age < FailWindow /\ observed' = [observed EXCEPT !.age = @ + 1]
     \/ observed' = Unobserved
  /\ UNCHANGED <<loginStep, adminCookie, releases, nodeVersion>>

AdminNext ==
  \/ \E g \in Logins :
       \/ LoginArrives(g) \/ CountRecent(g) \/ CountLock(g) \/ CompareKey(g) \/ LogFailure(g)
       \/ \E s \in Sessions : CreateSession(g, s)
  \/ SessionMissing \/ Logout
  \/ \E v \in Versions : ReleaseCreate(v) \/ ReleaseDelete(v)
  \/ UpdateCheck
  \/ Registration \/ AdminTick

AdminSpec == AdminInit /\ [][AdminNext]_adminVars

-----------------------------------------------------------------------------
\* An attempt is counted before the key is compared and logged after it: in any window
\* the wrong keys that an address has compared go beyond the limit by the number of
\* logins at the same time and by those that could not be logged, which are answered
\* all the same (admin_auth.go:137-145), and no further; with queries that fail and
\* time that passes between the count, the comparison and the log.
GuessesBounded == observed.guesses <= MaxFailed + observed.unlogged

\* "Blocked IPs are rejected for 30 minutes" (admin_auth.go:44): no login comes as far as
\* the comparison of the key while the block of its address lasts, unless it was on its
\* way before.
RejectedWhileBlocked ==
  [][\A g \in Logins :
       loginStep[g] \in {"count", "lock"} /\ loginStep'[g] = "compare" => sinceBlock > LockTime]_adminVars
================================================================================
