# TLA+ models of Kiro WAF

Kiro WAF is a Go web application firewall in two programs. A **client node**
(`internal/client`) sits in front of a backend: it bans, rate-limits, challenges
and proxies requests, and feeds a blocklist to an XDP program in the kernel. A
**master** (`internal/master`) sells and registers licenses in a SQLite database,
answers the heartbeats of the nodes and serves their updates. `internal/shared`
and `cmd/` hold what both use: configuration, license and manifest verification,
installation, diagnostics.

This directory holds TLA+ modules of the parts of the two programs whose
correctness depends on the order of steps, TLC configurations that check them on
small instances, and TLAPS proofs for every instance. Paths below are relative to
`src/`. Each module's header says which code it models; `PROJECT.json` maps every
definition to its source lines.

    tlc -config BanEngine.cfg MCBanEngine      model-check one run
    tlapm BanEngineProofs.tla                  check one module of proofs

Contents: 1 Inventory. 2 Plan. 3 Modules and how they correspond to the code.
4 Runs, bounds and fairness. 5 Proofs. 6 What is not modelled. 7 Divergences.

## 1. Inventory

### Client node

| component | state | operations | interacts with |
|---|---|---|---|
| escalation engine `escalation/engine.go` | map address → level, failure count, three times; RWMutex | GetLevel (read, compute, write), RecordFailure, RecordSuccess, Cleanup | request pipeline calls it; ticker of 5 min cleans it |
| ban engine `ban/engine.go` | map address → end of ban; blocklist file; kernel map | Ban, Unban, IsBanned, CleanupExpired, SyncToXDP | the pipeline bans; the installed `kiro-xdp-sync` reads the file |
| rate limiter `ratelimit/limiter.go` | per address and subnet a log of request times; thresholds; RWMutex | RecordRequest, Allow, IsDoubleThreshold, IsHardBlocked, ResetIP, UpdateThresholds, Cleanup | the pipeline; the heartbeat's plan callback sets thresholds |
| request pipeline `proxy.go` | none of its own | ServeHTTP: ban check, record, hard limit, soft limit, cookie, level, page or backend; three verifications | every component above and below |
| access cookies `cookie/`, `ratelimit/cookie_limiter.go` | secret; per cookie a fixed-window count and a revocation | GenerateCookie, ValidateCookie, ShouldRefresh; RecordAndCheck, IsRevoked, Cleanup | the pipeline |
| challenges `challenge/` | pending tokens with an end; loop counts; anti-replay cache | Issue, Verify, Cleanup; IsLooping | the pipeline; tickers of 30 s and 60 s |
| heartbeat loop and lockdown `loops.go`, `errors.go` | failure count, lock flag | send, receive, fail, unlock; plan callback in `client_waf.go` | master; rate limiter; XDP start |
| connection pool `proxy/connpool.go` | slot channel, idle list, closed flag, counters | Get, Put, Discard, CleanupIdle, Close | used by its tests only; the proxy uses `http.Transport` |
| OTA updater `updater/` | current binary, backup, state | check, download and verify, apply, health check, rollback | master; systemd |
| offline manager and monitor `monitor/` | online/offline, backoff, attempt counts | RecordMasterContact, EvaluateConnectivity, AttemptReconnect | callbacks; alerts |
| traffic statistics `monitor/traffic.go`, `snapshot.go` | ring of buckets, top-K tables | Record, snapshot | admin views |
| XDP control plane `xdp/*.go` | one entry of the kernel map `kiro_config` | botnet controller and config sync: read, change, write back; GeoIP load | kernel |
| XDP filter `xdp/xdp_filter.c` | counts per address and /24, connection tracker, SYN rate per CPU | verdict per packet | kernel maps |
| configuration `config_*.go` | none | precedence file/environment/default, validation | start-up |
| helpers `semaphore.go`, `pool.go`, `hotpath.go`, `gc.go`, `cf/`, `ua/`, `fingerprint/` | buffers | none that others observe | pipeline |

### Master

| component | state | operations | interacts with |
|---|---|---|---|
| license table `db/license*.go` | SQLite rows: plan, status, expires_at, valid_days, key | single statements (renew, revoke, rotate, delete, status) and whole-row UpdateLicense | every handler |
| admin panel `handlers/admin.go` | none | create, activate, suspend, upgrade, edit: read a row, write it back | license table |
| plan manager `plan/` | none | CreateCommunityLicense; CheckExpiry, UpgradePlan, DowngradeToCommunity (only tests call the last three) | license table |
| heartbeat handler `handlers/api.go`, `dbtimeout.go` | none | lookup by key, then by id; refusal; mark expired; log; touch; answer | license table; node |
| registration `handlers/register.go` | ten registrations an hour per address, in memory | register | plan manager |
| admin login `handlers/admin_auth.go` | sessions and login attempts in SQLite | login, logout, brute-force check | database |
| releases `handlers/download.go`, `db/release*.go` | releases, files | update check, publish, download | updater |
| database plumbing, pages, charts, docs | schema | migrations, listings | – |

### Shared

Installer (plan of steps with rollback), license file verification, update
manifests, event log, diagnostics, support bundle, storage, pilot mode,
configuration validation, build information, `pkg/health`, `cmd/`.

### What is hard, and what would make each part correct

* **Read, release, write.** GetLevel, IsBanned, the admin operations, the heartbeat
  handler and the kernel map writers decide from a value read in an earlier
  critical section or statement. Correct: a decision from a stale value never
  undoes a newer one (an escalation, a renewed ban); where it can (a downgrade, a
  revocation), never gives more than was paid for.
* **Three copies of a ban** (store, file, kernel map), appended to without the lock
  and rewritten with it. Correct: a ban is in all three once calls are over; it
  lasts until its end or Unban; Unban takes it out of all three.
* **Limits over concurrent requests.** A request is recorded, checked and served in
  separate critical sections. Correct: a window never lets more through than the
  limit; a flood is always banned; a ban always ends.
* **A row written by many.** Correct: a paid plan is one that was sold, with the end it was
  sold with, in every interleaving of the admin panel, the expiry check and the heartbeat.
* **A network between node and master**: lost answers, timeouts, restarts. Correct:
  a refused node locks within three heartbeats; a good one recovers; an expired
  one falls back to community limits.
* **A limit on each cookie**, kept in fixed windows and forgotten by a sweep. Correct: no
  interleaving of requests, sweeps and time lets more through than two windows allow;
  a revocation lasts as long as it is meant to, and memory is given back.
* **A bounded pool** with a channel for slots and a list for idle connections.
  Correct: no slot or connection lost, shared or beyond the bounds.
* **Files replaced in steps** (updater, installer, snapshots, the configuration). Correct:
  a failure or a crash between any two file operations leaves a good binary or a good
  backup; data goes only with a purge, and what a failed installation has torn is whole
  after one that succeeds; the snapshot on disk is always whole.
* **Modes switched by several goroutines** (offline, emergency, botnet mode, restarts).
  Correct: callers are told the mode the manager is in, a mode goes off only after the
  calm it waits for, failures that go on are reported.
* **Counts and attempts in separate queries** (admin login) and **tokens spent by the
  first answer** (challenges). Correct: parallel attempts exceed a limit by their own
  number at most, and by those that could not be logged; a token earns one cookie.
* **Settings from four sources, validated twice** (node and server configuration).
  Correct: the documented precedence for every combination; a file that is accepted
  loads.

`PROJECT.json` lists each of these hazards at its line, with the properties that
cover it or the reason why none does yet.

## 2. Plan

| # | module | composes | abstract specification or property | state |
|---|---|---|---|---|
| 1 | Escalation, EscalationAudit | Audit extends Escalation | forgiveness, escalation earned, no faster than the cooldown | done, proved |
| 2 | BanEngine | – | bans reach the kernel, last until lifted | done, proved |
| 3 | License, LicenseSales | Sales extends License | paid plans end, and are as they were sold | done, proved |
| 4 | Heartbeat, HeartbeatAudit, HeartbeatFaults | extends License; Audit and Faults extend Heartbeat | refused nodes lock, good nodes recover | done, safety proved |
| 5 | ConnPool | implements LeasePool | LeasePool: leases, capacity, ownership | done, proved, with the refinement |
| 6 | RequestPipeline | limiter and bans in one module | soft limit, flood ban, end of a ban | done, safety proved |
| 7 | AccessCookie | cookies and cookie limiter | fewer than 2×limit in any window per cookie; a revocation lasts two windows | done, safety proved |
| 8 | Challenges | token store and loop detector | a token earns one cookie, for its address | done, proved |
| 9 | BinaryUpdate, UpdateLoop | three ways of replacing a binary; the loop | a good copy is kept, a rollback is exact, no announcement is lost | done, proved |
| 10 | OfflineMode, HealthMonitor | – | told the mode, reported once, backoff, alerts | done, proved |
| 11 | KernelConfig, GeoIPLoader | botnet controller, config sync, filter; country maps | calm before off, a refresh catches up | done, proved |
| 12 | TrafficGuard, Snapshots | – | bans leave a snapshot last | done, proved; of TrafficGuard its types |
| 13 | MasterAdmin | login, releases, registration limiter | guesses are bounded | done, proved |
| 14 | Installer | – | nothing goes without a purge, success is whole | done, proved |
| 15 | NodeConfig, RuntimeConfig | sources of a node's settings; files of a server | documented precedence, accepted files expand | done, proved |
| 16 | SignedUpdate, XDPFilter | download and verification of a release; checks and counts of the filter | a mixture of downloads never passes; limits hold where counts do not race | done, proved |
| 17 | Visitor, Node | 6, 7, 8, 1; and 3, 5, 9 to 16 | every part keeps its types, and behaves as it does alone | done, proved |
| 18 | license files | grace period, revocation list | – | later |

Every safety property that a run finds to hold is a theorem, type invariants included; what
only the runs show is liveness (section 5, *Model-checked only*).

## 3. Modules

**Escalation** – one address of the escalation engine; entries of the Go map never
influence each other. `exists`, `level`, `failureCount` and three ages are the
`IPState`; a time is its age, saturating where the code tells larger ones no longer
apart (`FailureAgeCap`, `EscalationAgeCap`, `ActivityAgeCap` and `FailureCap` are
derived from the parameters and lose nothing). RecordFailure, RecordSuccess and
Cleanup hold the write lock and are one action each. GetLevel is three:
`CopyState` under the read lock, `DecideLevel` with no lock, `StoreLevel` under the
write lock. **EscalationAudit** adds history variables: failures since the last
raise, the level then reached, its age, and which GetLevel calls it overtook.

**BanEngine** – `store`, the blocklist `file` as a set of lines, the kernel map `xdp`.
Ban is `BanStore` under the lock, then `BanAppend` without it; Unban and
CleanupExpired hold the lock (`writer`) while they truncate the file and write it
line by line; each ends with SyncToXDP outside the lock. The sync is external: the
command that the master's install script puts on the node reads the file and only
adds keys. An append during a rewrite lands at the end of the file while the
rewrite continues at its own offset: the outcomes, among them a line that is the
rest of another (`Torn`), are those of `AppendOutcomes`. A rewrite may cut the input
of a running sync (`SyncCut`). Faults: a failing append, rewrite or sync, a sync that
is killed after its second. `Restart` loses the store and keeps file and map.

**License** – one row of the table: plan, status, end (`expires`, 0 for the zero time)
and whether a renewal lasts (`days`). The operations of the admin panel and of the
plan manager that read a row and write all its columns back are a `Read` and a
`Write` (or `WriteFails`) of a goroutine; those that are one SQL statement are one
action. Rotating the key matters only in that the node does not know the new one.
**LicenseSales** adds the record of what was sold: each paid plan with the day on which it
ends, from the creation of the row, the upgrade form and renewals.

**Heartbeat** – extends License with the handler (`Lookup`, `Mark`, `AnswerHeartbeat`:
one step per group of statements that reads or writes the row), the answer on its
way, and the node: `SendHeartbeat`, `ReceiveSuccess`, `ReceiveFailure`, the failure
count and lock of `LockdownManager`, and the plan callback with the soft threshold and
the XDP start. Faults: a lookup that times out, a fallback search that fails, a node
that gives up, a handler whose client hung up, a node restart. The node sends an
empty fingerprint, so the integrity check of the handler never applies.
**HeartbeatAudit** counts the heartbeats that began and ended while the master
refuses the node. **HeartbeatFaults** labels each step as a fault, a restart or neither, so
that a hypothesis about faults does not take in refused heartbeats, which change the
node's state in the same way as lost ones.

**AccessCookie** – the cookies of one visitor. `left` is the rest of a cookie's life; `counter`
and `revoked` are the two maps of the limiter, times as ages that saturate where the
code stops telling them apart. A request takes four steps, one per lock section or
validation: `IsRevoked`, `ValidateCookie`, `RecordAndCheck` (which rejects, revokes or
passes) and `RefreshCookie`; a cookie may be revoked, swept or expire between any two.
The nonce makes every cookie a new value, so a value may be used again once it has
left no trace (`Unused`). Address, TLS fingerprint and signature are taken to be right: a
wrong one ends the request at `ValidateCookie` like an expired cookie. `passed` counts
what a cookie let through, per age; `banished` is the history of its revocation.

**ConnPool** – the channel as a count of slots and a queue of blocked goroutines, the
idle list, the atomic counters, Close in its steps and the janitor. A section under
the mutex or an operation on the channel is one action. **LeasePool** is what a pool
promises: a connection belongs to one caller, to the pool or to nobody, and changes
hands only by being opened, lent, returned or shut, within both bounds. ConnPool
implements it under `owner <- [k \in Conns |-> Owner(k)]`.

**RequestPipeline** – page requests of one visitor through ServeHTTP, one action per
call to the limiter or to the ban engine, as each locks for itself. The window is a
set of records with ages; `Tick` ages and prunes. Whether a cookie is valid, what level
the escalation engine says, whether the loop detector spares the visitor and whether
a solution is right are free choices. Two guards of the code are kept where they
restrict a choice: the loop detector serves the backend only within the soft limit,
and level 0 always does. Plan changes are in Heartbeat, not here: thresholds are
constants. The subnet window is recorded by the code but never asked (`AllowSubnet` has
no caller) and is left out.

**Challenges** – the token store (`chStore`: address, difficulty, end) and the loop detector
(`chLoops`: ages of the pages sent, per visitor and kind). A page request is asked for,
looks at the detector, records itself and issues a token, each under a lock of its own;
an answer takes its token out of the store (`Take`) and is judged afterwards (`Judge`). Two
sweeps and time. Hashes and fingerprints are right or wrong by choice.

**BinaryUpdate** – the files of a binary and its backups, written by the node's updater
(`Ota…`), by `kiro-cli update` (`Cli…`) or by the shared apply with its pending record
(`Pending…`). Every open, copy, rename and health check is an action; each may fail, and
`UpdateCrash` ends the process between any two. An image in `Working` comes up, if it is
in time. `backupDir` says whether the directory of the updater's BackupPath exists, which
nothing in the updater creates. **UpdateLoop** – the loop around it: a ticker, a channel with room for one
signal, the check, whose result is only logged.

**OfflineMode** – contacts of the heartbeat and of the reconnect loop, each of which takes
the mutex for the state and announces the change after it, for as long as it takes; the
evaluation that goes offline, with the callback under the mutex; the backoff. `overtaken`
is the history of an offline period that began during an announcement. **HealthMonitor** – one goroutine:
check, decide, cool down (`slept`), restart, check of the kernel program, reload; three
failure trackers whose window starts with their first failure.

**KernelConfig** – the entry of the kernel map, written whole by the config sync at startup
and by the botnet controller from a copy read earlier, while the filter switches the
mode on in place; a counter of new addresses per window; the SYN cookie key. `Fits`
compares the bytes that Go writes with the size that C gives the struct.
**GeoIPLoader** – networks and countries written entry by entry, with a failure ending
each loop; the refresh does both loops again.

**TrafficGuard** – analyzer window, emergency mode and attack detector, called by goroutines
that first look at the rate and then act. **Snapshots** – capture, cuts until the size
fits, temporary file, rename; a crash at any point.

**MasterAdmin** – an admin login as its queries (count of recent failures, block, key
comparison, log, session), several at once, each of which may fail; `observed` counts the
wrong keys that were compared since some moment of the last window, and the failures that
could not be logged; sessions and logout; releases and the answer to an update check; the
registration limiter. **Installer** – a plan of steps for an
operation, taken one by one; a step that fails ends it, and the next operation starts
from what is on disk, on the host and under an install root. The configuration comes from
where an earlier installation put it, which is the default, or from elsewhere. Commands
act on the host; `kiro-agent`, which some of them call, is not in this repository.

**NodeConfig** – a start of the node from a file and an environment, both any of their
kinds: `LoadFromYAML`, `ApplyEnvOverrides`, `ApplyDefaults` and `FieldErrors` are the four
passes over the settings; then plans that change limits. `Numbers` and `Texts` name the
settings a run follows; `named` are the numbers whose variable is set, to whatever. **RuntimeConfig** – a configuration file of a protected server as
a record of its sections; validation, expansion with defaults and the second
validation as operators of the same names as the functions; the actions are a load and
`mode set`, with the crash between truncating and writing.

**SignedUpdate** – a release on its way into a directory of the node: each file goes through
a temporary file and a rename (`CopyURL`, `RenameTemp`); an answer may be another one at
each download, cut off or missing (`GiveUp`), and what an earlier fetch left stays. Then
`VerifyFile` and, artifact by artifact, `VerifyArtifactFile`. A draft is a payload that may
or may not pass validation, `SignManifest` signs those that do; `Edited` are manifests
changed after that. A content is its own checksum. A caller that gives no version of its own
(`CurrentVersion`) is not kept from downgrades.

**XDPFilter** – a packet is a record of what the checks look at; `Rules` lists them in the
order of the program, and the first that applies decides. What is left is counted by
source and by network, in `rateState`, which all CPUs share without a lock: `Lookup`,
`Insert`, `Restart`, `Zero`, `ReadCounts`, `WriteCounts` and `Judge` are what a CPU does one
after the other, and each increment of `WriteCounts` may or may not overwrite what
another CPU wrote since the read. The kernel may evict any entry. `passedAlone` is a
history of the packets that met no other CPU in the check of their key.

**Visitor** and **Node** compose parts that share no variable. What one part would tell
another is a free choice in the other, so no step of one part can be disabled, enabled
or seen by another: every behaviour of the whole, restricted to the variables of a part,
is a behaviour of that part, and each property is about one part. The composition
therefore lets one part move, chosen by `focus` in the initial state, from each of its
initial states; the others rest. That a part in focus behaves as it does alone is proved
(`VisitorIsEachPart`, `NodeIsEachPart`), so what the proofs say of a module and what the
runs check in the composition are the same statements. What is shared in the code (the ban
store between the pipeline and BanEngine, thresholds between plan callback and limiter) is
named in the modules that take it as a choice. **MCVisitor** and **MCNode** only choose
bounds and inputs for TLC, among them the files (`ServerDocuments`) and policies that are
tried; the proofs are about any set of files of the documented form.

## 4. Runs

| run | module, configuration | checks |
|---|---|---|
| `escalation_audit` | MCEscalationAudit, EscalationAudit.cfg | ForgivenNoFaster, EscalationEarned |
| `escalation_stale` | MCEscalationAudit, EscalationStale.cfg | OneLevelPerCooldown – violated |
| `ban` | MCBanEngine, BanEngine.cfg | BansReachKernel, BanLastsUntilLifted |
| `ban_unban` | MCBanEngine, BanUnban.cfg | UnbanReachesKernel – violated |
| `heartbeat` | MCHeartbeat, Heartbeat.cfg | TypeOK, PaidPlanEnds, RefusedNodeLocks |
| `heartbeat_live` | MCHeartbeatLive, HeartbeatLive.cfg | OverdueNodeGoesFree, NodeRecovers |
| `heartbeat_suspended` | MCHeartbeatLive, HeartbeatSuspended.cfg | SuspendedNodeStops – violated |
| `heartbeat_timeout` | MCHeartbeatLive, HeartbeatTimeout.cfg | TimeoutIs503 – violated |
| `visitor` | MCVisitor, Visitor.cfg | VisitorTypesOK, SoftLimitHolds, FloodIsBanned, BurstBounded, EarnedOnce, BanEnds, RevocationHolds, EntriesForgotten, Forgiveness |
| `node` | MCNode, Node.cfg | NodeTypesOK, SlotsAccounted, EveryConnectionOwned, ImplementsLeasePool (pool); GoodCopyKept, RolledBackExactly, AnnouncementKept, AcceptedAsSigned (updates); ToldTheMode, ReportedOnce, BackoffRespected, AlertNotOverdue (offline, monitor); CalmBeforeOff, RefreshCatchesUp, LimitHoldsAlone (kernel); BansLeaveLast (traffic); PaidAsSold (license); GuessesBounded (admin); KeptUnlessPurged, SuccessIsWhole (installer); RunsAsDocumented, AcceptedExpands (configuration) |
| `kernel_config` | KernelConfig, KernelConfig.cfg | ConfigTaken – violated |
| `admin_block` | MasterAdmin, AdminBlock.cfg | RejectedWhileBlocked – violated |

**Bounds and why they are enough.**
Escalation: two goroutines inside GetLevel, so that one overtakes the other;
Threshold 2 lets a count be short of an escalation; ages saturate, so time is not
bounded. In `visitor` it has one goroutine, Threshold 1 and a cooldown of two ticks, for
`Forgiveness` alone.
BanEngine: three goroutines (a ban, a rewrite, the sync of a third call) and two
addresses (one in the rewrite, one appended meanwhile), all five operations; nothing
else is bounded. License and Heartbeat are checked together: one goroutine
that writes back a stale copy beside the single statements and the handler's own,
which can fall between any two of its steps; two plans; `MaxNow` 2 – a license is
sold, ends, and is renewed. In `node`, for `PaidAsSold`, two goroutines write stale copies
over one another, through three days. The edit form is the one operation no run takes: it may
give any plan with any end (section 7), and the proofs, which hold for any set of
operations where they do not say otherwise, cover it. AccessCookie: two requests at
once and two cookies, so that one is exchanged for the other; windows of two ticks, so
that an interval straddles two; a cookie lives five ticks, longer than a revocation
of four; limit 2. ConnPool: three callers for two slots, so that one waits; one idle place for two slots,
so that the list overflows; three connections, so that a new one differs from a doomed
one.
RequestPipeline: two requests at once, soft limit 2, hard limit 3, four records (one
more than the hard limit: two requests may both pass the ban check before either is
counted), a window of one tick and bans of two. The bound on
records stops no request short of a ban: the hard limit minus one and one per
request in progress is all there can be.

Challenges: two goroutines and two visitors for one token, so that both answer with it;
a loop limit of one page, and lives of one and two ticks on either side of the solving
times. BinaryUpdate: three images, one of which does not come up, so that a rollback can
reach past an update that failed. OfflineMode: a threshold of three ticks, announcements of
any length, and a backoff of 1, 2, 4, 5 up to its cap; five attempts are one more
than reach the cap. HealthMonitor: two failures to a restart, two restarts to an alert
in a window of four, so that two windows fit side by side. KernelConfig: a threshold of
two (half of it is one), a cooldown of two polls. GeoIPLoader: two networks, two countries
and one code that is not one. TrafficGuard: two goroutines, rates below and above all
factors, limits of nothing and two. Snapshots: two entries of a kind and room for one
after the overhead, so that all kinds are cut. MasterAdmin: two logins at once, a limit
of two failures in one tick, a block of two, and one failure that cannot be logged
(`MaxUnlogged`; each weakens the bound by one). Installer: one binary, the agent, which is
the one that can be in use; a host that is empty or already has a configuration. NodeConfig:
one rate limit, one interval and one URL, with absent, zero, negative and positive values
in file and environment, and a URL of its own in each: a setting is never read to compute
another one. RuntimeConfig: up to two pools and two sites; the other
sections vary one at a time around a plain file, as each is validated and filled in by
functions that see nothing else. SignedUpdate: six drafts, of which one is older, one has two artifacts that end in the
same file, one an artifact that replaces the manifest; three edited manifests and four
sets of options. XDPFilter: two CPUs, which is what a lost increment needs; packets of one
source reach the counts, one of each other kind the checks before them; limits of one
and two packets, of one SYN, and of one packet of a network; `MaxClock` 1, one change of window, where one CPU can be late. All these parts are
finite without further bounds, but for `MaxAttempts`, `MaxKeys`, `MaxSamples`, `MaxEntries`,
`MaxUnlogged`, `MaxPages` and `MaxClock`, named in the modules. `node` has some 783,000
states, half of them of MasterAdmin.

**Deadlock** is checked except in `node`: a pool that was closed and got everything back
accepts nothing more, and an updater, a loop or a command may be done.

**Fairness.** Escalation: a GetLevel call that was begun ends (a goroutine is
scheduled), the cleanup goroutine of `client_waf.go` has a ticker, time passes; no
request is ever forced, and the assumption that the visitor stops failing is in the
property. Heartbeat: the loop of `loops.go` ticks for ever and reads its answer, the
handler's goroutine runs; no admin operation, day or fault is forced, and a property
that needs faults or restarts to end says so. RequestPipeline: a request that was
accepted is served to its end, and time passes; nothing makes the visitor send a
request or stop sending. AccessCookie: the ticker of the sweep and time; that the
visitor stops is the hypothesis of EntriesForgotten. All are weak fairness: nothing in the code depends on an
action that is enabled only now and then.

**What the passing runs show.** No interleaving of goroutines loses a ban, lifts a
renewed one, forgives an address faster than its cooldown unless a stale store
overtakes an escalation, or lets one series of failures pay for two levels; every
address that behaves is forgiven. No interleaving of admin operations makes a paid
plan perpetual, or gives a plan that was not sold, or a day more than was sold. Within three heartbeats a
refused node locks; a good one recovers, after any number of refusals and losses; an overdue one is on community limits or
locked. The pool loses and shares nothing. A window lets fewer than SoftThreshold
requests through, a flood is banned, and the ban ends. A cookie lets fewer than twice
its limit through in any window, nothing for two windows after it was revoked, and
the limiter forgets what nobody uses. A token earns one cookie however many answers race
for it. Wherever an update fails or is cut off, a binary that has worked is installed or
backed up (with a directory to put the backup in), and a rollback puts back what was there.
Each offline period is reported once, and told unless it overtakes an announcement; restarts that go on failing raise an alert; botnet mode ends after a calm
only; parallel logins exceed their limit by their own number and the failures that could
not be logged at most; an uninstall keeps the data it says it keeps, whatever fails, and an
installation that succeeds repairs what others tore.
Every start of a node from any mixture of sources has the documented settings, but for
variables that are passed over, and every server file that is accepted, with its routes
named, loads. A release is accepted only if
the directory holds it whole, as it was signed. Packets that meet no other CPU never pass
beyond a limit of the kernel filter.

Every property has a mutant in `PROJECT.json`: a plausible slip in a definition that
models code (they stand beside it, marked *mutant*) under which TLC finds the property
violated.

## 5. Proofs

TLAPS checks the following for every value of the constants that satisfies the named
assumptions of the modules. All are safety properties, each proved by an inductive
invariant whose conjuncts are definitions of their own; TLC has checked the invariants on
the instances of section 4 before. `PROJECT.json` lists the theorems.

**BanEngineProofs** – `TypeCorrect`, `BansReachKernelAlways`, `BanLastsUntilLiftedAlways`.
`LockInv` says who holds the lock at which step, `RewriteInv` what a rewrite has still
to write (the live entries cannot change while it holds the lock), and `DeliveryInv`,
which `BansReachKernel` needs to be inductive: without a fault, a live address is in
the file or on its way there (an append or a rewrite under way), and in the kernel map
or on its way there (a goroutine that has still to sync). The action property
follows from the type invariant alone, action by action.

**EscalationProofs** – `EscalationTypes`, `EveryEscalationEarned`, `NeverForgivenFaster`.
`PaidInv` is what "no faster than the cooldown" comes to in every state: the levels that
were taken back since the last escalation are paid for by the time between it and the
last change, in the entry and in every copy that a goroutine holds and that is not older
than the escalation. `CountInv` and `StoreInv` say that the engine counts no failure
twice and that a call stores only after it read the clock. The division in GetLevel is
reduced to multiplication by `DivFacts`.

Each module of proofs also has the type invariant of every part that it is about, as a
theorem of its own (`…Types`, `TypeCorrect`): these bound the counts, queues and ages that
a long run could drive up, and say where a goroutine can be.

**ConnPoolProofs** – `PoolTypes`, `SlotsAreAccounted`, `ConnectionsAreOwned`,
`PoolImplementsLeases`. `CountInv` equates the channel and the counter with the
cardinalities of the callers between acquire and release; `QueueInv` says that the queue
of the channel holds every blocked caller once, and no one while a slot is free;
`RoomInv`, that whoever dials has found the idle list empty of a place for it: those who
have or dial a connection and the idle ones never exceed MaxTotal. The refinement maps
each connection to its owner and shows each action to be an action of LeasePool or a
stutter; the lemmas before it say what the sequences of idle connections and waiting
callers become when one is appended, taken or removed.

**HeartbeatProofs** – of License, `TypeCorrect` and, for operations without the edit form,
`RowStaysSound` (`PaidPlanEnds`). `CopiesSound` extends it to the copies that goroutines hold: a
copy is stale, but it once was the row. Of Heartbeat, `HeartbeatTypeCorrect` and `RefusedNodeIsLocked`: `Audited`
ties the audit's count to the node's, since a call that began after the refusal can only
fail, and the call that was under way then ends before the first that is counted.

**VisitorProofs** – the request pipeline: `RequestTypes`, `SoftLimitAlwaysHolds`,
`FloodIsAlwaysBanned`. `OwnRecords` keeps records of concurrent requests apart; `UnderLimit`
counts requests that have been allowed but not served along with those that have;
`FloodCovered` says that the ban covering a full window ends no sooner than the window
does. Cookies: `CookieTypes`, `RevocationAlwaysHolds`, where `Remembered` says that the limiter
keeps a revocation as long as the history does, whatever the sweep removes; and
`BurstsStayBounded`, where `BurstInv` splits what a cookie let through at the beginning of
its counter's window: the count covers what came after, and the rest, which belongs to
windows before, is below the limit. Challenges: `TokensEarnOnce`, from `Unspent` (a token in
the store has earned nothing and no answer is being judged for it) and `JudgedOnce`.
`ChallengeTypes`: the pages that the loop detector remembers of a visitor are in the order in
which they were sent (`InOrder`), which is why dropping the outdated ones drops a prefix
(`FreshPages`). `VisitorIsEachPart` and `VisitorTypes` carry all this over to the composition; the
escalation engine, an instance there, gets its type invariant once more (`EngineInv`: a call
that is about to store has read the clock).

**UpdateProofs** – BinaryUpdate: `UpdateTypes`, `GoodCopySurvives`, `RollbackIsExact`; `UpdateInv`
says for each of the three ways of replacing a binary, and each step of it, which file
holds the old binary. UpdateLoop: `NoAnnouncementLost`. SignedUpdate: `AcceptedIsSigned`;
`SignedInv` says how far the directory agrees with the manifest that was verified, and
`OlderIsOrder` that the comparison of versions is a strict order on versions of any length,
without which a chain of updates could go down. Installer: `DataIsKept`; `InstallInv` bounds the
steps that are left by those that an operation may plan at all. `FinishedIsWhole`: a file of
the plan is whole or its copy is still to come (`Occurs`). RuntimeConfig:
`AcceptedFilesExpand` (`AcceptedExpands`), for every file of the documented form and not only
those that a run tries. The expansion is two recursive functions, one that joins the backends
of all sites and one that lists each backend once; `FlattenHolds` and `IndexHolds` say by
induction over their argument what they return, `NumberedPools` that the pools made of the
list are valid and each has a backend of its own, and `PromisedInServerMode` that `mode set server` keeps what
the file promised.

**NodeProofs** – the remaining parts of a node, the login and the sales:

| theorem | argument |
|---|---|
| `CallbackToldTheMode`, `OfflineReportedOnce` | `TellsMode`: whoever is online was told so or somebody is about to tell it, and whoever went offline while nobody announced was told that; a report is owed for the period under way and for each caller that announces one |
| `BackoffIsRespected` | `CalculateBackoff` is shown to exist and to double up to its cap; `Respected` says which attempt the wait is for at each step of the loop |
| `RefreshCompletes`, `GeoTypes` | `GeoInv`: a refresh knows the whole list, and its loop has blocked what it has passed |
| `SnapshotKeepsBans`, `SnapshotTypes` | `SnapInv`: what is handed to the writer is lean and fits |
| `OffOnlyWhenCalm` | `CalmInv`: the controller's own calm is never longer than the real one, across the read and the write of the map entry |
| `AloneUnderTheLimit` | `Counted` and `JudgedOn`: a packet that met no other CPU is in the count that judges it, or that count is beyond the limit anyway |
| `AlertInTime` | `RestartInv`: failures that the tracker no longer counts are older than its window and no more than one window takes |
| `NodeRunsAsDocumented` | `ConfigInv` follows a setting through file, environment, defaults and validation |
| `GuessesStayBounded` | `GuessInv`: an attempt that was let through and is not logged yet counts like a failure, and one that cannot be logged weakens the bound by one |
| `PaidPlansAreSold` | `CopiesSold`: the row, and every copy that a goroutine holds, has a plan and an end that were sold together, or is free; no operation but the edit form gives others |
| `OfflineTypes`, `MonitorTypes`, `KernelTypes`, `TrafficTypes`, `AdminTypes`, `NodeConfigTypes`, `XDPTypes` | the type invariants, where needed with a part of the invariants above |
| `NodeIsEachPart`, `NodeTypes` | a step of the composition is a step of the part in focus and leaves `focus` alone; so each part keeps what is proved of it |

**InductionLemmas** – an induction theorem that takes a predicate cannot be instantiated by
the provers installed here. An induction over a *set* can: `SetInduction` says that a set with 0 and
the successors of its members holds all natural numbers, from the library's theorems that
`<` is well-founded. With it the module shows that the recursive functions by which
`SumFunction`, `SumFunctionOnSet` and `ReduceSet` are defined exist for finite sets of natural
numbers and do not depend on the order of the elements, and what a sum does when one value
grows or all of them shift by a tick. `BurstsStayBounded`, `GuessesStayBounded`,
`BackoffIsRespected` and `AcceptedFilesExpand` rest on it.

**Assumptions beyond types and distinct values.**

* The threshold, window and cooldown of Escalation, the threshold and window of AccessCookie,
  MaxTotal and MaxIdle of ConnPool (with MaxIdle no more than MaxTotal, as `NewConnPool` sees
  to), the thresholds and periods of HealthMonitor and OfflineMode, and the limit of
  MasterAdmin are positive.
* `Window < BanTime` of RequestPipeline (60 s and 900 s by default), for the flood ban; the
  soft limit does not need it.
* `FailWindow <= LockTime` (10 and 30 minutes in `admin_auth.go`).
* `"Update" \notin Ops` in `RowStaysSound` and `"Update" \notin LicenseOps` in
  `PaidPlansAreSold`: the edit form may set any plan with any end (section 7).
* `ReconnectInterval <= MaxReconnectBackoff` in `BackoffIsRespected`: the defaults are 30 s and
  5 minutes. Nothing in the code enforces it; with a longer interval, which only the first
  wait is allowed, a failed answer that belongs to an earlier period would shorten that wait.
* The targets of Installer are distinct: no binary lies where data or the configuration do.
* A manifest of SignedUpdate that was changed no longer has the payload its signature is for.
  Versions are sequences of numbers and lists of artifacts are sequences; no file is none of
  the contents.
* The files of RuntimeConfig have the sections, and each setting the type, that the decoder gives
  them (`RuntimeConfigAssumption`): numbers are any integers, names and backends are told apart by
  any natural numbers, lists are of any length, and a setting with a few meanings has one value
  for each. A file that cannot be decoded is `wellFormed = FALSE`.
* The parts of `Node` that begin in one of many states rest in one of them, and its license table
  has the constants of License under names of its own (`NodeAssumption`).

**Model-checked only.** Liveness (`Forgiveness`, `OverdueNodeGoesFree`, `NodeRecovers`, `BanEnds`,
`EntriesForgotten`) is out of the prover's reach; every other property of the passing runs is
also a theorem. The proofs leave open what the induction over a set does not reach: recursion
over data other than numbers, sequences and finite sets of numbers. The properties that a
run finds violated (section 7) are shown by their counterexamples.

## 6. Not modelled

* **XDP filter**: the parsing of bytes, the hash of a SYN cookie, the packet that answers a SYN,
  statistics. A source has one connection; the map of the counts is never full but may
  lose any entry.
* **Signatures**: license files, the revocation list and machine fingerprints are pure checks
  on key material; only tests call most of them. Manifests are modelled, their bytes are not.
* **Cookies**: `hmac.go` is the fallback that `RunWithConfig` never selects.
* **Challenges**: `antireplay.go` is wired to nothing; page templates.
* **Monitor**: the sending of alerts, the plan enforcer (one comparison with a table) and
  the readers of kernel counters.
* **Configuration**: the provider file beyond being well formed; ports, paths and networks
  beyond being valid; the boolean settings and lists of the node.
* **Master**: opening and migrating the database, charts, listings, file serving, the plan
  history, and the periodic expiry checker, which no program starts.
* **Input, output and text**: templates, documentation pages, support bundles, diagnostics
  other than `mode set`, event log, pilot reports, logging, TLS fingerprints, user agents,
  buffer reuse, the garbage-collector setting, shell scripts except `kiro-xdp-sync`.

Functions that no program calls are modelled where their component is a state machine
that its tests and comments describe (Unban, CleanupExpired, ConnPool, the updater, the
health monitor, the traffic guard, snapshots, the offline manager) and otherwise left out
(`SetSuspended`, `SetCachedPlan`, `AllowSubnet`, `CleanExpiredSessions`).

## 7. Divergences found while modelling

Shown by a run (see `findings` in `PROJECT.json`):

1. Unban triggers a sync that never removes a key from the kernel map
   (`ban/engine.go:94-105`, install script 962-980): `ban_unban`.
2. A suspended license answers `lock=false`, which the node counts as success; the comment
   says the client stops traffic (`handlers/api.go:133-142`, `loops.go:187`):
   `heartbeat_suspended`.
3. A database timeout is compared with `==` although the error arrives wrapped, so it is
   answered 500 or 200 and not 503 (`handlers/dbtimeout.go:48`): `heartbeat_timeout`.
4. A GetLevel call that copied the entry before an escalation stores its result after it
   and takes the escalation back (`escalation/engine.go:89-103`): `escalation_stale`.
5. The serialized XDP configuration has 52 bytes, the value of the kernel map 56, since
   the C struct begins with a 64-bit field and is padded: no update is taken
   (`xdp/config_sync.go:133`, `xdp_filter.c:140`): `kernel_config`.
6. A blocked address is let in again once one of its failures is older than ten minutes,
   although the comment says that blocked addresses are rejected for thirty
   (`handlers/admin_auth.go:44-58`): `admin_block`.

Seen, with no run, because no text of the repository says what should happen or the
case is outside a module's assumptions:

* The store of bans is lost at a restart while file and kernel map stay, and no program
  calls CleanupExpired: an expired ban stays in the kernel until someone removes it.
* `ConnPool.Put` reads the closed flag before the mutex: it may shelve a connection after
  Close has emptied the list, and nothing closes that one.
* A plan limit of 0 means unlimited (`models.go:88`), but `UpdateThresholds` ignores zeros: an
  enterprise node keeps the limit of its previous plan. XDP, once started, is not
  stopped after a downgrade.
* Renewing a license with `valid_days` 0 gives it an end that has passed.
* The edit form can make a paid plan perpetual or give one that nobody bought: `PaidPlanEnds`
  and `PaidAsSold` are about the other operations (`AllButEdit`).
* `UpdateLicense` writes every column of a row that was read earlier (`db/license.go:148-167`):
  a downgrade, a suspension or a revocation made in between is undone. A plan that a
  downgrade took comes back that way, with the end it had (`PaidAsSold`).
* The heartbeat handler marks a license expired by its id alone (`license_ctx.go:71-80`), so a
  revocation made since the row was read is overwritten, and the node is served again on
  community limits; `RefusedNodeLocks` counts refusals in a row.
* At level 4 failures are counted but pay for nothing; after the level has fallen, one
  escalation may be paid with them (`escalation/engine.go:131`), never two.
* `ValidateClientConfig` looks at six of the thirteen numbers: a negative
  `client.escalation_cooldown` in the file is accepted, with which no level ever cools and
  each sweep forgets everybody; so is a negative threshold, lifetime or cookie limit. (A
  zero means the default; the environment cannot set zero or less.)
* A revoked cookie is forgotten after two windows (120 s) and lives 300 s; tests accept it.
* In the second half of its life every use of a cookie earns a fresh one with a count of
  its own, also a request that was counted just before the cookie was revoked.
* `VerifyHold` compares with a fixed time rather than the configured seconds.
* A transparent challenge is judged by the time and the fingerprint, not by its solution; a
  token is bound to its address but not to the kind of challenge it was issued for.

Node, monitor and updates:

* `ApplyUpdate` takes any error that says "does not exist" for a fresh installation
  (`updater.go:369-375`). When the directory of BackupPath is missing, that is the error of
  opening the backup (409): the binary is replaced with no backup, and a rollback finds
  nothing. `GoodCopyKept` leaves this case out.
* When the health check fails and the rollback fails too, `ApplyFileWithRollback` returns
  `RolledBack: true` with the new artifact in place, and the error of the rollback
  (`update/apply.go:78-79`); after a copy that failed it does not look at the rollback at all
  (73-74), where nothing had been replaced. `RolledBackExactly` leaves the first answer out.
* The offline manager tells "online" after its mutex is released and after a report and a
  sync without a deadline (`offline.go:151-165, 304-341`). When the next offline period begins
  before that, "online" is what the callback hears last. `ToldTheMode` leaves that period out.
* The updater, the health monitor, the traffic guard, the snapshots and the offline manager
  are built by no program; nothing reads a snapshot back.
* The window of a failure tracker starts with its first failure, so that two windows may
  fill up side by side; the goroutine sleeps through a cooldown and checks nothing then.
* The limit that the emergency mode restores is the one it was made with, also after a plan
  has changed it; a strict mode that could not be switched on is not tried again and is
  never switched off.
* `performUpdateCheck` only logs, and always asks for the version the process was built
  from. The latest release is the last one created, so an older version can be offered.
* `kiro-cli update` removes its `.bak` after a good health check, while the deployment guide
  (`docs/deployment.md:265-272`) rolls back from it.
* The botnet controller reads its counters in one of the two forms that `bpftool` prints;
  in the other the first byte is lost. A mode that the filter switches on and off between
  two polls is not seen.

Kernel filter and signed updates:

* `tests/property/xdp_rate_ip_test.go:4-6` says that packet `per_ip_pps` + 1 of a window shall be
  dropped, and tests a simulation on one CPU. On several, two increments may leave one in
  the map (`xdp_filter.c:909`), so that more packets pass, and a count written late may
  carry the old window into the new one, so that fewer do. `LimitHoldsAlone` states what
  remains.
* By default the connection tracker is on and SYN cookies are off
  (`cmd/kiro-client/main.go:81-82`), but only a valid SYN cookie enters a connection into the
  tracker (`xdp_filter.c:1179-1196`): each data packet of an ordinary connection would be
  dropped (1221-1241), were the settings taken (divergence 5). With cookies on, each ACK
  that is no fresh cookie is dropped (1200-1203), also of connections in the tracker.
* `versionParts` cuts suffixes, so that 1.0.2-rc1 is no older than 1.0.2. The least version of
  the agent and the policy bundle are checked for being there and used nowhere. A crash
  leaves a temporary file behind. No program calls `FetchManifestAndArtifacts`.

Master:

* A failed login that cannot be logged, because the client hung up or the database was busy,
  is answered 401 all the same (`handlers/admin_auth.go:137-145`): such guesses are not
  bounded, and `GuessesBounded` adds them to its bound.
* `CleanExpiredSessions` has no caller: expired sessions stay in the table. `licenseKey[:8]`
  needs a key of eight characters.

Installer and configuration:

* A binary in use cannot be opened for writing: installing over a running agent fails at
  that step. The rollback of a step is text that nothing carries out.
* With `--run-steps` the commands of a plan act on the host also under an install root: they
  enable or disable the host's service, and the agent's dry run puts its snapshot of the
  firewall into the host's state directory. `KeptUnlessPurged` is about the host when
  commands are not run.
* `kiro-cli install apply-lab` without `--config` copies `/etc/kiro/kiro.yaml` onto itself
  (`cmd/kiro-cli/main.go:209`, `installer.go:376`): opening the target truncates the source
  (530-540), and the configuration ends empty with success. `KeptUnlessPurged` counts it
  among the installations that replace a configuration, `SuccessIsWhole` leaves it out.
* Entries of the admin list must be networks (`config_validate.go:69`), but the escalation
  engine and the lockdown look the bare address up in the list
  (`escalation/engine.go:42,61`): an accepted list never matches
  anybody, though `docs/configuration.md:76` promises a bypass.
* The environment overrides a number only if it is positive (`config_load.go:186-235`),
  although `docs/configuration.md:9,133` let every variable that is not empty win over the
  file: `RunsAsDocumented` leaves such variables out. A list of admins that is set to
  separators only empties the list. `xdp_blocked_countries` is read and used nowhere.
* A hard limit below the soft one is accepted, and a plan may lift the soft limit above
  the hard one (`UpdateThresholds` is called with 0 for it): a visitor is then banned before
  it is challenged.
* A route without a pool is accepted by `ValidateAdvanced` (`load.go:270`) and refused by
  `ValidateRuntime`: the file passes `config check` and then fails to load.
* The two bot scores are compared before defaults are filled in, one by one: a challenge
  score of 90 without a block score, or a block score of 30 without a challenge score,
  ends with challenges harder to reach than blocks. `AcceptedExpands` asks for their order
  only of files that give both or none.
* `validateAdvancedXDP` trims the XDP mode before it looks at it (`load.go:407`),
  `normalizeRuntimeXDP` does not (`runtime.go:414`): a mode of blanks is accepted and stays
  unset, and one with blanks around it keeps them.
* `sshPortFromAllowPorts` answers 22 for every list; zeros of the governor's hysteresis are
  kept; updates that are enabled always require signatures, whatever the file says.
* `mode set` validates nothing: `full` on a file without sites makes every later command
  fail, and a crash during the write leaves the file empty.
