---------------------------- MODULE RuntimeConfig ----------------------------
(***************************************************************************)
(* The configuration file of a protected server as kiro-cli reads it        *)
(* (shared/config/load.go, runtime.go): a file of one of three kinds is      *)
(* validated section by section, expanded into a runtime configuration with *)
(* defaults where the file is silent, and validated again; and the command   *)
(* that rewrites the mode in the file (diagnostics/mode.go).                  *)
(*                                                                         *)
(* Of each section the model keeps what its validation, its defaults and     *)
(* other sections look at; what only has to be well formed is one flag.      *)
(* Names are numbers, 0 the empty one; a bad value of a setting is -1.       *)
(***************************************************************************)
EXTENDS Integers, SequencesExt

VARIABLES document,    \* the file
          loaded       \* the last load: a runtime configuration, or not

runtimeConfigVars == <<document, loaded>>

AllowedModes == {"server", "full"}
AllowedWAFEngines == {"coraza", "modsecurity"}

-----------------------------------------------------------------------------
(* Validation *)

Distinct(s) == IsInjective(s)
DomainsOf(sites) == FlattenSeq([i \in DOMAIN sites |-> sites[i].domains])
TLSComplete(tls) == tls \in {"flexible_http", "full with certificate"}

\* validateTenantWebsite; backend 0 is one that is no http URL.
ValidTenantWebsite(doc) ==
  /\ TLSComplete(doc.tls)
  /\ doc.sites # <<>>
  /\ Distinct(DomainsOf(doc.sites))
  /\ \A i \in DOMAIN doc.sites :
       LET site == doc.sites[i]
       IN  site.domains # <<>> /\ site.backend # 0 /\ ~Contains(site.routes, 0)

\* wellFormed: plan, license key, admin networks, interface, SSH port and profile.
ValidateTenant(doc) ==
  /\ doc.mode \in AllowedModes
  /\ doc.wellFormed
  /\ doc.mode = "full" \/ doc.website => ValidTenantWebsite(doc)

ValidGovernorThreshold(percent) == percent \in 0..100
ValidGovernor(g) == g.enabled => g.samples >= 0 /\ ValidGovernorThreshold(g.cpu)
ValidWAF(w) == w.enabled => w.engine \in AllowedWAFEngines /\ w.threshold >= 0
ValidBot(b) ==
  /\ b.challenge \in 0..100 /\ b.block \in 0..100
  /\ b.enabled /\ b.block > 0 => b.challenge <= b.block

\* The validation trims the mode before it looks at it.
UntrimmedModes == {"blank", "padded"}
ValidXDP(x) == x.enabled => x.mode \in {"", "generic", "native", "offload"} \cup UntrimmedModes
ValidDDOS(x) == x.rate >= 0
ValidUpdates(u) == u.enabled => u.channel # ""
ValidRuntimeSecurity(s) ==
  s.enabled => /\ s.integrity => s.paths # "none"
               /\ s.paths # "blank" /\ s.names # "blank"
ValidTelemetry(t) == t.interval >= 0

ValidSections(doc) ==
  /\ ValidGovernor(doc.governor) /\ ValidWAF(doc.waf) /\ ValidBot(doc.bot)
  /\ ValidXDP(doc.xdp) /\ ValidDDOS(doc.xdp) /\ ValidUpdates(doc.updates)
  /\ ValidRuntimeSecurity(doc.security) /\ ValidTelemetry(doc.telemetry)

PoolIDs(pools) == {pools[i].id : i \in DOMAIN pools}

ValidPools(pools) ==
  /\ Distinct([i \in DOMAIN pools |-> pools[i].id])
  /\ \A i \in DOMAIN pools : pools[i].id # 0 /\ pools[i].upstreams # {}

\* wellFormed: profile, license files, rollback timer, ports, admin networks and URLs.
ValidateAdvanced(doc) ==
  /\ doc.mode \in AllowedModes
  /\ doc.wellFormed
  /\ ValidSections(doc)
  /\ doc.pools # <<>> /\ ValidPools(doc.pools)
  /\ doc.mode = "full" => doc.sites # <<>>
  /\ Distinct(DomainsOf(doc.sites))
  /\ \A i \in DOMAIN doc.sites :
       LET site == doc.sites[i]
       IN  /\ site.id # 0 /\ site.tls # "full without certificate" /\ site.domains # <<>>
           /\ site.pool \in PoolIDs(doc.pools)
           /\ ToSet(site.routes) \subseteq PoolIDs(doc.pools) \cup {0}

\* ValidateRuntime, after the expansion.
ValidateRuntime(r) ==
  /\ r.mode \in AllowedModes
  /\ ValidPools(r.pools)
  /\ Distinct(DomainsOf(r.sites))
  /\ \A i \in DOMAIN r.sites :
       /\ r.sites[i].id # 0
       /\ {r.sites[i].pool} \cup ToSet(r.sites[i].routes) \subseteq PoolIDs(r.pools)

-----------------------------------------------------------------------------
(* Defaults *)

DefaultRuntimeWAF(on) == [enabled |-> on, engine |-> "coraza", threshold |-> 5]
DefaultRuntimeBot(on) == [enabled |-> on, challenge |-> 50, block |-> 80]
DefaultRuntimeXDP(on) == [enabled |-> on, mode |-> "generic", rate |-> 0]
DefaultRuntimeUpdates(on) ==
  [enabled |-> on, channel |-> "stable", signed |-> TRUE, rollback |-> TRUE]
DefaultRuntimeSecurity(on) ==
  [enabled |-> on, integrity |-> on, paths |-> "some", names |-> "some"]
DefaultRuntimeTelemetry(on) ==
  [enabled |-> on, health |-> on, interval |-> 3600, privacy |-> "hashed"]
DefaultResourceGovernor(on) ==
  [enabled |-> on, learns |-> on, samples |-> 1000, cpu |-> 75, acts |-> TRUE]

NonZero(value, default) == IF value = 0 THEN default ELSE value
NonEmpty(value, default) == IF value = "" THEN default ELSE value

NormalizeRuntimeWAF(w) ==
  LET d == DefaultRuntimeWAF(TRUE)
  IN  IF ~w.enabled THEN w
      ELSE [w EXCEPT !.engine = NonEmpty(@, d.engine), !.threshold = NonZero(@, d.threshold)]

\* Each score gets its default without a look at the other one.
NormalizeRuntimeBot(b) ==
  LET d == DefaultRuntimeBot(TRUE)
  IN  IF ~b.enabled THEN b
      ELSE [b EXCEPT !.challenge = NonZero(@, d.challenge), !.block = NonZero(@, d.block)]

\* The mode is not trimmed here.
NormalizeRuntimeXDP(x) ==
  IF ~x.enabled THEN x ELSE [x EXCEPT !.mode = NonEmpty(@, DefaultRuntimeXDP(TRUE).mode)]

\* The two switches cannot be off in updates that are on.
NormalizeRuntimeUpdates(u) ==
  IF ~u.enabled THEN u
  ELSE [u EXCEPT !.channel = NonEmpty(@, "stable"), !.signed = TRUE, !.rollback = TRUE]

NormalizeRuntimeSecurity(s) ==
  IF s.enabled /\ s.names = "none" THEN [s EXCEPT !.names = "some"] ELSE s

NormalizeRuntimeTelemetry(t) ==
  [t EXCEPT !.interval = IF t.health THEN NonZero(@, 3600) ELSE @,
            !.privacy = IF @ = "all off" THEN "hashed" ELSE @]

NormalizeResourceGovernor(g) ==
  LET d == DefaultResourceGovernor(TRUE)
  IN  IF ~g.enabled THEN g
      ELSE [g EXCEPT !.samples = IF g.learns THEN NonZero(@, d.samples) ELSE @,
                     !.cpu = NonZero(@, d.cpu), !.acts = TRUE]

-----------------------------------------------------------------------------
(* Expansion *)

\* The distinct backends, in the order in which the sites and their routes name them:
\* poolIDForBackend numbers them from 1.
Named(sites) ==
  FlattenSeq([i \in DOMAIN sites |-> <<sites[i].backend>> \o sites[i].routes])
BackendIndexTwice(sites) == Named(sites)      \* mutant: a pool for each mention
BackendIndex(sites) ==
  FoldLeft(LAMBDA index, b : IF Contains(index, b) THEN index ELSE Append(index, b),
           <<>>, Named(sites))

TenantSites(sites) ==
  LET PoolIDForBackend(b) == CHOOSE p \in DOMAIN BackendIndex(sites) : BackendIndex(sites)[p] = b
  IN  [i \in DOMAIN sites |->
        [id |-> i, domains |-> sites[i].domains, pool |-> PoolIDForBackend(sites[i].backend),
         routes |-> [j \in DOMAIN sites[i].routes |-> PoolIDForBackend(sites[i].routes[j])]]]

\* A server without a website has neither sites nor pools.
ExpandTenant(doc) ==
  LET served == IF doc.mode = "server" /\ ~doc.website THEN <<>> ELSE doc.sites
      index == BackendIndex(served)
  IN  [mode |-> doc.mode,
       pools |-> [p \in DOMAIN index |-> [id |-> p, upstreams |-> {index[p]}]],
       sites |-> TenantSites(served),
       governor |-> DefaultResourceGovernor(doc.on), waf |-> DefaultRuntimeWAF(doc.on),
       bot |-> DefaultRuntimeBot(doc.on), xdp |-> DefaultRuntimeXDP(FALSE),
       updates |-> DefaultRuntimeUpdates(doc.on), security |-> DefaultRuntimeSecurity(FALSE),
       telemetry |-> DefaultRuntimeTelemetry(doc.on)]

ExpandAdvanced(doc) ==
  [mode |-> doc.mode, pools |-> doc.pools,
   sites |-> [i \in DOMAIN doc.sites |->
      [id |-> doc.sites[i].id, domains |-> doc.sites[i].domains, pool |-> doc.sites[i].pool,
       routes |-> doc.sites[i].routes]],
   governor |-> NormalizeResourceGovernor(doc.governor), waf |-> NormalizeRuntimeWAF(doc.waf),
   bot |-> NormalizeRuntimeBot(doc.bot), xdp |-> NormalizeRuntimeXDP(doc.xdp),
   updates |-> NormalizeRuntimeUpdates(doc.updates),
   security |-> NormalizeRuntimeSecurity(doc.security),
   telemetry |-> NormalizeRuntimeTelemetry(doc.telemetry)]

\* loadFile (CheckFile): the file is accepted as what it says it is.
Accepted(doc) ==
  \/ doc.kind = "provider" /\ doc.wellFormed
  \/ doc.kind = "advanced" /\ ValidateAdvanced(doc)
  \/ doc.kind = "tenant" /\ ValidateTenant(doc)

Failed == [kind |-> "error"]
NotLoaded == [kind |-> "not read"]

\* LoadRuntimeFile: a provider's file has no runtime configuration.
LoadRuntimeFile(doc) ==
  LET expanded == IF doc.kind = "tenant" THEN ExpandTenant(doc) ELSE ExpandAdvanced(doc)
  IN  IF doc.kind \in {"tenant", "advanced"} /\ Accepted(doc) /\ ValidateRuntime(expanded)
      THEN [kind |-> "runtime", config |-> expanded]
      ELSE Failed

-----------------------------------------------------------------------------
(* Files *)

\* The values of a setting that the code tells apart.
Modes == AllowedModes \cup {"", "other"}
TLSModes == {"", "flexible_http", "full with certificate", "full without certificate"}
Engines == AllowedWAFEngines \cup {"", "other"}
XDPModes == {"", "generic", "native", "offload", "other"} \cup UntrimmedModes
Channels == {"", "stable", "beta"}
Lists == {"none", "blank", "some"}
Privacies == {"all off", "chosen", "hashed"}

\* cpu stands for the thresholds of a level, acts for its actions: defaults replace them
\* when all of them are zero.
Governors == [enabled : BOOLEAN, learns : BOOLEAN, samples : Int, cpu : Int, acts : BOOLEAN]

Pools == Seq([id : Nat, upstreams : SUBSET Nat])
AdvancedSites ==
  Seq([id : Nat, tls : TLSModes, domains : Seq(Nat), pool : Nat, routes : Seq(Nat)])
TenantWebsites == Seq([domains : Seq(Nat), backend : Nat, routes : Seq(Nat)])

AdvancedFiles ==
  [kind : {"advanced"}, wellFormed : BOOLEAN, mode : Modes,
   pools : Pools, sites : AdvancedSites, governor : Governors,
   waf : [enabled : BOOLEAN, engine : Engines, threshold : Int],
   bot : [enabled : BOOLEAN, challenge : Int, block : Int],
   xdp : [enabled : BOOLEAN, mode : XDPModes, rate : Int],
   updates : [enabled : BOOLEAN, channel : Channels, signed : BOOLEAN, rollback : BOOLEAN],
   security : [enabled : BOOLEAN, integrity : BOOLEAN, paths : Lists, names : Lists],
   telemetry : [enabled : BOOLEAN, health : BOOLEAN, interval : Int, privacy : Privacies]]

TenantFiles ==
  [kind : {"tenant"}, wellFormed : BOOLEAN, mode : Modes, website : BOOLEAN, tls : TLSModes,
   sites : TenantWebsites, on : BOOLEAN]

ProviderFiles == [kind : {"provider"}, wellFormed : BOOLEAN, mode : Modes]

Truncated == [kind |-> "malformed", mode |-> ""]

\* The files that a run starts from.
CONSTANT RuntimeDocuments
ASSUME RuntimeConfigAssumption ==
  RuntimeDocuments \subseteq AdvancedFiles \cup TenantFiles \cup ProviderFiles

-----------------------------------------------------------------------------
RuntimeConfigInit == document \in RuntimeDocuments /\ loaded = NotLoaded

\* Every command of kiro-cli that takes a configuration loads it anew.
LoadRuntime ==
  /\ loaded' = LoadRuntimeFile(document)
  /\ UNCHANGED document

\* mode set: the value under "mode" is replaced, or put in, in whatever mapping the file
\* holds; nothing is validated.
SetModeFile(mode) ==
  /\ document.kind # "malformed"
  /\ document' = [document EXCEPT !.mode = mode]
  /\ loaded' = NotLoaded

\* The file is truncated and then written: a crash in between leaves it empty.
SetModeCrashes ==
  /\ document.kind # "malformed"
  /\ document' = Truncated
  /\ loaded' = NotLoaded

RuntimeConfigNext == LoadRuntime \/ (\E m \in AllowedModes : SetModeFile(m)) \/ SetModeCrashes
RuntimeConfigSpec == RuntimeConfigInit /\ [][RuntimeConfigNext]_runtimeConfigVars

RuntimeSites == Seq([id : Nat, domains : Seq(Nat), pool : Nat, routes : Seq(Nat)])
RuntimeDefenses ==
  [waf : [enabled : BOOLEAN, engine : Engines, threshold : Int],
   bot : [enabled : BOOLEAN, challenge : 0..100, block : 0..100],
   updates : [enabled : BOOLEAN, channel : Channels, signed : BOOLEAN, rollback : BOOLEAN],
   security : [enabled : BOOLEAN, integrity : BOOLEAN, paths : Lists, names : Lists],
   telemetry : [enabled : BOOLEAN, health : BOOLEAN, interval : Nat, privacy : Privacies]]

RuntimeConfigTypeOK ==
  /\ document.kind \in {"tenant", "advanced", "provider", "malformed"}
  /\ loaded.kind \in {"not read", "error", "runtime"}
  /\ loaded.kind = "runtime" =>
       LET r == loaded.config
       IN  /\ r.mode \in AllowedModes
           /\ r.pools \in Pools /\ r.sites \in RuntimeSites
           /\ [waf |-> r.waf, bot |-> r.bot, updates |-> r.updates,
               security |-> r.security, telemetry |-> r.telemetry] \in RuntimeDefenses

-----------------------------------------------------------------------------
\* Routes of an advanced file may name no pool: its validation lets them, that of the
\* runtime configuration does not.
RoutesNamed(doc) == doc.kind = "advanced" => \A i \in DOMAIN doc.sites : ~Contains(doc.sites[i].routes, 0)

OnePoolEach(r) ==
  \A i \in DOMAIN r.pools, j \in DOMAIN r.pools :
    r.pools[i].upstreams = r.pools[j].upstreams => i = j

\* Two gaps between the validations are left out: white space around an XDP mode, which
\* load.go:407 trims and runtime.go:414 does not, so that the mode stays as it is (blank
\* included); and the order of the two bot scores (load.go:397), which the defaults break in
\* a file that gives only one of them.
GivesOneScore(doc) == doc.kind = "advanced" /\ ~(doc.bot.challenge = 0 <=> doc.bot.block = 0)
ScoresInOrder(r) == r.bot.enabled => r.bot.challenge <= r.bot.block

Usable(r) ==
  /\ r.bot.enabled => r.bot.challenge \in 1..100 /\ r.bot.block \in 1..100
  /\ r.governor.enabled => r.governor.cpu \in 1..100 /\ r.governor.acts
  /\ r.waf.enabled => r.waf.engine \in AllowedWAFEngines /\ r.waf.threshold > 0
  /\ r.xdp.enabled => r.xdp.mode \in {"generic", "native", "offload"} \cup UntrimmedModes
  /\ r.updates.enabled => r.updates.signed /\ r.updates.rollback
  /\ r.security.enabled => r.security.names = "some"
  /\ r.telemetry.health => r.telemetry.interval > 0

\* Three validations that were written apart agree (loadFile, ExpandTenant and
\* ExpandAdvanced, ValidateRuntime): a server's file that CheckFile accepts, with all its
\* routes to a pool, expands without an error into a runtime configuration in which no
\* score, threshold, period or XDP mode is unset or out of range (an XDP mode with white
\* space apart), with the bot scores in order unless the file gives only one, and with one
\* pool for each backend that a tenant names; and it still does after "mode set server",
\* which validates nothing.
AcceptedExpands ==
  LET Expands(doc) ==
        LET result == LoadRuntimeFile(doc)
        IN  /\ result.kind = "runtime"
            /\ Usable(result.config)
            /\ GivesOneScore(doc) \/ ScoresInOrder(result.config)
            /\ doc.kind = "tenant" => OnePoolEach(result.config)
  IN  document.kind \in {"tenant", "advanced"} /\ Accepted(document) /\ RoutesNamed(document) =>
        /\ Expands(document) /\ Expands([document EXCEPT !.mode = "server"])
        /\ loaded.kind # "error"
=============================================================================
