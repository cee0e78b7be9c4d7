----------------------------- MODULE NodeConfig -----------------------------
(***************************************************************************)
(* The configuration of a client node (client/config_load.go,               *)
(* config_validate.go): the YAML file, the environment laid over it, the    *)
(* built-in defaults under it, the validation; and the life of a node that   *)
(* starts with it (client_waf.go, RunWithConfig) and then receives plans.    *)
(*                                                                         *)
(* The node reads file and environment when it starts and at no other time:  *)
(* both are inputs of the start.  Settings are read one by one and never     *)
(* influence one another, so the constants name the ones to follow.          *)
(***************************************************************************)
EXTENDS Integers

CONSTANTS Numbers,    \* settings with an integer value
          Texts       \* settings with a text value

VARIABLES nodeRunning, cfg,
          limits,     \* thresholds in the rate limiter
          xdpStarted, \* xdpStartOnce has run
          source      \* history: file and environment of the last start

nodeConfigVars == <<nodeRunning, cfg, limits, xdpStarted, source>>

RateLimits == {"RPMPerIP", "SubnetRPM", "HardBlockAfter"}
CheckedNumbers == RateLimits \cup {"BlockTTLSeconds", "HeartbeatSeconds", "UpdateSeconds"}
AllNumbers ==
  CheckedNumbers \cup {"PoWDifficulty", "HoldSeconds", "TransparentTTL", "CookieShortTTL",
                       "EscalationThreshold", "EscalationCooldown", "CookieRateLimit"}

URLs == {"BackendURL", "MasterURL"}
Required == URLs \cup {"LicenseKey", "CookieSecret"}
Defaulted == {"ListenAddr", "NodeID", "BlocklistFile", "XDPSyncCommand", "CFTrustMode"}
AllTexts == Required \cup Defaulted \cup {"GeoIPCSVPath"}

ASSUME NodeConfigAssumption == Numbers \subseteq AllNumbers /\ Texts \subseteq AllTexts

\* Requests per minute of an address, of its subnet, and those that end in a ban.
Profiles ==
  [light    |-> [RPMPerIP |-> 200, SubnetRPM |-> 3000, HardBlockAfter |-> 600],
   balanced |-> [RPMPerIP |-> 120, SubnetRPM |-> 1800, HardBlockAfter |-> 360],
   strict   |-> [RPMPerIP |-> 60, SubnetRPM |-> 900, HardBlockAfter |-> 180],
   lockdown |-> [RPMPerIP |-> 30, SubnetRPM |-> 450, HardBlockAfter |-> 90]]

Defaults ==
  [BlockTTLSeconds |-> 900, HeartbeatSeconds |-> 60, UpdateSeconds |-> 300,
   PoWDifficulty |-> 4, HoldSeconds |-> 2, TransparentTTL |-> 30, CookieShortTTL |-> 300,
   EscalationThreshold |-> 3, EscalationCooldown |-> 600, CookieRateLimit |-> 300]

(* A text is empty, white space, a URL with scheme and host (the file's or    *)
(* the environment's), something else, or a built-in default; a list of       *)
(* admins is empty, or has entries that are all networks, or one that is a    *)
(* plain address.                                                             *)
GoodURLs == {"file url", "env url"}
TextValues == {"", "blank", "other", "default"} \cup GoodURLs
AdminLists == {"none", "networks", "addresses"}

FileValue == 77
EnvValue == 55
Documents ==
  [state : {"yaml"}, profile : {"", "strict", "misspelt"},
   numbers : [Numbers -> {-1, 0, FileValue}],
   texts : [Texts -> {"", "blank", "file url", "other"}], admins : AdminLists]
Unusable == [state : {"absent", "unreadable", "malformed"}]
ConfigFiles == Unusable \cup Documents

\* An environment variable is trimmed.  "named" has the numbers whose variable is not
\* empty; envTrimmedInt reads 0 from one that is unset, 0 or no integer.  The list of
\* admins may be set to separators only.
Environments ==
  {env \in [named : SUBSET Numbers, numbers : [Numbers -> {-1, 0, EnvValue}],
            texts : [Texts -> {"", "env url", "other"}], admins : {"unset", "none"}] :
     \A n \in Numbers : env.numbers[n] # 0 => n \in env.named}

-----------------------------------------------------------------------------
(* Loading *)

ZeroConfig ==
  [numbers |-> [n \in Numbers |-> 0], texts |-> [t \in Texts |-> ""], admins |-> "none"]

HasLegacyEnvVars(env) == \E t \in Texts \cap Required : env.texts[t] # ""

FromProfile(profile, n) ==
  IF profile = "" \/ n \notin RateLimits THEN 0
  ELSE Profiles[IF profile \in DOMAIN Profiles THEN profile ELSE "balanced"][n]

\* The client section overrides the profile.
FromFileProfileLast(doc) ==        \* mutant: the profile is applied last
  [numbers |-> [n \in Numbers |->
      IF FromProfile(doc.profile, n) # 0 THEN FromProfile(doc.profile, n) ELSE doc.numbers[n]],
   texts |-> doc.texts, admins |-> doc.admins]

LoadFromYAML(doc) ==
  [numbers |-> [n \in Numbers |->
      IF doc.numbers[n] # 0 THEN doc.numbers[n] ELSE FromProfile(doc.profile, n)],
   texts |-> doc.texts, admins |-> doc.admins]

ApplyEnvOverrides(c, env) ==
  [numbers |-> [n \in Numbers |-> IF env.numbers[n] > 0 THEN env.numbers[n] ELSE c.numbers[n]],
   texts |-> [t \in Texts |-> IF env.texts[t] # "" THEN env.texts[t] ELSE c.texts[t]],
   admins |-> IF env.admins # "unset" THEN env.admins ELSE c.admins]

DefaultOf(n) == IF n \in RateLimits THEN Profiles.balanced[n] ELSE Defaults[n]

ApplyDefaults(c) ==
  [c EXCEPT
     !.numbers = [n \in Numbers |-> IF c.numbers[n] = 0 THEN DefaultOf(n) ELSE c.numbers[n]],
     !.texts = [t \in Texts |->
       IF t \in Defaulted /\ c.texts[t] = "" THEN "default" ELSE c.texts[t]]]

InvalidURL(text) == text \notin GoodURLs

\* The fields that ValidateClientConfig finds at fault.
FieldErrors(c) ==
  {t \in Texts \cap Required : c.texts[t] \in {"", "blank"}}
    \cup {t \in Texts \cap URLs : c.texts[t] \notin {"", "blank"} /\ InvalidURL(c.texts[t])}
    \cup (IF c.admins = "addresses" THEN {"admin.allow_ips"} ELSE {})
    \cup {n \in Numbers \cap CheckedNumbers : c.numbers[n] < 0}

Completed(c, env) == ApplyDefaults(ApplyEnvOverrides(c, env))

\* LoadClientConfig: the configurations that it returns without an error, one or none.
LoadClientConfig(file, env) ==
  LET bases == CASE file.state = "yaml" -> {LoadFromYAML(file)}
                 [] file.state = "absent" /\ HasLegacyEnvVars(env) -> {ZeroConfig}
                 [] OTHER -> {}
  IN  {c \in {Completed(base, env) : base \in bases} : FieldErrors(c) = {}}

-----------------------------------------------------------------------------
(* The node *)

NotStarted == [file |-> [state |-> "absent"], env |-> "none"]
LimitsOf(c) == [n \in Numbers \cap RateLimits |-> c.numbers[n]]

NodeConfigInit ==
  /\ nodeRunning = FALSE
  /\ cfg = ZeroConfig
  /\ limits = LimitsOf(ZeroConfig)
  /\ xdpStarted = FALSE
  /\ source = NotStarted

\* RunWithConfig; without a configuration it returns 1.
StartNode(file, env) ==
  /\ ~nodeRunning
  /\ \E c \in LoadClientConfig(file, env) : cfg' = c /\ limits' = LimitsOf(c)
  /\ nodeRunning' = TRUE
  /\ xdpStarted' = FALSE
  /\ source' = [file |-> file, env |-> env]

PlanRates == {0, 1200}

\* UpdateThresholds leaves the threshold of a ban as it is.
UpdateThresholds(rate) ==
  limits' = [n \in Numbers \cap RateLimits |->
    IF n # "HardBlockAfter" /\ rate > 0 THEN rate ELSE limits[n]]

\* OnPlanConfig; a rate of 0 is a plan without a limit.
PlanReceived(rate, xdpEnabled) ==
  /\ nodeRunning
  /\ UpdateThresholds(rate)
  /\ xdpStarted' = (xdpStarted \/ xdpEnabled)
  /\ UNCHANGED <<nodeRunning, cfg, source>>

Shutdown ==
  /\ nodeRunning
  /\ nodeRunning' = FALSE
  /\ cfg' = ZeroConfig
  /\ limits' = LimitsOf(ZeroConfig)
  /\ xdpStarted' = FALSE
  /\ source' = NotStarted

NodeConfigNext ==
  \/ \E file \in ConfigFiles, env \in Environments : StartNode(file, env)
  \/ \E rate \in PlanRates, xdpEnabled \in BOOLEAN : PlanReceived(rate, xdpEnabled)
  \/ Shutdown

NodeConfigSpec == NodeConfigInit /\ [][NodeConfigNext]_nodeConfigVars

NodeConfigTypeOK ==
  /\ nodeRunning \in BOOLEAN /\ xdpStarted \in BOOLEAN
  /\ cfg.numbers \in [Numbers -> Int]
  /\ cfg.texts \in [Texts -> TextValues]
  /\ cfg.admins \in AdminLists \ {"addresses"}
  /\ limits \in [Numbers \cap RateLimits -> Nat]

-----------------------------------------------------------------------------
\* docs/configuration.md (lines 9 and 133): a variable that is set and not empty, the
\* client section, the profile, the default.  A rate limit without a profile has that of
\* "balanced".
Documented(file, env, n) ==
  LET profile == IF file.state = "yaml" /\ file.profile \in DOMAIN Profiles
                 THEN file.profile ELSE "balanced"
      builtIn == IF n \in RateLimits THEN Profiles[profile][n] ELSE Defaults[n]
  IN  IF n \in env.named THEN env.numbers[n]
      ELSE IF file.state = "yaml" /\ file.numbers[n] # 0 THEN file.numbers[n]
      ELSE builtIn

DocumentedText(file, env, t) ==
  IF env.texts[t] # "" THEN env.texts[t]
  ELSE IF file.state = "yaml" /\ file.texts[t] # "" THEN file.texts[t]
  ELSE IF t \in Defaulted THEN "default" ELSE ""

\* The code departs from the documentation here: a variable that is set to 0, to a
\* negative number or to no number is passed over (config_load.go:186-235, v > 0).
PassedOver(env, n) == n \in env.named /\ env.numbers[n] <= 0

\* Three passes over the settings, each of which sees what the others left (LoadFromYAML,
\* ApplyEnvOverrides, ApplyDefaults), and a validation after them, give a running node
\* what the documentation's order of precedence gives it, in numbers (unless a variable is
\* passed over) and in texts: no profile hides an explicit setting, no default an
\* override.  And no combination of the sources that is accepted leaves one of the six
\* numbers that the validation looks at without a positive value, or a proxy without its
\* URLs.
RunsAsDocumented ==
  nodeRunning =>
    /\ \A n \in Numbers :
         PassedOver(source.env, n) \/ cfg.numbers[n] = Documented(source.file, source.env, n)
    /\ \A t \in Texts : cfg.texts[t] = DocumentedText(source.file, source.env, t)
    /\ \A n \in Numbers \cap CheckedNumbers : cfg.numbers[n] > 0
    /\ \A n \in DOMAIN limits : limits[n] > 0
    /\ \A t \in Texts \cap URLs : cfg.texts[t] \in GoodURLs
=============================================================================
