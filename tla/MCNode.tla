------------------------------- MODULE MCNode -------------------------------
(***************************************************************************)
(* Bounds for TLC, and the packets, manifests and configuration files that   *)
(* are tried.                                                              *)
(***************************************************************************)
EXTENDS Node

CONSTANTS c1, c2, c3, k1, k2, k3,   \* callers and connections of the pool
          v0, v1, v2,                       \* binaries; v1 does not come up
          n1, n2, xx, yy, toolong,          \* networks and country codes
          w1, w2, l1, l2, s1,               \* watchers, logins and a session
          a1, a2,                           \* goroutines of the admin panel
          cpu1, cpu2, src, bad, far, lan, friend, net24  \* CPUs, sources, their network

ThreeCallers == {c1, c2, c3}
ThreeConns == {k1, k2, k3}
ThreeImages == {v0, v1, v2}
WorkingImages == {v0, v2}
TwoNetworks == {n1, n2}
TwoCountries == {xx, yy}
ListedCodes == {xx, yy, toolong}
TwoWatchers == {w1, w2}
LowAndHigh == {0, 9}
UnlimitedAndTwo == {0, 2}
TwoLogins == {l1, l2}
OneSession == {s1}
OneVersion == {1}
OneBinary == {"agent"}
TwoAdmins == {a1, a2}
FreeAndPro == {"community", "pro"}
LicenseOperations == {"Activate", "Upgrade", "Downgrade", "CheckExpiry", "Renew", "Delete"}
FollowedNumbers == {"RPMPerIP", "HeartbeatSeconds"}
FollowedTexts == {"BackendURL"}

NewImages == {v1, v2}
Version(n, suffix) == [numbers |-> n, suffix |-> suffix]
VersionOfNode == Version(<<1, 0>>, "")
Payload(version, release, rollback, artifacts) ==
  [product |-> "kiro_waf", channel |-> "stable", keep |-> 2, wellFormed |-> TRUE,
   version |-> version, release |-> release, rollback |-> rollback, artifacts |-> artifacts]
Unsigned(name, c) == [name |-> name, url |-> <<"mirror", "agent">>, sha256 |-> c, signature |-> Missing]
SignedArtifact(name, c) ==
  [Unsigned(name, c) EXCEPT !.signature = [name |-> name, sha256 |-> c]]
Plain == Payload(Version(<<1, 1>>, ""), "none", FALSE, <<Unsigned(<<"agent">>, v1)>>)
Full == Payload(Version(<<1, 0, 2>>, "-rc1"), "complete", TRUE,
                <<SignedArtifact(<<"agent">>, v2), SignedArtifact(<<"tools">>, v1)>>)
OneFileTwice == Payload(Version(<<2>>, ""), "complete", TRUE,
                        <<SignedArtifact(<<"bin", "agent">>, v1),
                          SignedArtifact(<<"alt", "agent">>, v2)>>)
Shadowing == Payload(Version(<<2>>, ""), "none", TRUE, <<Unsigned(<<"manifest.json">>, v1)>>)
Older == Payload(Version(<<0, 9>>, ""), "none", TRUE, <<>>)
NoSum == Payload(Version(<<2>>, ""), "none", TRUE, <<Unsigned(<<"agent">>, Missing)>>)
SomeDrafts == {Plain, Full, OneFileTwice, Shadowing, Older, NoSum}
SomeEdited == {[payload |-> [Plain EXCEPT !.version = Version(<<9>>, "")], signature |-> Plain],
               [payload |-> NoSum, signature |-> Missing],
               [payload |-> [Plain EXCEPT !.artifacts[1].name = Missing], signature |-> Plain]}
Policy(every, downgrade) ==
  [Product |-> "kiro_waf", Channel |-> "stable", RequireRollback |-> every,
   RequireArtifacts |-> every, RequireReleaseMetadata |-> every,
   RequireArtifactSignature |-> every, AllowDowngrade |-> downgrade,
   CurrentVersion |-> TRUE]
Strict == Policy(TRUE, FALSE)
FourPolicies ==
  {Strict, Policy(FALSE, FALSE), Policy(FALSE, TRUE),
   [Policy(FALSE, FALSE) EXCEPT !.CurrentVersion = FALSE]}

TwoCpus == {cpu1, cpu2}
InNet24(s) == net24
Packet(from, protocol, flags) ==
  [source |-> from, protocol |-> protocol, flags |-> flags, cut |-> "no",
   fragment |-> FALSE, badPort |-> FALSE, cookieAge |-> 2]
Syn == Packet(src, "tcp", {"SYN"})
Data == Packet(src, "tcp", {"ACK", "PSH"})
SomePackets ==
  {Syn, Data, [Data EXCEPT !.cookieAge = 1], Packet(src, "tcp", {"ACK", "FIN"}),
   Packet(src, "tcp", {}), Packet(src, "udp", {}),
   [Packet(src, "udp", {}) EXCEPT !.badPort = TRUE], [Data EXCEPT !.fragment = TRUE],
   [Data EXCEPT !.cut = "transport"], [Data EXCEPT !.cut = "header"],
   Packet(src, "no IPv4", {})}
  \cup {[Syn EXCEPT !.source = s] : s \in {bad, far, lan, friend}}
OneBad == {bad}
OneFar == {far}
Friends == {friend}
NotRouted == {lan, friend}
Limits(total, syn, udp, icmp) == [total |-> total, syn |-> syn, udp |-> udp, icmp |-> icmp]
Ample == [window |-> 1, cookies |-> FALSE, cookieThreshold |-> 1, connTracker |-> FALSE,
          geoip |-> TRUE, dropPrivate |-> TRUE, dropMalformed |-> TRUE, rateLimit |-> TRUE,
          perIP |-> Limits(2, 0, 0, 0), perSubnet |-> 0]
Filters == {Ample,
            [Ample EXCEPT !.perIP = Limits(0, 1, 0, 0)],
            [Ample EXCEPT !.perIP = Limits(1, 0, 0, 0), !.perSubnet = 1],
            [Ample EXCEPT !.cookies = TRUE, !.connTracker = TRUE, !.rateLimit = FALSE],
            [Ample EXCEPT !.connTracker = TRUE, !.rateLimit = FALSE, !.dropMalformed = FALSE]}

-----------------------------------------------------------------------------
(* Configuration files: the plain ones, and those that depart from them in one section *)

PlainAdvanced ==
  [kind |-> "advanced", wellFormed |-> TRUE, mode |-> "full",
   pools |-> <<[id |-> 1, upstreams |-> {1}]>>,
   sites |-> <<[id |-> 1, tls |-> "", domains |-> <<1>>, pool |-> 1, routes |-> <<>>]>>,
   governor |-> [enabled |-> FALSE, learns |-> FALSE, samples |-> 0, cpu |-> 0, acts |-> FALSE],
   waf |-> [enabled |-> FALSE, engine |-> "", threshold |-> 0],
   bot |-> [enabled |-> FALSE, challenge |-> 0, block |-> 0],
   xdp |-> [enabled |-> FALSE, mode |-> "", rate |-> 0],
   updates |-> [enabled |-> FALSE, channel |-> "", signed |-> FALSE, rollback |-> FALSE],
   security |-> [enabled |-> FALSE, integrity |-> FALSE, paths |-> "none", names |-> "none"],
   telemetry |-> [enabled |-> FALSE, health |-> FALSE, interval |-> 0, privacy |-> "all off"]]

GovernorSections ==
  [enabled : BOOLEAN, learns : BOOLEAN, samples : {-1, 0, 9}, cpu : {-1, 0, 40, 101},
   acts : BOOLEAN]

SectionDocuments ==
  {[PlainAdvanced EXCEPT !.governor = g] : g \in GovernorSections}
  \cup {[PlainAdvanced EXCEPT !.waf = w] : w \in
      [enabled : BOOLEAN, engine : {"", "coraza", "other"}, threshold : {-1, 0, 9}]}
  \cup {[PlainAdvanced EXCEPT !.bot = b] : b \in
      [enabled : BOOLEAN, challenge : {-1, 0, 40, 90, 101}, block : {-1, 0, 40, 90, 101}]}
  \cup {[PlainAdvanced EXCEPT !.xdp = x] : x \in
      [enabled : BOOLEAN, mode : {"", "blank", "native", "other"}, rate : {-1, 0, 9}]}
  \cup {[PlainAdvanced EXCEPT !.updates = u] : u \in
      [enabled : BOOLEAN, channel : {"", "beta"}, signed : BOOLEAN, rollback : BOOLEAN]}
  \cup {[PlainAdvanced EXCEPT !.security = s] : s \in
      [enabled : BOOLEAN, integrity : BOOLEAN, paths : {"none", "blank", "some"},
       names : {"none", "blank", "some"}]}
  \cup {[PlainAdvanced EXCEPT !.telemetry = t] : t \in
      [enabled : BOOLEAN, health : BOOLEAN, interval : {-1, 0, 9},
       privacy : {"all off", "chosen"}]}

OnePool == [id : {0, 1}, upstreams : {{}, {1}}]
PoolLists ==
  {<<>>} \cup {<<p>> : p \in OnePool}
         \cup {<<p, [id |-> i, upstreams |-> {2}]>> : p \in OnePool, i \in {1, 2}}
OneSite ==
  [id : {0, 1}, tls : {"", "full without certificate"}, domains : {<<>>, <<1>>, <<1, 1>>},
   pool : {0, 1, 2}, routes : {<<>>, <<0>>, <<1>>, <<2, 1>>}]
SecondSite ==
  {[id |-> 2, tls |-> "flexible_http", domains |-> <<d>>, pool |-> 1, routes |-> <<>>] :
      d \in {1, 2}}

SiteDocuments ==
  {[PlainAdvanced EXCEPT !.wellFormed = w, !.mode = m, !.pools = p] :
      w \in BOOLEAN, m \in AllowedModes \cup {"other"}, p \in PoolLists}
  \cup {[PlainAdvanced EXCEPT !.sites = s] :
      s \in {<<>>} \cup {<<a>> : a \in OneSite}
                   \cup {<<PlainAdvanced.sites[1], b>> : b \in SecondSite}}

TenantSiteLists ==
  LET AnySite == [domains : {<<>>, <<1>>, <<1, 1>>}, backend : 0..2, routes : {<<>>, <<0>>, <<1>>, <<2, 1>>}]
      SiteOf(d) == [domains : {<<d>>}, backend : 1..2, routes : {<<>>, <<1>>, <<2, 1>>}]
  IN  {<<>>} \cup {<<a>> : a \in AnySite}
             \cup {<<a, b>> : a \in SiteOf(1), b \in SiteOf(1) \cup SiteOf(2)}

TenantDocuments ==
  [kind : {"tenant"}, wellFormed : {TRUE}, mode : AllowedModes, website : BOOLEAN,
   tls : {"flexible_http"}, sites : TenantSiteLists, on : {TRUE}]
  \cup [kind : {"tenant"}, wellFormed : BOOLEAN, mode : AllowedModes \cup {"other"},
        website : BOOLEAN, tls : {"flexible_http", "full without certificate"},
        sites : {<<>>}, on : BOOLEAN]

ProviderDocuments == [kind : {"provider"}, wellFormed : BOOLEAN, mode : {""}]

ServerDocuments == SectionDocuments \cup SiteDocuments \cup TenantDocuments \cup ProviderDocuments
=============================================================================
