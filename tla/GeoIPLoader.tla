------------------------------- MODULE GeoIPLoader -------------------------------
(***************************************************************************)
(* The loader of the country maps of the filter (client/xdp/geoip_loader.go *)
(* and its start in cmd/kiro-client/main.go): networks from a CSV file, and *)
(* the countries to block from the environment, written entry by entry with *)
(* bpftool, which may fail each time; a refresh goes over both again.       *)
(***************************************************************************)
EXTENDS Integers, FiniteSets

CONSTANTS Networks, Countries,
          Listed,          \* what KIRO_XDP_BLOCKED_COUNTRIES lists
          None             \* no country

ASSUME GeoIPAssumption == None \notin Countries /\ Listed # {}

\* A code that has not two letters is skipped.
Valid == Listed \cap Countries

VARIABLES geoStep,         \* what the loader does next
          file,            \* the CSV, its lines that parse: country by network
          csvPath,         \* the path of the CSV is known to the loader
          countries,       \* the list that a refresh applies
          geoipMap, blocklist,   \* the kernel maps
          left,            \* of the loop that runs: entries not yet written
          clean, refreshed \* history: no call of this round failed; such a round has ended

geoVars == <<geoStep, file, csvPath, countries, geoipMap, blocklist, left, clean, refreshed>>

GeoTypeOK ==
  /\ geoStep \in {"start", "csv", "env", "block", "wait", "refresh csv", "refresh block"}
  /\ file \in [Networks -> Countries \cup {None}]
  /\ csvPath \in BOOLEAN /\ countries \in {{}, Listed}
  /\ geoipMap \in [Networks -> Countries \cup {None}] /\ blocklist \subseteq Countries
  /\ left \subseteq Networks \cup Countries
  /\ clean \in BOOLEAN /\ refreshed \in BOOLEAN

GeoInit ==
  /\ geoStep = "start"
  /\ file = [n \in Networks |-> None]
  /\ csvPath = FALSE /\ countries = {}
  /\ geoipMap = [n \in Networks |-> None] /\ blocklist = {}
  /\ left = {} /\ clean = TRUE /\ refreshed = FALSE

Parsed == {n \in Networks : file[n] # None}
GeoGoes(from, to) == geoStep = from /\ geoStep' = to

-----------------------------------------------------------------------------
\* The operator installs another file.
NewFile(n, c) ==
  /\ geoStep \in {"start", "wait"} /\ file' = [file EXCEPT ![n] = c]
  /\ UNCHANGED <<geoStep, csvPath, countries, geoipMap, blocklist, left, clean, refreshed>>

\* LoadFromCSV, at startup: a file that cannot be opened or parsed is given up, and its
\* path is not kept.
OpenCSV ==
  /\ \/ GeoGoes("start", "csv") /\ left' = Parsed
     \/ GeoGoes("start", "env") /\ left' = {}
  /\ UNCHANGED <<file, csvPath, countries, geoipMap, blocklist, clean, refreshed>>

\* bpftoolMapUpdate of one key, for either map.
UpdateGeoIPMap(n) == geoipMap' = [geoipMap EXCEPT ![n] = file[n]]
UpdateCountryBlocklist(c) == blocklist' = blocklist \cup {c}

\* An entry that fails is skipped.
WriteNetwork(n) ==
  /\ geoStep \in {"csv", "refresh csv"} /\ n \in left /\ left' = left \ {n}
  /\ \/ UpdateGeoIPMap(n) /\ UNCHANGED clean
     \/ clean' = FALSE /\ UNCHANGED geoipMap
  /\ UNCHANGED <<geoStep, file, csvPath, countries, blocklist, refreshed>>

CSVLoaded ==
  /\ left = {}
  /\ \/ GeoGoes("csv", "env") /\ UNCHANGED left
     \/ GeoGoes("refresh csv", "refresh block") /\ left' = countries \cap Countries
  /\ csvPath' = TRUE
  /\ UNCHANGED <<file, countries, geoipMap, blocklist, clean, refreshed>>

ReadEnvLate ==     \* mutant: the list is not kept for a refresh
  /\ GeoGoes("env", "block") /\ left' = Valid
  /\ UNCHANGED <<file, csvPath, countries, geoipMap, blocklist, clean, refreshed>>

\* LoadBlockedCountriesFromEnv hands over the list, which is kept first ...
KeepList == countries' = Listed

ReadEnv ==
  /\ GeoGoes("env", "block") /\ left' = Valid
  /\ KeepList
  /\ UNCHANGED <<file, csvPath, geoipMap, blocklist, clean, refreshed>>

\* ... and written until one fails.
WriteCountry(c) ==
  /\ geoStep \in {"block", "refresh block"} /\ c \in left
  /\ \/ left' = left \ {c} /\ UpdateCountryBlocklist(c) /\ UNCHANGED <<geoStep, clean>>
     \/ left' = {} /\ geoStep' = "wait" /\ clean' = FALSE /\ UNCHANGED blocklist
  /\ UNCHANGED <<file, csvPath, countries, geoipMap, refreshed>>

Blocked ==
  /\ left = {}
  /\ \/ GeoGoes("block", "wait") /\ UNCHANGED refreshed
     \/ GeoGoes("refresh block", "wait") /\ refreshed' = (refreshed \/ clean)
  /\ UNCHANGED <<file, csvPath, countries, geoipMap, blocklist, left, clean>>

\* refresh goes over the file, if its path was kept, and the list.
Refresh ==
  /\ \/ csvPath /\ GeoGoes("wait", "refresh csv") /\ left' = Parsed
     \/ GeoGoes("wait", "refresh block") /\ left' = countries \cap Countries
  /\ clean' = TRUE
  /\ UNCHANGED <<file, csvPath, countries, geoipMap, blocklist, refreshed>>

GeoNext ==
  \/ \E n \in Networks : WriteNetwork(n) \/ \E c \in Countries \cup {None} : NewFile(n, c)
  \/ \E c \in Countries : WriteCountry(c)
  \/ OpenCSV \/ CSVLoaded \/ ReadEnv \/ Blocked \/ Refresh

GeoSpec == GeoInit /\ [][GeoNext]_geoVars

-----------------------------------------------------------------------------
\* A refresh makes up for what failed before it: once one has gone through without an
\* error, every valid country of the list is blocked, also when the load at startup
\* stopped at its first entry.
RefreshCatchesUp == refreshed => Valid \subseteq blocklist
=================================================================================
