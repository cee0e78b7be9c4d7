------------------------------ MODULE KernelConfig ------------------------------
(***************************************************************************)
(* The one entry of the kernel map kiro_config and those who write it: the  *)
(* config sync at startup (client/xdp/config_sync.go), the botnet           *)
(* controller, which reads all of it, changes one byte and writes all of it *)
(* back (botnet_controller.go), and the filter itself, which turns botnet   *)
(* mode on (xdp_filter.c).  Both programs use bpftool.  Beside it, the SYN  *)
(* cookie key.  Time is counted in polls of the controller, which are as    *)
(* long as the window of the filter.                                        *)
(***************************************************************************)
EXTENDS Integers, SequencesExt

CONSTANTS Threshold,     \* of new addresses in a window
          Cooldown,      \* polls that the rate stays low
          MaxKeys        \* bound of key rotations

ASSUME KernelConfigAssumption == Threshold \in Nat \ {0} /\ Cooldown \in Nat /\ MaxKeys \in Nat

VARIABLES config, mode,        \* the map: the settings in it, and botnet_mode_active
          count, windowOver,   \* new_ip_rate: the counter of the filter
          synced,              \* what came of SyncConfig
          kernelKey, lastKey,  \* SYN cookie key in the map and in ConfigSync
          pollDue, bcPc, lastRate, belowThreshold, belowFor, botnetActive, copy, forced,
          calm                 \* history: polls since a rate of half the threshold was read

controllerVars == <<pollDue, bcPc, lastRate, belowThreshold, belowFor, botnetActive, copy,
                    forced, calm>>
filterVars == <<count, windowOver>>
keyVars == <<kernelKey, lastKey>>
mapVars == <<config, mode>>
kernelVars == <<mapVars, filterVars, synced, keyVars, controllerVars>>

Settings == {"zero", "other", "synced"}    \* all fields but the mode; "zero" is a fresh map
Half == Threshold \div 2

KernelTypeOK ==
  /\ config \in Settings /\ mode \in {0, 1}
  /\ count \in 0 .. Threshold + 1 /\ windowOver \in BOOLEAN
  /\ synced \in {"not yet", "done", "failed", "refused"}
  /\ kernelKey \in 0 .. MaxKeys /\ lastKey \in 0 .. kernelKey
  /\ pollDue \in BOOLEAN /\ bcPc \in {"idle", "decide", "read", "write"}
  /\ lastRate \in 0 .. Threshold + 1
  /\ belowThreshold \in BOOLEAN /\ belowFor \in 0 .. Cooldown /\ botnetActive \in BOOLEAN
  /\ copy \in Settings /\ forced \in BOOLEAN /\ calm \in 0 .. Cooldown

-----------------------------------------------------------------------------
(* The layout of the entry *)

\* Widths in bytes of the fields of struct kiro_xdp_config, in order: the C struct and
\* the Go struct have the same.
Fields == <<8, 4, 4, 4, 4, 1, 1, 1, 1, 4, 4, 1, 1, 1, 1, 4, 4, 1, 1, 1, 1>>
KeyFields == <<8, 8>>

Aligned(offset, width) == ((offset + width - 1) \div width) * width

\* Serialization puts the fields one behind the other.
SerializedSize(fields) == FoldLeft(LAMBDA end, width : end + width, 0, fields)

\* The compiler aligns each field to its width, and the struct to the widest of them.
SizeOf(fields) ==
  Aligned(FoldLeft(LAMBDA end, width : Aligned(end, width) + width, 0, fields),
          FoldLeft(LAMBDA widest, width : IF width > widest THEN width ELSE widest,
                   1, fields))

\* The kernel takes a value of the size of the map's values, no other.
Fits(fields) == SerializedSize(fields) = SizeOf(fields)

-----------------------------------------------------------------------------
\* The map is empty, or was filled by hand or by an earlier program, which may have
\* left botnet mode on.
KernelInit ==
  /\ \/ config = "zero" /\ mode = 0
     \/ config = "other" /\ mode \in {0, 1}
  /\ count = 0 /\ windowOver = TRUE
  /\ synced = "not yet"
  /\ kernelKey = 0 /\ lastKey = 0
  /\ pollDue = FALSE /\ bcPc = "idle" /\ lastRate = 0
  /\ belowThreshold = FALSE /\ belowFor = 0 /\ botnetActive = FALSE
  /\ copy = "zero" /\ forced = FALSE /\ calm = 0

\* botnet_track_new_ip, for an address that is new; a zero threshold turns it off.
TrackNewIP ==
  /\ config # "zero"
  /\ count' = IF windowOver THEN 1 ELSE IF count > Threshold THEN count ELSE count + 1
  /\ windowOver' = FALSE
  /\ mode' = IF count' > Threshold THEN 1 ELSE mode
  /\ UNCHANGED <<config, synced, keyVars, controllerVars>>

\* SyncConfig, called once, after the controller was started.
SyncConfig ==
  /\ synced = "not yet"
  /\ \E runs \in BOOLEAN :
       /\ synced' = IF ~runs THEN "failed" ELSE IF Fits(Fields) THEN "done" ELSE "refused"
       /\ config' = IF synced' = "done" THEN "synced" ELSE config
       /\ mode' = IF synced' = "done" THEN 0 ELSE mode
  /\ UNCHANGED <<filterVars, keyVars, controllerVars>>

\* RotateSynCookieKey, at startup and each day.
RotateSynCookieKey ==
  /\ synced # "not yet" /\ kernelKey < MaxKeys
  /\ \E runs \in BOOLEAN :
       /\ kernelKey' = IF runs /\ Fits(KeyFields) THEN kernelKey + 1 ELSE kernelKey
       /\ lastKey' = IF runs /\ Fits(KeyFields) THEN kernelKey' ELSE lastKey
  /\ UNCHANGED <<mapVars, filterVars, synced, controllerVars>>

-----------------------------------------------------------------------------
BcGoes(from, to) == bcPc = from /\ bcPc' = to
Kernel == <<mapVars, filterVars, synced, keyVars>>

\* readNewIPRate: the sum as printed, or, in the quoted form of the output, without the
\* lowest byte, for the first byte of each value is taken for part of the name.
PollReads ==
  /\ pollDue /\ pollDue' = FALSE
  /\ \E rate \in {count, count \div 256} :
       /\ lastRate' = rate
       /\ calm' = IF rate < Half THEN calm ELSE 0
  /\ BcGoes("idle", "decide")
  /\ UNCHANGED <<Kernel, belowThreshold, belowFor, botnetActive, copy, forced>>

PollFails ==
  /\ pollDue /\ pollDue' = FALSE /\ bcPc = "idle"
  /\ UNCHANGED <<Kernel, bcPc, lastRate, belowThreshold, belowFor, botnetActive, copy,
                 forced, calm>>

DecideKeepsBelow ==      \* mutant: a high rate does not end the cooldown
  /\ \/ /\ lastRate < Half /\ ~belowThreshold
        /\ belowThreshold' = TRUE /\ belowFor' = 0 /\ BcGoes("decide", "idle")
        /\ UNCHANGED botnetActive
     \/ /\ lastRate < Half /\ belowThreshold
        /\ BcGoes("decide", IF belowFor >= Cooldown /\ botnetActive THEN "read" ELSE "idle")
        /\ UNCHANGED <<belowThreshold, belowFor, botnetActive>>
     \/ /\ lastRate >= Half /\ BcGoes("decide", "idle")
        /\ botnetActive' = TRUE /\ UNCHANGED <<belowThreshold, belowFor>>
  /\ UNCHANGED <<Kernel, pollDue, lastRate, copy, forced, calm>>

\* The rest of poll, under the mutex.
Decide ==
  /\ \/ /\ lastRate < Half /\ ~belowThreshold
        /\ belowThreshold' = TRUE /\ belowFor' = 0 /\ BcGoes("decide", "idle")
        /\ UNCHANGED botnetActive
     \/ /\ lastRate < Half /\ belowThreshold
        /\ BcGoes("decide", IF belowFor >= Cooldown /\ botnetActive THEN "read" ELSE "idle")
        /\ UNCHANGED <<belowThreshold, belowFor, botnetActive>>
     \/ /\ lastRate >= Half /\ BcGoes("decide", "idle")
        /\ belowThreshold' = FALSE /\ botnetActive' = TRUE /\ UNCHANGED belowFor
  /\ UNCHANGED <<Kernel, pollDue, lastRate, copy, forced, calm>>

\* No code calls ForceDisable; someone may, once the process has started.
ForceDisable ==
  /\ synced # "not yet"
  /\ BcGoes("idle", "read") /\ forced' = TRUE
  /\ UNCHANGED <<Kernel, pollDue, lastRate, belowThreshold, belowFor, botnetActive, copy, calm>>

\* writeBotnetModeActive(0) reads the entry ...
ReadConfig ==
  /\ \/ BcGoes("read", "write") /\ copy' = config /\ UNCHANGED forced
     \/ BcGoes("read", "idle") /\ forced' = FALSE /\ UNCHANGED copy
  /\ UNCHANGED <<Kernel, pollDue, lastRate, belowThreshold, belowFor, botnetActive, calm>>

\* ... and writes it back; what it read has the size of the entry.
WriteConfig ==
  /\ BcGoes("write", "idle") /\ forced' = FALSE
  /\ \/ /\ config' = copy /\ mode' = 0
        /\ botnetActive' = FALSE
        /\ belowThreshold' = (belowThreshold /\ ~forced)
     \/ UNCHANGED <<mapVars, botnetActive, belowThreshold>>
  /\ UNCHANGED <<filterVars, synced, keyVars, pollDue, lastRate, belowFor, copy,
                 calm>>

KernelTick ==
  /\ ~pollDue /\ pollDue' = TRUE
  /\ windowOver' = TRUE
  /\ belowFor' = IF belowFor < Cooldown THEN belowFor + 1 ELSE belowFor
  /\ calm' = IF calm < Cooldown THEN calm + 1 ELSE calm
  /\ UNCHANGED <<mapVars, count, synced, keyVars, bcPc, lastRate, belowThreshold,
                 botnetActive, copy, forced>>

KernelNext ==
  \/ TrackNewIP
  \/ SyncConfig \/ RotateSynCookieKey
  \/ PollReads \/ PollFails \/ Decide \/ ForceDisable \/ ReadConfig \/ WriteConfig
  \/ KernelTick

KernelSpec == KernelInit /\ [][KernelNext]_kernelVars

-----------------------------------------------------------------------------
\* The controller turns botnet mode off only when every rate it read for a whole
\* cooldown was below half the threshold, also when polls fail in between and when the
\* filter turns the mode on again meanwhile; ForceDisable is the exception.
CalmBeforeOff ==
  [][bcPc = "write" /\ ~forced /\ mode = 1 /\ mode' = 0 => calm >= Cooldown]_kernelVars

\* The serialized settings match the layout of the map's value exactly, as the comments
\* of XDPConfig and SyncConfig have it: the kernel does not refuse what bpftool hands it.
ConfigTaken == synced # "refused"
=================================================================================
