-------------------------------- MODULE Node --------------------------------
(***************************************************************************)
(* The parts of node and master that share no state with one another, in one *)
(* system.  Where they run side by side no step of one can be seen by        *)
(* another, so a behaviour of the whole is one of each part: it is enough to  *)
(* let the part in focus move, from any of its initial states, with the       *)
(* others at rest.  Each property is about the variables of one part.         *)
(***************************************************************************)
EXTENDS ConnPool, BinaryUpdate, OfflineMode, HealthMonitor, KernelConfig, GeoIPLoader,
        TrafficGuard, Snapshots, MasterAdmin, Installer, UpdateLoop, NodeConfig, RuntimeConfig,
        SignedUpdate, XDPFilter

\* Of the parts that begin in one of many states, the state in which they rest.
CONSTANTS RestDocument, RestPolicy, RestFilter

CONSTANTS Admins, SoldPlans, LicenseOps, LastDay, NoRow, Nothing    \* those of License

VARIABLES row, keyKnown, today, req, sold

licenseVars == <<row, keyKnown, today, req, sold>>

Lic == INSTANCE LicenseSales WITH Requests <- Admins, Plans <- SoldPlans, Ops <- LicenseOps,
                                  MaxNow <- LastDay, now <- today

ASSUME NodeAssumption ==
  /\ RestDocument \in RuntimeDocuments /\ RestPolicy \in Policies /\ RestFilter \in FilterSettings
  /\ "community" \in SoldPlans
  /\ LicenseOps \subseteq Lic!ReadWriteOps \cup {"Renew", "Revoke", "Rotate", "Delete"}
  /\ LastDay \in Nat /\ NoRow \notin Lic!Rows /\ Nothing \notin Lic!InProgress

VARIABLE focus

allVars == <<focus, licenseVars, vars, updateVars, offlineVars, monitorVars, kernelVars,
             geoVars, trafficVars, snapshotVars, adminVars, installVars, updateLoopVars,
             nodeConfigVars, runtimeConfigVars, signedVars, filterAllVars>>

Parts == {"pool", "update", "offline", "monitor", "kernel",
          "geoip", "traffic", "snapshots", "admin", "installer",
          "loop", "config", "runtime", "signed", "filter", "license"}

\* A part that is not in focus rests in one of its initial states.
Starts(part, state) == IF part = focus THEN TRUE ELSE state
NodeInit ==
  /\ focus \in Parts
  /\ Starts("kernel", config = "zero")
  /\ Starts("traffic", planThreshold = 0)
  /\ Starts("runtime", document = RestDocument)
  /\ Starts("signed", policy = RestPolicy)
  /\ Starts("filter", kiroConfig = RestFilter)
  /\ Starts("license", row = Lic!Registered)
  /\ Init
  /\ UpdateInit
  /\ OfflineInit
  /\ MonitorInit
  /\ KernelInit
  /\ GeoInit
  /\ TrafficInit
  /\ SnapshotInit
  /\ AdminInit
  /\ InstallerInit
  /\ UpdateLoopInit
  /\ NodeConfigInit
  /\ RuntimeConfigInit
  /\ SignedUpdateInit
  /\ XDPInit
  /\ Lic!SalesInit
  /\ Starts("installer", disk[Host]["config"] = "none")
  /\ focus # "update" => way = "ota" /\ files["target"] = Absent /\ backupDir

Rests(part, state) == IF part = focus THEN TRUE ELSE UNCHANGED state
OnlyFocusMoves ==
  /\ Rests("pool", vars)
  /\ Rests("update", updateVars)
  /\ Rests("offline", offlineVars)
  /\ Rests("monitor", monitorVars)
  /\ Rests("kernel", kernelVars)
  /\ Rests("geoip", geoVars)
  /\ Rests("traffic", trafficVars)
  /\ Rests("snapshots", snapshotVars)
  /\ Rests("admin", adminVars)
  /\ Rests("installer", installVars)
  /\ Rests("loop", updateLoopVars)
  /\ Rests("config", nodeConfigVars)
  /\ Rests("runtime", runtimeConfigVars)
  /\ Rests("signed", signedVars)
  /\ Rests("filter", filterAllVars)
  /\ Rests("license", licenseVars)
  /\ UNCHANGED focus

NodeNext ==
  \/ focus = "pool" /\ OnlyFocusMoves /\ Next
  \/ focus = "update" /\ OnlyFocusMoves /\ UpdateNext
  \/ focus = "offline" /\ OnlyFocusMoves /\ OfflineNext
  \/ focus = "monitor" /\ OnlyFocusMoves /\ MonitorNext
  \/ focus = "kernel" /\ OnlyFocusMoves /\ KernelNext
  \/ focus = "geoip" /\ OnlyFocusMoves /\ GeoNext
  \/ focus = "traffic" /\ OnlyFocusMoves /\ TrafficNext
  \/ focus = "snapshots" /\ OnlyFocusMoves /\ SnapshotNext
  \/ focus = "admin" /\ OnlyFocusMoves /\ AdminNext
  \/ focus = "installer" /\ OnlyFocusMoves /\ InstallerNext
  \/ focus = "loop" /\ OnlyFocusMoves /\ UpdateLoopNext
  \/ focus = "config" /\ OnlyFocusMoves /\ NodeConfigNext
  \/ focus = "runtime" /\ OnlyFocusMoves /\ RuntimeConfigNext
  \/ focus = "signed" /\ OnlyFocusMoves /\ SignedUpdateNext
  \/ focus = "filter" /\ OnlyFocusMoves /\ XDPNext
  \/ focus = "license" /\ OnlyFocusMoves /\ Lic!SalesNext

NodeSpec == NodeInit /\ [][NodeNext]_allVars

\* Every part keeps its types: each type invariant bounds what a long run of legal
\* calls, failures and crashes can make of the part's state.
NodeTypesOK ==
  /\ focus = "pool" => TypeOK
  /\ focus = "update" => UpdateTypeOK
  /\ focus = "offline" => OfflineTypeOK
  /\ focus = "monitor" => MonitorTypeOK
  /\ focus = "kernel" => KernelTypeOK
  /\ focus = "geoip" => GeoTypeOK
  /\ focus = "traffic" => TrafficTypeOK
  /\ focus = "snapshots" => SnapshotTypeOK
  /\ focus = "admin" => AdminTypeOK
  /\ focus = "installer" => InstallerTypeOK
  /\ focus = "loop" => UpdateLoopTypeOK
  /\ focus = "config" => NodeConfigTypeOK
  /\ focus = "runtime" => RuntimeConfigTypeOK
  /\ focus = "signed" => SignedUpdateTypeOK
  /\ focus = "filter" => XDPTypeOK
  /\ focus = "license" => Lic!LicenseTypeOK

\* LicenseSales' PaidAsSold: a paid plan is one that was sold, with the end it was sold with.
PaidAsSold == Lic!PaidAsSold
=============================================================================
