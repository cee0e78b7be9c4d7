---------------------------- MODULE UpdateProofs ----------------------------
(***************************************************************************)
(* How a server comes by its programs and by the configuration of          *)
(* kiro-cli, proved for any releases, versions, binaries, manifests and    *)
(* files: the binary on disk (BinaryUpdate), the loop that asks for        *)
(* updates (UpdateLoop), what is asked of a signed manifest                *)
(* (SignedUpdate), the installer (Installer) and the configuration files   *)
(* (RuntimeConfig).  Each part has an inductive invariant of its own; that *)
(* of the manifests rests on the order of versions, which is shown to be   *)
(* one by looking at the first place where two of them differ, and what    *)
(* the configuration files expand into rests on two recursive functions,   *)
(* which are found by induction over the length of what they are given.    *)
(***************************************************************************)
EXTENDS BinaryUpdate, UpdateLoop, SignedUpdate, Installer, RuntimeConfig, InductionLemmas,
        SequenceTheorems, TLAPS

-----------------------------------------------------------------------------
(* Where the good copy is at each step of an update *)

OtaSteps == {"ota backup", "ota copy", "ota swap", "ota health", "ota rollback"}
CliSteps == {"cli verify", "cli backup", "cli replace", "cli restore", "cli restart",
             "cli undo", "cli undone", "cli health", "cli failed", "cli rollback"}
PendingSteps == {"pending record", "pending copy", "pending health", "pending uncopied",
                 "pending unhealthy", "pending forget", "asked rollback", "asked forget"}

\* An update keeps to the steps of its way, and installs an image.
OnItsWay ==
  /\ at \in OtaSteps => way = "ota"
  /\ at \in CliSteps => way = "cli"
  /\ at \in PendingSteps => way = "pending"
  /\ way # "pending" => pending = Absent
  /\ at \in OtaSteps \cup (CliSteps \ {"cli rollback"}) \cup {"pending record", "pending copy", "pending health"}
       => artifact \in Images

\* The old binary is still in place, or whole in the backup, once the backup was written;
\* without a directory for it there never is a backup.
OtaKeeps ==
  /\ Target = Absent => files["prev"] = Absent /\ gamble
  /\ ~backupDir => files["prev"] = Absent
  /\ at \in {"ota backup", "ota copy"} => Target = was /\ (~gamble => Target \in proven)
  /\ at = "ota copy" => Target # Absent /\ backupDir
  /\ at = "ota swap" => Target = was /\ (backupDir => files["prev"] = Target)
  /\ at \in {"ota health", "ota rollback"} /\ backupDir => files["prev"] = was
  /\ at \in {"ota swap", "ota health", "ota rollback"} /\ backupDir /\ ~gamble =>
       files["prev"] \in proven
  /\ at = "idle" /\ backupDir /\ ~gamble => Target \in proven \/ files["prev"] \in proven

\* The binary is moved aside, so it is in one of two places, and it is never a doubtful one
\* that is moved aside without a gamble.
CliKeeps ==
  /\ files["bak"] # Torn
  /\ ~gamble => files["bak"] \in proven \cup {Absent}
  /\ ~gamble => Target \in proven \/ files["bak"] \in proven
  /\ at \in {"cli verify", "cli backup"} =>
       Target = was /\ (~gamble /\ Target # Absent => Target \in proven)
  /\ at \in {"cli backup", "cli replace"} => files["download"] = artifact
  /\ at \in CliSteps \ {"cli verify", "cli backup"} =>
       files["bak"] = was /\ was # Absent /\ (~gamble => files["bak"] \in proven)

PendingKeeps ==
  /\ Target # Absent
  /\ ~gamble => pending \in proven \cup {Absent}
  /\ ~gamble => Target \in proven \/ pending \in proven
  /\ at = "pending record" => Target = was /\ (~gamble => Target \in proven)
  /\ at \in {"pending copy", "pending health", "pending uncopied", "pending unhealthy",
            "asked rollback"} => pending = was /\ was # Absent
  /\ at \in {"pending copy", "pending uncopied"} => Target = was
  /\ at \in {"pending forget", "asked forget"} =>
       Target = was /\ (~gamble => Target \in proven)

UpdateInv ==
  /\ UpdateTypeOK
  /\ OnItsWay
  /\ way = "ota" => OtaKeeps
  /\ way = "cli" => CliKeeps
  /\ way = "pending" => PendingKeeps

LEMMA UpdateInitial == UpdateInit => UpdateInv
<1> SUFFICES ASSUME UpdateInit PROVE UpdateInv
    OBVIOUS
<1> USE UpdateAssumption
    DEF UpdateStart, UpdateInv, UpdateTypeOK, OnItsWay, OtaKeeps, CliKeeps, PendingKeeps, Target,
        Paths, UpdateSteps, OtaSteps, CliSteps, PendingSteps
<1>1. ASSUME NEW how \in {"ota", "cli", "pending"}, UpdateStart(how, Installed) PROVE UpdateInv
      BY <1>1
<1>2. ASSUME UpdateStart("ota", Absent) PROVE UpdateInv
      BY <1>2
<1> QED
    BY <1>1, <1>2 DEF UpdateInit

LEMMA UpdateStep == UpdateInv /\ [UpdateNext]_updateVars => UpdateInv'
<1> SUFFICES ASSUME UpdateInv, [UpdateNext]_updateVars PROVE UpdateInv'
    OBVIOUS
<1> USE UpdateAssumption
    DEF UpdateInv, UpdateTypeOK, OnItsWay, OtaKeeps, CliKeeps, PendingKeeps, Target,
        Paths, UpdateSteps, OtaSteps, CliSteps, PendingSteps, updateState, updateHistory,
        Step, Begin, Ends, GoesOn, Fails, Active, FoundActive, Write, Rename, FilesKept,
        OtaFails, NothingToBackUp, CliUnchanged, CliGoes, PendingUnchanged, PendingGoes, Restores
<1>1. ASSUME NEW i \in Images, OtaDownload(i) PROVE UpdateInv'
      BY <1>1 DEF OtaDownload
<1>2. ASSUME NEW i \in Images, CliDownload(i) PROVE UpdateInv'
      BY <1>2 DEF CliDownload
<1>3. ASSUME NEW i \in Images, PendingSnapshot(i) PROVE UpdateInv'
      BY <1>3 DEF PendingSnapshot
<1>4. CASE OtaOpenBackup
  <2>1. CASE NothingToBackUp /\ Step("ota backup", "ota swap") /\ FilesKept
        BY <1>4, <2>1, ZenonT(60) DEF OtaOpenBackup
  <2>2. CASE ~NothingToBackUp /\ Step("ota backup", "ota copy") /\ Write("prev", Torn)
        BY <1>4, <2>2 DEF OtaOpenBackup
  <2> QED
      BY <1>4, <2>1, <2>2 DEF OtaOpenBackup
<1>5. CASE OtaCopyBackup
      BY <1>5 DEF OtaCopyBackup
<1>6. CASE OtaSwap
  <2>1. CASE OtaFails("ota swap") /\ FilesKept
        BY <1>6, <2>1, ZenonT(60) DEF OtaSwap
  <2>2. CASE /\ Step("ota swap", "ota health") /\ Write("target", artifact) /\ GoesOn
             /\ status' = "idle" /\ versions' = [versions EXCEPT !.previous = versions.current]
             /\ UNCHANGED artifact
    <3>1. versions' \in [current : Images \cup {Absent}, previous : Images \cup {Absent}]
          BY <2>2
    <3>2. files' \in [Paths -> Images \cup {Absent, Torn}]
          BY <2>2
    <3>3. files'["target"] = artifact /\ files'["prev"] = files["prev"]
          BY <2>2
    <3>4. /\ at = "ota swap" /\ at' = "ota health" /\ way' = way /\ backupDir' = backupDir
          /\ pending' = pending
          /\ artifact' = artifact /\ status' = "idle" /\ outcome' = outcome
          /\ was' = was /\ proven' = proven /\ gamble' = gamble
          BY <1>6, <2>2 DEF OtaSwap
    <3> QED
        BY <3>1, <3>2, <3>3, <3>4
  <2> QED
      BY <1>6, <2>1, <2>2 DEF OtaSwap
<1>7. CASE OtaHealth
  <2>1. /\ way' = way /\ backupDir' = backupDir /\ files' = files /\ pending' = pending
        /\ artifact' = artifact /\ versions' = versions /\ was' = was /\ gamble' = gamble
        /\ at = "ota health" /\ way = "ota"
        BY <1>7 DEF OtaHealth
  <2>2. CASE at' = "ota rollback" /\ proven' = proven /\ outcome' = outcome
             /\ status' = "rolling_back"
        BY <2>1, <2>2
  <2>3. CASE at' = "idle" /\ proven' = proven /\ outcome' = outcome /\ status' = status
        BY <2>1, <2>3, ZenonT(60)
  <2>4. CASE at' = "idle" /\ proven' = proven \cup {Target} /\ outcome' = "updated"
             /\ status' = status /\ Target \in Working
        BY <2>1, <2>4
  <2> QED
      BY <1>7, <2>2, <2>3, <2>4 DEF OtaHealth
<1>8. CASE OtaRollback
  <2>1. CASE OtaFails("ota rollback") /\ FilesKept
        BY <1>8, <2>1, ZenonT(60) DEF OtaRollback
  <2>2. CASE /\ files["prev"] # Absent
             /\ Step("ota rollback", "idle") /\ Rename("prev", "target") /\ Ends("rolled back")
             /\ versions' = [current |-> versions.previous, previous |-> Absent]
             /\ status' = "idle" /\ UNCHANGED artifact
    <3>1. versions' \in [current : Images \cup {Absent}, previous : Images \cup {Absent}]
          BY <2>2
    <3>2. files' \in [Paths -> Images \cup {Absent, Torn}]
          BY <2>2
    <3>3. files'["target"] = files["prev"] /\ files'["prev"] = Absent
          BY <2>2
    <3>4. /\ at = "ota rollback" /\ at' = "idle" /\ way' = way /\ backupDir' = backupDir
          /\ pending' = pending
          /\ artifact' = artifact /\ status' = "idle" /\ outcome' = "rolled back"
          /\ was' = was /\ proven' = proven /\ gamble' = gamble
          BY <1>8, <2>2 DEF OtaRollback
    <3>5. UpdateTypeOK'
          BY <2>2, <3>1, <3>2, <3>3, <3>4
    <3>6. OnItsWay'
          BY <3>4
    <3>7. way = "ota" /\ backupDir /\ (~gamble => files["prev"] \in proven)
          BY <2>2, <3>4
    <3>8. OtaKeeps'
      <4>1. Target' # Absent
            BY <2>2, <3>3
      <4>2. ~gamble' => Target' \in proven'
            BY <3>3, <3>4, <3>7
      <4> QED
          BY ONLY <3>4, <3>7, <4>1, <4>2 DEF OtaKeeps
    <3> QED
        BY <3>4, <3>5, <3>6, <3>7, <3>8
  <2> QED
      BY <1>8, <2>1, <2>2 DEF OtaRollback
<1>9. CASE CliVerify
  <2>1. CASE CliGoes("cli verify", "cli backup") /\ Write("download", artifact)
    <3>1. /\ way' = way /\ backupDir' = backupDir /\ pending' = pending /\ artifact' = artifact
          /\ status' = status /\ versions' = versions /\ was' = was /\ proven' = proven
          /\ gamble' = gamble /\ outcome' = outcome /\ at = "cli verify" /\ at' = "cli backup"
          BY <2>1
    <3>2. files' = [files EXCEPT !["download"] = artifact] /\ way = "cli" /\ artifact \in Images
          BY <2>1
    <3>3. /\ files' \in [Paths -> Images \cup {Absent, Torn}]
          /\ files'["target"] = files["target"] /\ files'["bak"] = files["bak"]
          /\ files'["download"] = artifact
          BY <3>2
    <3>4. UpdateTypeOK'
          BY <3>1, <3>3
    <3>5. OnItsWay'
          BY <3>1, <3>2
    <3>6. CliKeeps'
          BY <3>1, <3>2, <3>3
    <3> QED
        BY <3>1, <3>2, <3>4, <3>5, <3>6
  <2>2. CASE CliGoes("cli verify", "idle") /\ Write("download", Absent)
        BY <2>2, ZenonT(60)
  <2> QED
      BY <1>9, <2>1, <2>2 DEF CliVerify
<1>10. CASE CliBackup
      BY <1>10, ZenonT(60) DEF CliBackup
<1>11. CASE CliReplace
      BY <1>11, ZenonT(60) DEF CliReplace
<1>12. CASE CliRestore
      BY <1>12, ZenonT(60) DEF CliRestore
<1>13. CASE CliRestart
      BY <1>13, ZenonT(60) DEF CliRestart
<1>14. CASE CliUndo
      BY <1>14, ZenonT(60) DEF CliUndo
<1>15. CASE CliUndone
      BY <1>15, ZenonT(60) DEF CliUndone
<1>16. CASE CliHealth
      BY <1>16, ZenonT(60) DEF CliHealth
<1>17. CASE CliFailed
      BY <1>17 DEF CliFailed
<1>18. CASE CliRollback
  <2>1. CASE Rename("bak", "target") /\ (Ends("rolled back") \/ GoesOn)
        BY <1>18, <2>1, ZenonT(60) DEF CliRollback
  <2>2. CASE FilesKept /\ GoesOn
        BY <1>18, <2>2, ZenonT(60) DEF CliRollback
  <2> QED
      BY <1>18, <2>1, <2>2 DEF CliRollback
<1>19. CASE PendingRecord
      BY <1>19, ZenonT(60) DEF PendingRecord
<1>20. CASE PendingCopy
  <2>1. CASE PendingGoes("pending copy", "pending health") /\ Write("target", artifact)
        BY <1>20, <2>1, ZenonT(60) DEF PendingCopy
  <2>2. CASE PendingGoes("pending copy", "pending uncopied") /\ FilesKept
        BY <1>20, <2>2, ZenonT(60) DEF PendingCopy
  <2> QED
      BY <1>20, <2>1, <2>2 DEF PendingCopy
<1>21. CASE PendingHealth
      BY <1>21 DEF PendingHealth
<1>22. ASSUME NEW from \in {"pending uncopied", "pending unhealthy"},
              NEW failed \in {"rolled back", "rollback failed"}, PendingRollback(from, failed)
       PROVE UpdateInv'
  <2>1. CASE Restores(from, "pending forget")
        BY <2>1, ZenonT(60)
  <2>2. CASE /\ Step(from, "idle") /\ Ends(failed)
             /\ FilesKept /\ UNCHANGED <<pending, artifact>> /\ PendingUnchanged
        BY <2>2, ZenonT(60)
  <2> QED
      BY <1>22, <2>1, <2>2 DEF PendingRollback
<1>23. CASE PendingForget
      BY <1>23 DEF PendingForget
<1>24. CASE AskRollback
      BY <1>24 DEF AskRollback
<1>25. CASE ConfirmPending
  <2>1. /\ way' = way /\ backupDir' = backupDir /\ files' = files /\ pending' = Absent
        /\ at = "idle" /\ at' = "idle" /\ artifact' = artifact /\ status' = status
        /\ versions' = versions /\ was' = was /\ proven' = proven /\ outcome' = outcome
        /\ gamble' = (gamble \/ Target \notin proven) /\ way = "pending"
        BY <1>25 DEF ConfirmPending
  <2>2. gamble' \in BOOLEAN
        BY <2>1
  <2>3. UpdateTypeOK'
        BY <2>1, <2>2
  <2>4. OnItsWay'
        BY <2>1
  <2>5. ~gamble' => ~gamble /\ Target \in proven
        BY <2>1
  <2>6. PendingKeeps'
        BY <2>1, <2>5
  <2> QED
      BY <2>1, <2>3, <2>4, <2>6
<1>28. CASE AskedRollback
  <2>1. CASE Restores("asked rollback", "asked forget")
        BY <2>1, ZenonT(60)
  <2>2. CASE PendingGoes("asked rollback", "idle") /\ FilesKept /\ UNCHANGED pending
        BY <2>2, ZenonT(60)
  <2> QED
      BY <1>28, <2>1, <2>2 DEF AskedRollback
<1>29. CASE AskedForget
      BY <1>29, ZenonT(60) DEF AskedForget
<1>30. CASE CliAskRollback
      BY <1>30 DEF CliAskRollback
<1>26. CASE UpdateCrash
      BY <1>26, ZenonT(60) DEF UpdateCrash
<1>27. CASE UNCHANGED updateVars
  <2>1. /\ way' = way /\ backupDir' = backupDir /\ files' = files /\ pending' = pending /\ at' = at
        /\ artifact' = artifact /\ status' = status /\ versions' = versions /\ was' = was
        /\ proven' = proven /\ gamble' = gamble /\ outcome' = outcome
        BY <1>27 DEF updateVars
  <2>2. UpdateTypeOK'
    <3>1. files' \in [Paths -> Images \cup {Absent, Torn}] /\ files'["target"] # Torn
          BY <2>1
    <3>2. versions' \in [current : Images \cup {Absent}, previous : Images \cup {Absent}]
          BY <2>1
    <3>3. /\ pending' \in Images \cup {Absent} /\ artifact' \in Images \cup {Absent}
          /\ was' \in Images \cup {Absent} /\ proven' \subseteq Working
          BY <2>1
    <3>4. gamble' \in BOOLEAN
          BY <2>1
    <3>5. /\ way' \in {"ota", "cli", "pending"} /\ backupDir' \in BOOLEAN /\ at' \in UpdateSteps
          BY <2>1
    <3>6. /\ outcome' \in {"none", "updated", "rolled back", "rollback failed"}
          /\ status' \in {"idle", "applying", "rolling_back"}
          BY <2>1
    <3> QED
        BY <3>1, <3>2, <3>3, <3>4, <3>5, <3>6
  <2>3. OnItsWay'
        BY <2>1
  <2>4. (way = "ota" => OtaKeeps)' /\ (way = "cli" => CliKeeps)' /\ (way = "pending" => PendingKeeps)'
        BY <2>1
  <2> QED
      BY <2>2, <2>3, <2>4
<1> QED
    BY <1>1, <1>2, <1>3, <1>4, <1>5, <1>6, <1>7, <1>8, <1>9, <1>10, <1>11, <1>12, <1>13, <1>14, <1>15, <1>16, <1>17, <1>18, <1>19, <1>20, <1>21, <1>22, <1>23, <1>24, <1>25, <1>26, <1>27, <1>28, <1>29, <1>30 DEF UpdateNext

LEMMA UpdateInvariant == UpdateSpec => []UpdateInv
BY UpdateInitial, UpdateStep, PTL DEF UpdateSpec

\* For any set of images: the binary that is installed is a whole one, or none, and so is what
\* every other variable of the updaters says (UpdateTypeOK).
THEOREM UpdateTypes == UpdateSpec => []UpdateTypeOK
BY UpdateInvariant, PTL DEF UpdateInv

\* For any set of images, in each of the three ways of updating, wherever an update fails or
\* is cut off: an image that has worked is installed or kept as a backup, unless an update was
\* begun on top of one that nobody found working, or the directory of BackupPath is not there
\* (ApplyUpdate, HealthCheckAndRollback, update.Apply, ApplyFileWithRollback).
THEOREM GoodCopySurvives == UpdateSpec => []GoodCopyKept
<1>1. UpdateInv => GoodCopyKept
  <2>1. CASE way = "ota"
        BY <2>1, UpdateAssumption
        DEF UpdateInv, UpdateTypeOK, OnItsWay, OtaKeeps, GoodCopyKept, Target, UpdateSteps, OtaSteps,
            CliSteps, PendingSteps
  <2>2. CASE way = "cli"
        BY <2>2 DEF UpdateInv, CliKeeps, GoodCopyKept, Target
  <2>3. CASE way = "pending"
        BY <2>3 DEF UpdateInv, PendingKeeps, GoodCopyKept, Target
  <2> QED
      BY <2>1, <2>2, <2>3 DEF UpdateInv, UpdateTypeOK
<1> QED
    BY <1>1, UpdateInvariant, PTL

\* An update that comes to say that it was rolled back has at that moment put back, whole, the
\* very binary that it began on, in each of the three ways, and a rollback that was asked for
\* the last backup; only where the rollback after a failed health check fails as well is
\* RolledBack set over a binary that was not put back.
THEOREM RollbackIsExact == UpdateSpec => RolledBackExactly
<1> DEFINE Exact == outcome' = "rolled back" /\ outcome # "rolled back" =>
                      files'["target"] = was /\ was \in Images
<1>1. ASSUME UpdateInv, [UpdateNext]_updateVars PROVE Exact
  <2> USE <1>1
      DEF UpdateInv, UpdateTypeOK, OnItsWay, OtaKeeps, CliKeeps, PendingKeeps, Target,
        Paths, UpdateSteps, OtaSteps, CliSteps, PendingSteps, updateState, updateHistory,
        Step, Begin, Ends, GoesOn, Fails, Active, FoundActive, Write, Rename, FilesKept,
        OtaFails, NothingToBackUp, CliUnchanged, CliGoes, PendingUnchanged, PendingGoes, Restores
  <2>1. ASSUME NEW i \in Images, OtaDownload(i) \/ CliDownload(i) \/ PendingSnapshot(i) PROVE Exact
        BY <2>1 DEF OtaDownload, CliDownload, PendingSnapshot
  <2>2. CASE OtaOpenBackup \/ OtaCopyBackup \/ OtaSwap \/ OtaHealth
        BY <2>2 DEF OtaOpenBackup, OtaCopyBackup, OtaSwap, OtaHealth
  <2>3. CASE OtaRollback
        BY <2>3 DEF OtaRollback
  <2>4. CASE CliVerify \/ CliBackup \/ CliReplace \/ CliRestart \/ CliUndo \/
            CliHealth \/ CliAskRollback
        BY <2>4 DEF CliVerify, CliBackup, CliReplace, CliRestart, CliUndo, CliHealth,
            CliAskRollback
  <2>5. CASE CliRestore
        BY <2>5 DEF CliRestore
  <2>6. CASE CliUndone
        BY <2>6 DEF CliUndone
  <2>7. CASE CliFailed
        BY <2>7 DEF CliFailed
  <2>8. CASE PendingRecord \/ PendingCopy \/ PendingHealth
        BY <2>8 DEF PendingRecord, PendingCopy, PendingHealth
  <2>9. CASE PendingForget \/ AskedForget
        BY <2>9 DEF PendingForget, AskedForget
  <2>10. CASE AskRollback \/ AskedRollback \/ ConfirmPending \/ UpdateCrash
        BY <2>10 DEF AskRollback, AskedRollback, ConfirmPending, UpdateCrash
  <2>12. CASE CliRollback
        BY <2>12 DEF CliRollback
  <2>13. CASE PendingRollback("pending uncopied", "rolled back")
        BY <2>13 DEF PendingRollback
  <2>14. CASE PendingRollback("pending unhealthy", "rollback failed")
        BY <2>14 DEF PendingRollback
  <2>11. CASE UNCHANGED updateVars
        BY <2>11 DEF updateVars
  <2> QED
      BY <2>1, <2>2, <2>3, <2>4, <2>5, <2>6, <2>7, <2>8, <2>9, <2>10, <2>11, <2>12, <2>13, <2>14 DEF UpdateNext
<1> QED
    BY <1>1, UpdateInvariant, PTL DEF UpdateSpec, RolledBackExactly

-----------------------------------------------------------------------------
(* The loop that asks for updates *)

LoopInv == UpdateLoopTypeOK /\ AnnouncementKept

LEMMA LoopInit == UpdateLoopInit => LoopInv
BY UpdateLoopAssumption DEF UpdateLoopInit, LoopInv, UpdateLoopTypeOK, AnnouncementKept

LEMMA LoopStep == LoopInv /\ [UpdateLoopNext]_updateLoopVars => LoopInv'
<1> SUFFICES ASSUME LoopInv, [UpdateLoopNext]_updateLoopVars PROVE LoopInv'
    OBVIOUS
<1> USE DEF LoopInv, UpdateLoopTypeOK, AnnouncementKept
<1>1. ASSUME NEW r \in Releases, Publish(r) PROVE LoopInv'
      BY <1>1 DEF Publish
<1>2. CASE TriggerUpdateCheck
      BY <1>2 DEF TriggerUpdateCheck
<1>3. CASE PollTick
      BY <1>3 DEF PollTick
<1>4. CASE TakeSignal
      BY <1>4 DEF TakeSignal
<1>5. CASE CheckForUpdate
      BY <1>5 DEF CheckForUpdate, LogOffer
<1>6. CASE StopLoop
      BY <1>6 DEF StopLoop
<1>7. CASE UNCHANGED updateLoopVars
      BY <1>7 DEF updateLoopVars
<1> QED
    BY <1>1, <1>2, <1>3, <1>4, <1>5, <1>6, <1>7 DEF UpdateLoopNext

\* No announcement of an update is lost (Run and TriggerUpdateCheck of
\* client/updater/updater.go), for any set of releases: a signal dropped because one is
\* waiting, and a ticker that is reset after a check, cost nothing, because the announcements
\* that no check has begun after are exactly covered by the one signal in the channel.
THEOREM NoAnnouncementLost == UpdateLoopSpec => []AnnouncementKept
<1>1. UpdateLoopSpec => []LoopInv
      BY LoopInit, LoopStep, PTL DEF UpdateLoopSpec
<1> QED
    BY <1>1, PTL DEF LoopInv

\* Whatever is published, asked and answered, the loop and what it has kept of an announcement
\* stay of their types (updateCheckLoop of cmd/kiro-client).
THEOREM UpdateLoopTypes == UpdateLoopSpec => []UpdateLoopTypeOK
<1>1. UpdateLoopSpec => []LoopInv
      BY LoopInit, LoopStep, PTL DEF UpdateLoopSpec
<1> QED
    BY <1>1, PTL DEF LoopInv

-----------------------------------------------------------------------------
(* Signed updates *)

IsVersion(v) == v.numbers \in Seq(Nat)

LEMMA PartIsNat ==
  ASSUME NEW s \in Seq(Nat), NEW i \in Nat \ {0}
  PROVE  Part(s, i) \in Nat /\ (Part(s, i) > 0 => i <= Len(s))
BY DEF Part

\* compareDottedVersion orders versions: of two that are in order, any third is above the one
\* or below the other.
LEMMA OlderIsOrder ==
  ASSUME NEW a, NEW b, NEW c, IsVersion(a), IsVersion(b), IsVersion(c), OlderVersion(a, c)
  PROVE  OlderVersion(a, b) \/ OlderVersion(b, c)
<1> DEFINE x == a.numbers
           y == b.numbers
           z == c.numbers
<1>0. x \in Seq(Nat) /\ y \in Seq(Nat) /\ z \in Seq(Nat)
      BY DEF IsVersion
<1>1. /\ OlderVersion(a, b) <=> \E i \in 1..(Len(x) + Len(y)) :
                                   /\ Part(x, i) < Part(y, i)
                                   /\ \A j \in 1..(i - 1) : Part(x, j) = Part(y, j)
      /\ OlderVersion(b, c) <=> \E i \in 1..(Len(y) + Len(z)) :
                                   /\ Part(y, i) < Part(z, i)
                                   /\ \A j \in 1..(i - 1) : Part(y, j) = Part(z, j)
      /\ \E i \in 1..(Len(x) + Len(z)) :
                                   /\ Part(x, i) < Part(z, i)
                                   /\ \A j \in 1..(i - 1) : Part(x, j) = Part(z, j)
      BY DEF OlderVersion, versionParts
<1> HIDE DEF x, y, z
<1>2. PICK i \in 1..(Len(x) + Len(z)) :
             /\ Part(x, i) < Part(z, i)
             /\ \A j \in 1..(i - 1) : Part(x, j) = Part(z, j)
      BY <1>1
<1>3. Len(x) \in Nat /\ Len(y) \in Nat /\ Len(z) \in Nat /\ i \in Nat \ {0}
      BY <1>0, <1>2
<1>4. \A j \in Nat \ {0} : /\ Part(x, j) \in Nat /\ Part(y, j) \in Nat /\ Part(z, j) \in Nat
                           /\ Part(y, j) > 0 => j <= Len(y)
                           /\ Part(z, j) > 0 => j <= Len(z)
      BY <1>0, PartIsNat
<1> DEFINE D == {j \in 1..i : Part(y, j) # Part(x, j) \/ j = i}
<1>5. PICK m \in D : \A k \in D : ~(k < m)
  <2>1. D \subseteq Nat /\ i \in D
        BY <1>3
  <2> HIDE DEF D
  <2> QED
      BY <2>1, LeastOfSet
<1>6. m \in 1..i /\ \A j \in 1..(m - 1) : Part(y, j) = Part(x, j) /\ Part(y, j) = Part(z, j)
  <2>1. m \in 1..i /\ m \in Nat \ {0}
        BY <1>3, <1>5
  <2>2. ASSUME NEW j \in 1..(m - 1) PROVE Part(y, j) = Part(x, j) /\ Part(x, j) = Part(z, j)
    <3>1. j \in 1..i /\ j # i /\ j < m /\ j \in 1..(i - 1)
          BY <1>3, <2>1
    <3>2. j \notin D
          BY <1>5, <3>1
    <3> QED
        BY <1>2, <3>1, <3>2
  <2> QED
      BY <2>1, <2>2
<1>7. CASE Part(x, m) < Part(y, m)
  <2>1. m \in Nat \ {0} /\ m <= Len(y) /\ m \in 1..(Len(x) + Len(y))
    <3>1. m \in Nat \ {0}
          BY <1>3, <1>6
    <3>2. Part(y, m) > 0
          BY <1>4, <1>7, <3>1
    <3>3. m <= Len(y)
          BY <1>4, <3>1, <3>2
    <3> QED
        BY <1>3, <3>1, <3>3
  <2>2. \A j \in 1..(m - 1) : Part(x, j) = Part(y, j)
        BY <1>6
  <2> QED
      BY <1>1, <1>7, <2>1, <2>2
<1>8. CASE ~(Part(x, m) < Part(y, m))
  <2>1. Part(y, m) < Part(z, m)
    <3>1. m \in Nat \ {0} /\ m \in 1..i
          BY <1>3, <1>6
    <3>2. CASE m = i
          BY <1>2, <1>4, <1>8, <3>1, <3>2
    <3>3. CASE m # i
      <4>1. m \in 1..(i - 1)
            BY <1>3, <3>1, <3>3
      <4>2. Part(x, m) = Part(z, m) /\ Part(y, m) # Part(x, m)
            BY <1>2, <1>5, <3>3, <4>1
      <4> QED
          BY <1>4, <1>8, <3>1, <4>2
    <3> QED
        BY <3>2, <3>3
  <2>2. m \in Nat \ {0} /\ m <= Len(z) /\ m \in 1..(Len(y) + Len(z))
    <3>1. m \in Nat \ {0}
          BY <1>3, <1>6
    <3>2. Part(z, m) > 0
          BY <1>4, <2>1, <3>1
    <3>3. m <= Len(z)
          BY <1>4, <3>1, <3>2
    <3> QED
        BY <1>3, <3>1, <3>3
  <2>3. \A j \in 1..(m - 1) : Part(y, j) = Part(z, j)
        BY <1>6
  <2> QED
      BY <1>1, <2>1, <2>2, <2>3
<1> QED
    BY <1>7, <1>8

\* What VerifyFile has found of a manifest.
Verified(file) ==
  /\ file \in SignedManifests
  /\ MayDowngrade(policy) \/ ~OlderVersion(file.payload.version, currentVersion)

SignedInv ==
  /\ policy \in Policies
  /\ IsVersion(currentVersion)
  /\ fetchAt \in {"compare", "accepted"} =>
       /\ manifest \in SignedManifests /\ outputDir[ManifestPath] = manifest
       /\ item \in Nat \ {0}
       /\ \A i \in DOMAIN Artifacts :
            i < item \/ fetchAt = "accepted" => outputDir[PathOf(i)] = Artifacts[i].sha256
  /\ fetchAt = "compare" => Verified(manifest)
  /\ MayDowngrade(policy) \/ ~OlderVersion(currentVersion, OldVersion)

\* No manifest but a publisher's passes verification.
LEMMA VerifyFindsSigned ==
  ASSUME NEW file \in ManifestFiles, NEW opts, NEW current, Verify(file, opts, current)
  PROVE  file \in SignedManifests /\ (MayDowngrade(opts) \/ ~OlderVersion(file.payload.version, current))
BY SignedUpdateAssumption DEF ManifestFiles, Verify, verifyManifestSignature

\* A signed manifest has a version, and a list of artifacts.
LEMMA SignedIsWellFormed ==
  ASSUME NEW file \in SignedManifests
  PROVE  /\ IsVersion(file.payload.version)
         /\ Len(file.payload.artifacts) \in Nat
         /\ DOMAIN file.payload.artifacts = 1..Len(file.payload.artifacts)
<1>1. PICK p \in Drafts : ValidatePayload(p) /\ file = SignManifest(p)
      BY DEF SignedManifests
<1>2. file.payload = p
      BY <1>1 DEF SignManifest
<1>3. p.version # Missing
      BY <1>1 DEF ValidatePayload
<1>4. IsVersion(p.version)
      BY <1>3, SignedUpdateAssumption DEF IsVersion
<1> DEFINE S == {p.artifacts[i] : i \in DOMAIN p.artifacts}
<1>5. p.artifacts \in Seq(S)
      BY SignedUpdateAssumption
<1> HIDE DEF S
<1> QED
    BY <1>2, <1>4, <1>5

LEMMA NoneIsOlderThanItself == ASSUME NEW v, IsVersion(v) PROVE ~OlderVersion(v, v)
<1> SUFFICES ASSUME NEW i \in 1..(Len(v.numbers) + Len(v.numbers)),
                    Part(v.numbers, i) < Part(v.numbers, i)
             PROVE  FALSE
    BY DEF OlderVersion, versionParts
<1>1. i \in Nat \ {0}
      BY DEF IsVersion
<1> QED
    BY <1>1, PartIsNat DEF IsVersion

LEMMA SignedInit == SignedUpdateInit => SignedInv
<1> SUFFICES ASSUME SignedUpdateInit PROVE SignedInv
    OBVIOUS
<1>1. IsVersion(OldVersion)
      BY SignedUpdateAssumption DEF IsVersion
<1> QED
    BY <1>1, NoneIsOlderThanItself DEF SignedUpdateInit, SignedInv

LEMMA SignedStep == SignedInv /\ [SignedUpdateNext]_signedVars => SignedInv'
<1> SUFFICES ASSUME SignedInv, [SignedUpdateNext]_signedVars PROVE SignedInv'
    OBVIOUS
<1> USE DEF SignedInv, Verified, Artifacts
<1>1. CASE FetchManifest
      BY <1>1 DEF FetchManifest
<1>2. CASE GiveUp
      BY <1>2 DEF GiveUp
<1>3. CASE RenameTemp
  <2>1. fetchAt' \in {"idle", "download", "verify"}
        BY <1>3 DEF RenameTemp, AfterItem
  <2>2. UNCHANGED <<policy, currentVersion>>
        BY <1>3 DEF RenameTemp
  <2> QED
      BY <2>1, <2>2
<1>4. CASE VerifyFile
  <2>0. fetchAt = "verify" /\ UNCHANGED <<outputDir, policy, currentVersion>>
        BY <1>4 DEF VerifyFile
  <2>1. CASE fetchAt' = "idle"
        BY <2>0, <2>1
  <2>2. CASE fetchAt' # "idle"
    <3>1. /\ fetchAt' = "compare" /\ item' = 1 /\ manifest' = outputDir[ManifestPath]
          /\ outputDir[ManifestPath] \in ManifestFiles
          /\ Verify(outputDir[ManifestPath], policy, currentVersion)
          BY <1>4, <2>2 DEF VerifyFile
    <3>2. /\ manifest' \in SignedManifests
          /\ MayDowngrade(policy) \/ ~OlderVersion(manifest'.payload.version, currentVersion)
          BY <3>1, VerifyFindsSigned
    <3>3. \A i \in DOMAIN manifest'.payload.artifacts : ~(i < 1)
          BY <3>2, SignedIsWellFormed
    <3> QED
        BY <2>0, <3>1, <3>2, <3>3
  <2> QED
      BY <2>1, <2>2
<1>5. CASE VerifyArtifactFile
  <2>0. /\ fetchAt = "compare" /\ item <= Len(Artifacts)
        /\ UNCHANGED <<outputDir, policy, currentVersion, manifest>>
        BY <1>5 DEF VerifyArtifactFile
  <2>1. CASE outputDir[PathOf(item)] # Artifacts[item].sha256
    <3>1. fetchAt' = "idle"
          BY <1>5, <2>1 DEF VerifyArtifactFile
    <3> QED
        BY <2>0, <3>1
  <2>2. CASE outputDir[PathOf(item)] = Artifacts[item].sha256
    <3>1. item' = item + 1 /\ fetchAt' = fetchAt
          BY <1>5, <2>2 DEF VerifyArtifactFile
    <3>2. DOMAIN Artifacts = 1..Len(Artifacts) /\ Len(Artifacts) \in Nat
          BY <2>0, SignedIsWellFormed
    <3>3. ASSUME NEW i \in DOMAIN Artifacts, i < item + 1
          PROVE  outputDir[PathOf(i)] = Artifacts[i].sha256
          BY <2>0, <2>2, <3>2, <3>3
    <3>4. \A i : PathOf(i)' = PathOf(i)
          BY <2>0 DEF PathOf
    <3> QED
        BY <2>0, <3>1, <3>3, <3>4
  <2> QED
      BY <2>1, <2>2
<1>6. CASE Accept
  <2>0. /\ fetchAt = "compare" /\ item > Len(Artifacts) /\ fetchAt' = "accepted"
        /\ currentVersion' = manifest.payload.version
        /\ UNCHANGED <<outputDir, policy, manifest, item>>
        BY <1>6 DEF Accept
  <2>1. /\ IsVersion(manifest.payload.version)
        /\ DOMAIN Artifacts = 1..Len(Artifacts) /\ Len(Artifacts) \in Nat
        BY <2>0, SignedIsWellFormed
  <2>2. \A i \in DOMAIN Artifacts : outputDir[PathOf(i)] = Artifacts[i].sha256
        BY <2>0, <2>1
  <2>3. \A i : PathOf(i)' = PathOf(i)
        BY <2>0 DEF PathOf
  <2>4. IsVersion(OldVersion)
        BY SignedUpdateAssumption DEF IsVersion
  <2>5. MayDowngrade(policy) \/ ~OlderVersion(manifest.payload.version, OldVersion)
        BY <2>0, <2>1, <2>4, OlderIsOrder
  <2> QED
      BY <2>0, <2>1, <2>2, <2>3, <2>5
<1>7. ASSUME NEW answer, CopyURL(answer) PROVE SignedInv'
      BY <1>7 DEF CopyURL
<1>8. CASE UNCHANGED signedVars
  <2>1. \A i : PathOf(i)' = PathOf(i)
        BY <1>8 DEF PathOf, signedVars
  <2> QED
      BY <1>8, <2>1 DEF signedVars
<1> QED
    BY <1>1, <1>2, <1>3, <1>4, <1>5, <1>6, <1>7, <1>8 DEF SignedUpdateNext

\* Whatever the mirror answers and whatever earlier downloads left in the directory, for any
\* manifests and contents: an accepted update lies in the directory exactly as its publisher
\* signed it, and a node that gives its version and forbids downgrades never ends below the
\* version it began with (Verify, VerifyFile and VerifyArtifactFile of shared/update).
THEOREM AcceptedIsSigned == SignedUpdateSpec => []AcceptedAsSigned
<1>1. SignedInv => AcceptedAsSigned
      BY DEF SignedInv, AcceptedAsSigned
<1> QED
    BY <1>1, SignedInit, SignedStep, PTL DEF SignedUpdateSpec

\* Every manifest has a list of artifacts.
LEMMA ManifestHasArtifacts ==
  ASSUME NEW file \in ManifestFiles
  PROVE  Len(file.payload.artifacts) \in Nat /\ file # Missing
<1>1. file # Missing
      BY FilesAssumption
<1>2. CASE file \in SignedManifests
      BY <1>1, <1>2, SignedIsWellFormed
<1>3. CASE file \in Edited
  <2> DEFINE S == {file.payload.artifacts[i] : i \in DOMAIN file.payload.artifacts}
  <2>1. file.payload.artifacts \in Seq(S)
        BY <1>3, SignedUpdateAssumption
  <2> HIDE DEF S
  <2> QED
      BY <1>1, <2>1
<1> QED
    BY <1>2, <1>3 DEF ManifestFiles

\* The items are those of a manifest that was read.
LEMMA ItemsAre ==
  ASSUME SignedUpdateTypeOK
  PROVE  /\ manifest # Missing => manifest \in ManifestFiles /\ Len(Artifacts) \in Nat
         /\ item \in Nat /\ (manifest = Missing => item = 0)
         /\ manifest # Missing => item <= Len(Artifacts) + 1
<1>1. manifest # Missing => manifest \in ManifestFiles /\ Len(Artifacts) \in Nat
      BY ManifestHasArtifacts DEF SignedUpdateTypeOK, Artifacts
<1>2. item \in 0..(IF manifest = Missing THEN 0 ELSE Len(Artifacts) + 1)
      BY DEF SignedUpdateTypeOK
<1> HIDE DEF Artifacts
<1> QED
    BY <1>1, <1>2

LEMMA SignedTypesInit == SignedUpdateInit => SignedUpdateTypeOK
BY DEF SignedUpdateInit, SignedUpdateTypeOK

LEMMA SignedTypesStep ==
  SignedUpdateTypeOK /\ SignedInv /\ [SignedUpdateNext]_signedVars => SignedUpdateTypeOK'
<1> SUFFICES ASSUME SignedUpdateTypeOK, SignedInv, [SignedUpdateNext]_signedVars
             PROVE  SignedUpdateTypeOK'
    OBVIOUS
<1> DEFINE Held == ManifestFiles \cup Contents \cup {Missing, CutOff}
           Versions == {OldVersion} \cup {p.version : p \in Drafts}
           Places == {"idle", "download", "rename", "verify", "compare", "accepted"}
           LastItem(m) == IF m = Missing THEN 0 ELSE Len(m.payload.artifacts) + 1
<1>t. /\ outputDir \in [DownloadPaths -> Held] /\ policy \in Policies
      /\ currentVersion \in Versions /\ fetchAt \in Places /\ manifest \in ManifestFiles \cup {Missing}
      /\ item \in 0..LastItem(manifest) /\ temp \in Held /\ (temp # Missing <=> fetchAt = "rename")
      BY DEF SignedUpdateTypeOK, Artifacts
\* What has to be shown of a step.
<1>s. ASSUME outputDir' \in [DownloadPaths -> Held], policy' = policy, currentVersion' \in Versions,
             fetchAt' \in Places, manifest' \in ManifestFiles \cup {Missing},
             item' \in 0..LastItem(manifest'), temp' \in Held, temp' # Missing <=> fetchAt' = "rename"
      PROVE  SignedUpdateTypeOK'
      BY ONLY <1>s, <1>t DEF SignedUpdateTypeOK, Artifacts
<1>l. \A m \in ManifestFiles \cup {Missing} : LastItem(m) \in Nat
      BY ManifestHasArtifacts
<1>i. /\ item \in Nat /\ (item > 0 => manifest \in ManifestFiles)
  <2>1. LastItem(manifest) \in Nat /\ (manifest = Missing => LastItem(manifest) = 0)
        BY <1>t, <1>l
  <2> HIDE DEF LastItem
  <2> QED
      BY <2>1, <1>t
<1>1. CASE FetchManifest
  <2>1. /\ outputDir' = outputDir /\ policy' = policy /\ currentVersion' = currentVersion
        /\ fetchAt' = "download" /\ manifest' = Missing /\ item' = 0 /\ temp' = temp
        /\ fetchAt # "rename"
        BY <1>1 DEF FetchManifest
  <2>2. item' \in 0..LastItem(manifest')
        BY <2>1
  <2> HIDE DEF LastItem, Held, Versions
  <2> QED
      BY <1>s, <1>t, <2>1, <2>2
<1>2. CASE GiveUp
  <2>1. /\ outputDir' = outputDir /\ policy' = policy /\ currentVersion' = currentVersion
        /\ fetchAt' = "idle" /\ manifest' = manifest /\ item' = item /\ temp' = Missing
        BY <1>2 DEF GiveUp
  <2>2. Missing \in Held
        OBVIOUS
  <2> HIDE DEF LastItem, Held, Versions
  <2> QED
      BY <1>s, <1>t, <2>1, <2>2
<1>3. CASE RenameTemp
  <2>1. /\ fetchAt = "rename" /\ outputDir' = [outputDir EXCEPT ![PathOf(item)] = temp]
        /\ policy' = policy /\ currentVersion' = currentVersion /\ temp' = Missing
        BY <1>3 DEF RenameTemp
  <2>2. outputDir' \in [DownloadPaths -> Held] /\ Missing \in Held
        BY <2>1, <1>t
  <2>3. \/ manifest' \in ManifestFiles /\ AfterItem(0, manifest') /\ item = 0
        \/ fetchAt' = "idle" /\ manifest' = manifest /\ item' = item
        \/ item > 0 /\ manifest' = manifest /\ AfterItem(item, manifest')
        BY <1>3 DEF RenameTemp
  <2>4. /\ fetchAt' \in {"idle", "download", "verify"} /\ manifest' \in ManifestFiles \cup {Missing}
        /\ item' \in 0..LastItem(manifest')
    <3>1. CASE fetchAt' = "idle" /\ manifest' = manifest /\ item' = item
          BY <3>1, <1>t
    <3>2. CASE manifest' \in ManifestFiles /\ AfterItem(item, manifest')
      <4>1. Len(manifest'.payload.artifacts) \in Nat /\ manifest' # Missing
            BY <3>2, ManifestHasArtifacts
      <4>2. \/ fetchAt' = "download" /\ item' = item + 1 /\ item < Len(manifest'.payload.artifacts)
            \/ fetchAt' = "verify" /\ item' = 0
            BY <3>2 DEF AfterItem
      <4>3. LastItem(manifest') = Len(manifest'.payload.artifacts) + 1
            BY <4>1
      <4> HIDE DEF LastItem
      <4> QED
          BY <3>2, <4>1, <4>2, <4>3, <1>i
    <3> QED
        BY <3>1, <3>2, <2>3, <1>i
  <2> HIDE DEF LastItem, Held, Versions
  <2> QED
      BY <1>s, <1>t, <2>1, <2>2, <2>4
<1>4. CASE VerifyFile
  <2>1. /\ fetchAt = "verify" /\ outputDir' = outputDir /\ policy' = policy
        /\ currentVersion' = currentVersion /\ temp' = temp
        BY <1>4 DEF VerifyFile
  <2>2. \/ /\ outputDir[ManifestPath] \in ManifestFiles
           /\ fetchAt' = "compare" /\ item' = 1 /\ manifest' = outputDir[ManifestPath]
        \/ fetchAt' = "idle" /\ item' = item /\ manifest' = manifest
        BY <1>4 DEF VerifyFile
  <2>3. manifest' \in ManifestFiles \cup {Missing} /\ item' \in 0..LastItem(manifest')
    <3>1. CASE manifest' \in ManifestFiles /\ item' = 1
      <4>1. Len(manifest'.payload.artifacts) \in Nat /\ manifest' # Missing
            BY <3>1, ManifestHasArtifacts
      <4>2. LastItem(manifest') = Len(manifest'.payload.artifacts) + 1
            BY <4>1
      <4> HIDE DEF LastItem
      <4> QED
          BY <3>1, <4>1, <4>2
    <3>2. CASE item' = item /\ manifest' = manifest
          BY <3>2, <1>t
    <3> QED
        BY <3>1, <3>2, <2>2
  <2> HIDE DEF LastItem, Held, Versions
  <2> QED
      BY <1>s, <1>t, <2>1, <2>2, <2>3
\* A manifest is compared only when it has passed.
<1>m. fetchAt = "compare" => /\ manifest \in ManifestFiles /\ manifest # Missing
                             /\ Len(Artifacts) \in Nat /\ LastItem(manifest) = Len(Artifacts) + 1
                             /\ manifest.payload.version \in Versions
  <2> SUFFICES ASSUME fetchAt = "compare"
               PROVE  /\ manifest \in ManifestFiles /\ manifest # Missing
                      /\ Len(Artifacts) \in Nat /\ LastItem(manifest) = Len(Artifacts) + 1
                      /\ manifest.payload.version \in Versions
      OBVIOUS
  <2>1. manifest \in SignedManifests
        BY DEF SignedInv, Verified
  <2>2. manifest \in ManifestFiles /\ manifest # Missing /\ Len(Artifacts) \in Nat
        BY <2>1, ManifestHasArtifacts DEF ManifestFiles, Artifacts
  <2>3. manifest.payload.version \in Versions
        BY <2>1 DEF SignedManifests, SignManifest
  <2>4. LastItem(manifest) = Len(Artifacts) + 1
        BY <2>2 DEF Artifacts
  <2> QED
      BY <2>2, <2>3, <2>4
<1>5. CASE VerifyArtifactFile
  <2>1. /\ fetchAt = "compare" /\ item <= Len(Artifacts)
        /\ outputDir' = outputDir /\ policy' = policy
        /\ currentVersion' = currentVersion /\ manifest' = manifest /\ temp' = temp
        /\ (item' = item + 1 /\ fetchAt' = fetchAt) \/ (fetchAt' = "idle" /\ item' = item)
        BY <1>5 DEF VerifyArtifactFile
  <2> HIDE DEF LastItem, Held, Versions
  <2>2. item' \in 0..LastItem(manifest')
        BY <2>1, <1>t, <1>m, <1>i
  <2> QED
      BY <1>s, <1>t, <2>1, <2>2
<1>6. CASE Accept
  <2>1. /\ fetchAt = "compare" /\ fetchAt' = "accepted" /\ currentVersion' = manifest.payload.version
        /\ outputDir' = outputDir /\ policy' = policy /\ manifest' = manifest
        /\ item' = item /\ temp' = temp
        BY <1>6 DEF Accept
  <2> HIDE DEF LastItem, Held, Versions
  <2> QED
      BY <1>s, <1>t, <1>m, <2>1
<1>7. ASSUME NEW answer \in ManifestFiles \cup Contents \cup {CutOff}, CopyURL(answer)
      PROVE  SignedUpdateTypeOK'
  <2>1. /\ fetchAt' = "rename" /\ temp' = answer
        /\ outputDir' = outputDir /\ policy' = policy /\ currentVersion' = currentVersion
        /\ manifest' = manifest /\ item' = item
        BY <1>7 DEF CopyURL
  <2>2. answer \in Held /\ answer # Missing
        BY FilesAssumption
  <2> HIDE DEF LastItem, Held, Versions
  <2> QED
      BY <1>s, <1>t, <2>1, <2>2
<1>8. CASE UNCHANGED signedVars
  <2> HIDE DEF LastItem, Held, Versions
  <2> QED
      BY <1>s, <1>t, <1>8 DEF signedVars
<1> QED
    BY <1>1, <1>2, <1>3, <1>4, <1>5, <1>6, <1>7, <1>8 DEF SignedUpdateNext

\* Whatever is answered, renamed and given up, the directory holds files, contents, what was
\* cut off or nothing at each path that a manifest can name, there is a temporary file while
\* one waits to be renamed, the item is one of the manifest that was read, and the version
\* is the first one or one that a publisher has written (shared/update).
THEOREM SignedTypes == SignedUpdateSpec => []SignedUpdateTypeOK
<1>1. SignedUpdateSpec => [](SignedUpdateTypeOK /\ SignedInv)
      BY SignedInit, SignedStep, SignedTypesInit, SignedTypesStep, PTL DEF SignedUpdateSpec
<1> QED
    BY <1>1, PTL

-----------------------------------------------------------------------------
(* The plans of the installer.  Nothing that keeps data is in a plan to be removed, *)
(* unless the plan is that of an uninstallation that purges; and of the files that  *)
(* an installation brings, those that are not whole in their place are ahead.       *)

Kept == DataDirs \cup {"config"}
Purges(o) == o.kind = "uninstall" /\ o.purge
AllowedSteps(o) ==
  {s \in PlanStep :
     /\ s.do = "remove" => o.kind = "uninstall"
     /\ s.do = "remove" /\ s.target \in Kept => Purges(o)
     /\ s.do \in {"copy", "copying"} => o.kind # "uninstall" /\ s.target \in FilesOf(Binaries)}

Brings(o) == o.kind \in {"install", "stage"}
Ahead(steps, t) == \E i \in DOMAIN steps : steps[i].do \in {"copy", "copying"} /\ steps[i].target = t
InPlace(steps, o, t) == Ahead(steps, t) \/ disk[o.where][t] = "whole" \/ CopiedOntoItself(o, t)

InstallInv ==
  /\ op \in Operation \cup {NoOp}
  /\ todo \in Seq(AllowedSteps(op))
  /\ op = NoOp => todo = <<>>
  /\ disk \in [{Host, Lab} -> [Targets -> {"none", "torn", "whole"}]]
  /\ Brings(op) => \A t \in FilesOf(op.binaries) : InPlace(todo, op, t)

Occurs(seq, x) == \E i \in DOMAIN seq : seq[i] = x

\* The elements of a finite set in some order.
LEMMA SetInOrder ==
  ASSUME NEW S, IsFiniteSet(S)
  PROVE  /\ SetToSeq(S) \in Seq(S)
         /\ \A x \in S : Occurs(SetToSeq(S), x)
<1>1. Cardinality(S) \in Nat /\ ExistsBijection(1..Cardinality(S), S)
      BY FS_CardinalityType
<1>2. PICK b \in [1..Cardinality(S) -> S] : IsInjective(b)
      BY <1>1, Zenon DEF ExistsBijection, Bijection, Injection, IsInjective
<1>3. SetToSeq(S) \in [1..Cardinality(S) -> S] /\ IsInjective(SetToSeq(S))
      BY <1>2, Zenon DEF SetToSeq
<1>4. SetToSeq(S) \in Injection(1..Cardinality(S), S)
      BY <1>3, Zenon DEF Injection, IsInjective
<1>5. IsFiniteSet(1..Cardinality(S)) /\ Cardinality(1..Cardinality(S)) = Cardinality(S)
      BY <1>1, FS_Interval
<1>6. SetToSeq(S) \in Surjection(1..Cardinality(S), S)
      BY <1>4, <1>5, FS_Injection
<1> QED
    BY <1>1, <1>3, <1>6 DEF Surjection, Occurs

LEMMA EachIsPlanned ==
  ASSUME NEW o, NEW do, NEW T, IsFiniteSet(T), \A t \in T : [do |-> do, target |-> t] \in AllowedSteps(o)
  PROVE  /\ Each(do, T) \in Seq(AllowedSteps(o))
         /\ \A t \in T : Occurs(Each(do, T), [do |-> do, target |-> t])
<1> DEFINE S == {[do |-> do, target |-> t] : t \in T}
<1>1. IsFiniteSet(S)
  <2> DEFINE f == [t \in T |-> [do |-> do, target |-> t]]
  <2>1. f \in [T -> S] /\ \A s \in S : \E t \in T : f[t] = s
        OBVIOUS
  <2>2. f \in Surjection(T, S)
        BY <2>1 DEF Surjection
  <2> HIDE DEF f, S
  <2> QED
      BY <2>2, FS_Surjection
<1>2. S \subseteq AllowedSteps(o)
      OBVIOUS
<1>3. Each(do, T) = SetToSeq(S) /\ \A t \in T : [do |-> do, target |-> t] \in S
      BY DEF Each
<1> HIDE DEF S
<1>5. SetToSeq(S) \in Seq(S) /\ \A x \in S : Occurs(SetToSeq(S), x)
      BY <1>1, SetInOrder
<1>4. Each(do, T) \in Seq(AllowedSteps(o))
  <2>1. Seq(S) \subseteq Seq(AllowedSteps(o))
        BY <1>2
  <2> QED
      BY <1>3, <1>5, <2>1
<1> QED
    BY <1>3, <1>4, <1>5, Zenon

\* What is in one of the middle parts of a sequence is in the sequence.
LEMMA InTheMiddle ==
  ASSUME NEW A, NEW p \in Seq(A), NEW q \in Seq(A), NEW u \in Seq(A), NEW v \in Seq(A),
         NEW x, Occurs(q, x) \/ Occurs(u, x)
  PROVE  Occurs(p \o q \o u \o v, x)
<1>1. /\ Len(p) \in Nat /\ Len(q) \in Nat /\ Len(u) \in Nat /\ Len(v) \in Nat
      /\ DOMAIN q = 1..Len(q) /\ DOMAIN u = 1..Len(u)
      BY LenProperties
<1>2. /\ p \o q \in Seq(A) /\ Len(p \o q) = Len(p) + Len(q)
      /\ \A i \in 1..Len(q) : (p \o q)[Len(p) + i] = q[i]
      BY <1>1, ConcatProperties
<1>3. /\ (p \o q) \o u \in Seq(A) /\ Len((p \o q) \o u) = Len(p \o q) + Len(u)
      /\ \A i \in 1..Len(p \o q) : ((p \o q) \o u)[i] = (p \o q)[i]
      /\ \A i \in 1..Len(u) : ((p \o q) \o u)[Len(p \o q) + i] = u[i]
      BY <1>1, <1>2, ConcatProperties
<1> DEFINE all == p \o q \o u \o v
<1>4. /\ all \in Seq(A) /\ Len(all) = Len((p \o q) \o u) + Len(v)
      /\ \A i \in 1..Len((p \o q) \o u) : all[i] = ((p \o q) \o u)[i]
      BY <1>1, <1>3, ConcatProperties
<1>5. DOMAIN all = 1..Len(all)
      BY <1>4, LenProperties
<1> HIDE DEF all
<1>6. ASSUME NEW i \in DOMAIN q PROVE \E j \in DOMAIN all : all[j] = q[i]
  <2>1. Len(p) + i \in 1..Len(p \o q) /\ Len(p) + i \in 1..Len((p \o q) \o u)
        BY <1>1, <1>2, <1>3
  <2>2. all[Len(p) + i] = q[i]
        BY <1>1, <1>2, <1>3, <1>4, <1>6, <2>1
  <2>3. Len(p) + i \in DOMAIN all
        BY <1>1, <1>2, <1>3, <1>4, <1>5, <2>1
  <2> QED
      BY <2>2, <2>3
<1>7. ASSUME NEW i \in DOMAIN u PROVE \E j \in DOMAIN all : all[j] = u[i]
  <2>1. Len(p \o q) + i \in 1..Len((p \o q) \o u)
        BY <1>1, <1>2, <1>3
  <2>2. all[Len(p \o q) + i] = u[i]
        BY <1>1, <1>3, <1>4, <1>7, <2>1
  <2>3. Len(p \o q) + i \in DOMAIN all
        BY <1>1, <1>2, <1>3, <1>4, <1>5, <2>1
  <2> QED
      BY <2>2, <2>3
<1>8. \E j \in DOMAIN all : all[j] = x
      BY <1>6, <1>7 DEF Occurs
<1> QED
    BY <1>8 DEF all, Occurs

LEMMA PlansAllowed ==
  ASSUME NEW o \in Operation
  PROVE  /\ (IF o.kind = "uninstall" THEN UninstallPlan(o.purge) ELSE InstallPlan(o.binaries))
           \in Seq(AllowedSteps(o))
         /\ Brings(o) => \A t \in FilesOf(o.binaries) : Ahead(InstallPlan(o.binaries), t)
<1> DEFINE A == AllowedSteps(o)
<1>1. \A t \in {"check", "snapshot", "daemon-reload", "enable", "disable"} : Runs(t) \in Seq(A)
  <2> SUFFICES ASSUME NEW t \in {"check", "snapshot", "daemon-reload", "enable", "disable"}
               PROVE  [do |-> "run", target |-> t] \in A
      BY DEF Runs
  <2> QED
      BY DEF AllowedSteps, PlanStep
<1>2. /\ IsFiniteSet(DataDirs) /\ IsFiniteSet({"service"}) /\ IsFiniteSet(Binaries)
      /\ IsFiniteSet({})
  <2>1. DataDirs = {"config dir"} \cup {"state dir"}
        BY DEF DataDirs
  <2>2. IsFiniteSet({"config dir"}) /\ IsFiniteSet({"service"}) /\ IsFiniteSet({})
        BY FS_EmptySet, FS_Singleton
  <2>3. IsFiniteSet({"config dir"} \cup {"state dir"})
        BY <2>2, FS_AddElement
  <2> QED
      BY <2>1, <2>2, <2>3, InstallerAssumption
<1>3. Each("mkdir", DataDirs) \in Seq(A)
  <2>1. \A t \in DataDirs : [do |-> "mkdir", target |-> t] \in A
        BY DEF AllowedSteps, PlanStep, Targets
  <2> QED
      BY <1>2, <2>1, EachIsPlanned
<1>4. o.kind # "uninstall" =>
        /\ [do |-> "copy", target |-> "config"] \in A /\ [do |-> "copy", target |-> "service"] \in A
        /\ \A b \in Binaries : [do |-> "copy", target |-> b] \in A
      BY DEF AllowedSteps, PlanStep, Targets, FilesOf
<1> DEFINE brought == <<[do |-> "copy", target |-> "config"], [do |-> "copy", target |-> "service"]>>
<1>5. o.kind # "uninstall" => brought \in Seq(A)
      BY <1>4
<1>6. CASE o.kind # "uninstall"
  <2>1. o.binaries \in {{}, Binaries}
        BY <1>6 DEF Operation
  <2>2. /\ Each("copy", o.binaries) \in Seq(A)
        /\ \A b \in o.binaries : Occurs(Each("copy", o.binaries), [do |-> "copy", target |-> b])
    <3>1. IsFiniteSet(o.binaries) /\ \A b \in o.binaries : [do |-> "copy", target |-> b] \in A
          BY <1>2, <1>4, <1>6, <2>1
    <3> QED
        BY <3>1, EachIsPlanned
  <2> HIDE DEF A
  <2> DEFINE first == Runs("check") \o Each("mkdir", DataDirs)
             binaries == Each("copy", o.binaries)
             last == Runs("snapshot") \o Runs("daemon-reload") \o Runs("enable")
  <2>3. first \in Seq(A) /\ brought \in Seq(A) /\ binaries \in Seq(A) /\ last \in Seq(A)
        BY <1>1, <1>3, <1>5, <1>6, <2>2, ConcatProperties
  <2>4. InstallPlan(o.binaries) = first \o brought \o binaries \o last
    <3> DEFINE before == first \o brought \o binaries
               x == Runs("snapshot")
               y == Runs("daemon-reload")
               z == Runs("enable")
    <3>1. InstallPlan(o.binaries) = ((before \o x) \o y) \o z /\ last = (x \o y) \o z
          BY Zenon DEF InstallPlan
    <3>2. before \in Seq(A) /\ x \in Seq(A) /\ y \in Seq(A) /\ z \in Seq(A) /\ x \o y \in Seq(A)
          BY <1>1, <2>3, ConcatProperties
    <3> HIDE DEF before, x, y, z, last
    <3>3. (before \o x) \o y = before \o (x \o y)
          BY ONLY <3>2, ConcatAssociative
    <3>4. (before \o (x \o y)) \o z = before \o ((x \o y) \o z)
          BY ONLY <3>2, ConcatAssociative, SMTT(30)
    <3> QED
        BY <3>1, <3>3, <3>4 DEF before
  <2>5. \A b \in o.binaries : Occurs(binaries, [do |-> "copy", target |-> b])
        BY <2>2
  <2>6. \A t \in {"config", "service"} : Occurs(brought, [do |-> "copy", target |-> t])
    <3>1. /\ DOMAIN brought = {1, 2} /\ brought[1] = [do |-> "copy", target |-> "config"]
          /\ brought[2] = [do |-> "copy", target |-> "service"]
          OBVIOUS
    <3> QED
        BY <3>1 DEF Occurs
  <2> HIDE DEF first, brought, binaries, last
  <2>7. InstallPlan(o.binaries) \in Seq(A)
        BY <2>3, <2>4, ConcatProperties
  <2>8. ASSUME NEW x, Occurs(brought, x) \/ Occurs(binaries, x)
        PROVE  Occurs(InstallPlan(o.binaries), x)
        BY <2>3, <2>4, <2>8, InTheMiddle
  <2>9. \A t \in FilesOf(o.binaries) : Ahead(InstallPlan(o.binaries), t)
    <3> SUFFICES ASSUME NEW t \in FilesOf(o.binaries) PROVE Ahead(InstallPlan(o.binaries), t)
        OBVIOUS
    <3>1. \/ Occurs(brought, [do |-> "copy", target |-> t])
          \/ Occurs(binaries, [do |-> "copy", target |-> t])
          BY <2>5, <2>6 DEF FilesOf
    <3>2. Occurs(InstallPlan(o.binaries), [do |-> "copy", target |-> t])
          BY <2>8, <3>1
    <3> QED
        BY <3>2 DEF Ahead, Occurs
  <2> QED
      BY <1>6, <2>7, <2>9 DEF A
<1>7. CASE o.kind = "uninstall"
  <2>1. Each("remove", {"service"}) \in Seq(A)
    <3>1. \A t \in {"service"} : [do |-> "remove", target |-> t] \in A
          BY <1>7 DEF AllowedSteps, PlanStep, Targets, FilesOf, Kept, DataDirs
    <3> QED
        BY <1>2, <3>1, EachIsPlanned
  <2>2. Each("remove", Binaries) \in Seq(A)
    <3>1. \A t \in Binaries : [do |-> "remove", target |-> t] \in A
          BY <1>7, InstallerAssumption DEF AllowedSteps, PlanStep, Targets, FilesOf, Kept
    <3> QED
        BY <1>2, <3>1, EachIsPlanned
  <2>3. (IF o.purge THEN Each("remove", DataDirs) ELSE <<>>) \in Seq(A)
    <3>1. CASE o.purge
      <4>1. \A t \in DataDirs : [do |-> "remove", target |-> t] \in A
            BY <1>7, <3>1 DEF AllowedSteps, PlanStep, Targets, Purges
      <4> QED
          BY <1>2, <3>1, <4>1, EachIsPlanned
    <3> QED
        BY <3>1
  <2> HIDE DEF A
  <2>4. UninstallPlan(o.purge) \in Seq(A)
        BY <1>1, <2>1, <2>2, <2>3, ConcatProperties DEF UninstallPlan
  <2> QED
      BY <1>7, <2>4 DEF A, Brings
<1> QED
    BY <1>6, <1>7

LEMMA InstallInit == InstallerInit => InstallInv
<1> SUFFICES ASSUME InstallerInit PROVE InstallInv
    OBVIOUS
<1>1. op = NoOp /\ todo = <<>> /\ ~Brings(op)
      BY DEF InstallerInit, NoOp, Brings
<1>2. todo \in Seq(AllowedSteps(op))
      BY <1>1
<1>3. disk \in [{Host, Lab} -> [Targets -> {"none", "torn", "whole"}]]
  <2>1. PICK before \in {"none", "whole"} :
          disk = [w \in {Host, Lab} |-> [t \in Targets |->
                    IF w = Host /\ t \in {"config dir", "config"} THEN before ELSE "none"]]
        BY DEF InstallerInit
  <2>2. \A w \in {Host, Lab} : disk[w] \in [Targets -> {"none", "torn", "whole"}]
        BY <2>1
  <2> QED
      BY <2>1, <2>2
<1> QED
    BY <1>1, <1>2, <1>3 DEF InstallInv

\* The step that is at the head of a plan, and what follows it.
LEMMA HeadOfPlan ==
  ASSUME InstallInv, todo # <<>>
  PROVE  /\ op \in Operation /\ op # NoOp /\ op.where \in {Host, Lab}
         /\ Head(todo) \in AllowedSteps(op) /\ Tail(todo) \in Seq(AllowedSteps(op))
<1>1. op \in Operation
      BY DEF InstallInv
<1>2. Head(todo) \in AllowedSteps(op) /\ Tail(todo) \in Seq(AllowedSteps(op))
      BY DEF InstallInv
<1> QED
    BY <1>1, <1>2 DEF InstallInv, Operation

\* What is ahead stays so when the head of a plan is done, unless it was the head, and when
\* the head is opened.
LEMMA AheadAfterHead ==
  ASSUME NEW A, NEW steps \in Seq(A), steps # <<>>, NEW t, Ahead(steps, t)
  PROVE  \/ Head(steps).do \in {"copy", "copying"} /\ Head(steps).target = t
         \/ Ahead(Tail(steps), t)
<1>1. PICK i \in DOMAIN steps : steps[i].do \in {"copy", "copying"} /\ steps[i].target = t
      BY DEF Ahead
<1>2. /\ DOMAIN steps = 1..Len(steps) /\ Len(steps) \in Nat
      /\ Tail(steps) \in Seq(A) /\ Len(Tail(steps)) = Len(steps) - 1
      /\ \A j \in 1..Len(Tail(steps)) : Tail(steps)[j] = steps[j + 1]
      BY HeadTailProperties, LenProperties
<1>3. CASE i = 1
      BY <1>1, <1>3
<1>4. CASE i # 1
  <2>1. i - 1 \in 1..Len(Tail(steps)) /\ (i - 1) + 1 = i
        BY <1>2, <1>4
  <2>2. Tail(steps)[i - 1] = steps[i] /\ i - 1 \in DOMAIN Tail(steps)
        BY <1>2, <2>1, LenProperties
  <2> QED
      BY <1>1, <2>2 DEF Ahead
<1> QED
    BY <1>3, <1>4

LEMMA AheadWhenOpened ==
  ASSUME NEW A, NEW steps \in Seq(A), NEW s \in A, NEW t
  PROVE  /\ s.do \in {"copy", "copying"} /\ s.target = t => Ahead(<<s>> \o steps, t)
         /\ Ahead(steps, t) => Ahead(<<s>> \o steps, t)
<1> DEFINE all == <<s>> \o steps
<1>1. /\ Len(steps) \in Nat /\ DOMAIN steps = 1..Len(steps) /\ <<s>> \in Seq(A) /\ Len(<<s>>) = 1
      BY LenProperties
<1>2. /\ all \in Seq(A) /\ Len(all) = 1 + Len(steps) /\ all[1] = s
      /\ \A j \in 1..Len(steps) : all[j + 1] = steps[j]
      BY <1>1, ConcatProperties
<1>3. DOMAIN all = 1..Len(all)
      BY <1>2, LenProperties
<1> HIDE DEF all
<1>4. 1 \in DOMAIN all /\ \A j \in DOMAIN steps : j + 1 \in DOMAIN all
      BY <1>1, <1>2, <1>3
<1>5. s.do \in {"copy", "copying"} /\ s.target = t => Ahead(all, t)
      BY <1>2, <1>4 DEF Ahead
<1>6. Ahead(steps, t) => Ahead(all, t)
  <2> SUFFICES ASSUME NEW j \in DOMAIN steps,
                      steps[j].do \in {"copy", "copying"} /\ steps[j].target = t
               PROVE  Ahead(all, t)
      BY DEF Ahead
  <2>1. all[j + 1] = steps[j] /\ j + 1 \in DOMAIN all
        BY <1>1, <1>2, <1>4
  <2> QED
      BY <2>1 DEF Ahead
<1> QED
    BY <1>5, <1>6 DEF all

LEMMA BroughtFiles ==
  ASSUME InstallInv, Brings(op)
  PROVE  /\ FilesOf(op.binaries) \subseteq Targets \ DataDirs
         /\ op.where \in {Host, Lab}
<1>1. op \in Operation
      BY DEF InstallInv, Brings, NoOp
<1>2. op.binaries \in {{}, Binaries} /\ op.where \in {Host, Lab}
      BY <1>1 DEF Operation, Brings
<1> QED
    BY <1>2, InstallerAssumption DEF FilesOf, Targets, DataDirs

\* The agent's snapshot.
LEMMA SnapshotWritten ==
  ASSUME InstallInv, \/ disk' = disk
                     \/ disk' = [disk EXCEPT ![Host]["state dir"] = "whole"]
  PROVE  /\ disk' \in [{Host, Lab} -> [Targets -> {"none", "torn", "whole"}]]
         /\ \A w \in {Host, Lab}, t \in Targets :
              disk'[w][t] = disk[w][t] \/ disk'[w][t] = "whole"
<1>1. "state dir" \in Targets /\ disk \in [{Host, Lab} -> [Targets -> {"none", "torn", "whole"}]]
      BY DEF Targets, DataDirs, InstallInv
<1>2. CASE disk' = disk
      BY <1>1, <1>2
<1>3. CASE disk' = [disk EXCEPT ![Host]["state dir"] = "whole"]
  <2>1. disk' = [disk EXCEPT ![Host] = [disk[Host] EXCEPT !["state dir"] = "whole"]]
        BY <1>3
  <2> DEFINE written == [disk[Host] EXCEPT !["state dir"] = "whole"]
  <2>2. /\ written \in [Targets -> {"none", "torn", "whole"}]
        /\ \A t \in Targets : written[t] = disk[Host][t] \/ written[t] = "whole"
        BY <1>1
  <2> HIDE DEF written
  <2> QED
      BY <1>1, <2>1, <2>2
<1> QED
    BY <1>2, <1>3

LEMMA InstallStep == InstallInv /\ [InstallerNext]_installVars => InstallInv'
<1> SUFFICES ASSUME InstallInv, [InstallerNext]_installVars PROVE InstallInv'
    OBVIOUS
<1>1. ASSUME NEW o \in Operation, BeginOp(o) PROVE InstallInv'
  <2>1. op' = o /\ todo' \in Seq(AllowedSteps(op')) /\ disk' = disk
        BY <1>1, PlansAllowed DEF BeginOp
  <2>2. o # NoOp
    <3>1. o.kind \in {"stage", "install", "uninstall"} /\ NoOp.kind = "none"
          BY DEF Operation, NoOp
    <3> QED
        BY <3>1
  <2>3. ASSUME Brings(o), NEW t \in FilesOf(o.binaries) PROVE InPlace(todo, op, t)'
    <3>1. todo' = InstallPlan(o.binaries)
          BY <1>1, <2>3 DEF BeginOp, Brings
    <3>2. Ahead(todo', t)
          BY <2>3, <3>1, PlansAllowed
    <3> QED
        BY <3>2 DEF InPlace
  <2> QED
      BY <2>1, <2>2, <2>3 DEF InstallInv
\* A step is done, or its file is opened.
<1>2. ASSUME op' = op, op # NoOp, todo' \in Seq(AllowedSteps(op)),
             disk' \in [{Host, Lab} -> [Targets -> {"none", "torn", "whole"}]],
             Brings(op) => \A t \in FilesOf(op.binaries) : InPlace(todo, op, t)'
      PROVE  InstallInv'
      BY <1>2 DEF InstallInv
\* The head is done, and what it does leaves what is whole whole.
<1>9. ASSUME op' = op, todo # <<>>, todo' = Tail(todo), Brings(op), NEW t \in FilesOf(op.binaries),
             \/ disk'[op.where][t] = disk[op.where][t] \/ disk'[op.where][t] = "whole",
             Head(todo).do \in {"copy", "copying"} /\ Head(todo).target = t
               => disk'[op.where][t] = "whole" \/ CopiedOntoItself(op, t)
      PROVE  InPlace(todo, op, t)'
  <2>1. InPlace(todo, op, t) /\ todo \in Seq(AllowedSteps(op))
        BY <1>9 DEF InstallInv
  <2>2. Ahead(todo, t) => \/ Head(todo).do \in {"copy", "copying"} /\ Head(todo).target = t
                          \/ Ahead(Tail(todo), t)
        BY <1>9, <2>1, AheadAfterHead
  <2>3. CopiedOntoItself(op', t) = CopiedOntoItself(op, t)
        BY <1>9
  <2> QED
      BY <1>9, <2>1, <2>2, <2>3 DEF InPlace
<1>3. RunCommand => InstallInv'
  <2> SUFFICES ASSUME RunCommand PROVE InstallInv'
      OBVIOUS
  <2>1. /\ todo # <<>> /\ todo' = Tail(todo) /\ op' = op /\ Head(todo).do = "run"
        /\ disk' = disk \/ disk' = [disk EXCEPT ![Host]["state dir"] = "whole"]
        BY DEF RunCommand, Doing, Done, Gives
  <2>2. disk' \in [{Host, Lab} -> [Targets -> {"none", "torn", "whole"}]]
        BY <2>1, SnapshotWritten
  <2>3. ASSUME Brings(op), NEW t \in FilesOf(op.binaries) PROVE InPlace(todo, op, t)'
    <3>1. disk'[op.where][t] = disk[op.where][t] \/ disk'[op.where][t] = "whole"
          BY <2>1, <2>3, BroughtFiles, SnapshotWritten
    <3> QED
        BY <1>9, <2>1, <2>3, <3>1
  <2> QED
      BY <1>2, <2>1, <2>2, <2>3, HeadOfPlan
<1>4. Mkdir \/ CopyData => InstallInv'
  <2> SUFFICES ASSUME Mkdir \/ CopyData PROVE InstallInv'
      OBVIOUS
  <2>1. PICK what \in {"torn", "whole"} :
          /\ todo # <<>> /\ todo' = Tail(todo) /\ op' = op
          /\ disk' = [disk EXCEPT ![op.where][Head(todo).target] = what]
          /\ Head(todo).do \in {"mkdir", "copying"}
          /\ what = "whole" \/ CopiedOntoItself(op, Head(todo).target)
        BY DEF Mkdir, CopyData, Doing, Done, Gives
  <2>2. disk' \in [{Host, Lab} -> [Targets -> {"none", "torn", "whole"}]]
        BY <2>1, HeadOfPlan DEF InstallInv
  <2>3. ASSUME Brings(op), NEW t \in FilesOf(op.binaries) PROVE InPlace(todo, op, t)'
    <3>1. t \in Targets /\ op.where \in {Host, Lab} /\ op' = op
          BY <2>1, <2>3, BroughtFiles
    <3>2. disk'[op.where][t] = IF t = Head(todo).target THEN what ELSE disk[op.where][t]
          BY <2>1, <3>1 DEF InstallInv
    <3>3. CASE what = "torn" /\ t = Head(todo).target
      <4>1. CopiedOntoItself(op', t)
            BY <2>1, <3>1, <3>3
      <4> QED
          BY <4>1 DEF InPlace
    <3>4. CASE what = "whole" \/ t # Head(todo).target
      <4>1. /\ disk'[op.where][t] = disk[op.where][t] \/ disk'[op.where][t] = "whole"
            /\ Head(todo).target = t => disk'[op.where][t] = "whole"
            BY <3>2, <3>4
      <4> QED
          BY <1>9, <2>1, <2>3, <4>1
    <3> QED
        BY <3>3, <3>4
  <2> QED
      BY <1>2, <2>1, <2>2, <2>3, HeadOfPlan
<1>5. CopyOpen => InstallInv'
  <2> SUFFICES ASSUME CopyOpen PROVE InstallInv'
      OBVIOUS
  <2> DEFINE opened == [Head(todo) EXCEPT !.do = "copying"]
  <2>1. /\ todo # <<>> /\ todo' = <<opened>> \o Tail(todo) /\ op' = op
        /\ disk' = [disk EXCEPT ![op.where][Head(todo).target] = "torn"]
        /\ Head(todo).do = "copy"
        BY DEF CopyOpen, Doing, Gives
  <2>2. disk' \in [{Host, Lab} -> [Targets -> {"none", "torn", "whole"}]]
        BY <2>1, HeadOfPlan DEF InstallInv
  <2>3. opened \in AllowedSteps(op) /\ opened.do = "copying" /\ opened.target = Head(todo).target
        BY <2>1, HeadOfPlan DEF AllowedSteps, PlanStep
  <2> HIDE DEF opened
  <2>4. todo' \in Seq(AllowedSteps(op))
    <3>1. <<opened>> \in Seq(AllowedSteps(op))
          BY <2>3
    <3> QED
        BY <2>1, <3>1, HeadOfPlan, ConcatProperties
  <2>5. ASSUME Brings(op), NEW t \in FilesOf(op.binaries) PROVE InPlace(todo, op, t)'
    <3>1. t \in Targets /\ op.where \in {Host, Lab} /\ op' = op
          BY <2>1, <2>5, BroughtFiles
    <3>2. CASE t = Head(todo).target
      <4>1. Ahead(<<opened>> \o Tail(todo), t)
            BY <2>1, <2>3, <3>2, HeadOfPlan, AheadWhenOpened
      <4> QED
          BY <2>1, <4>1 DEF InPlace
    <3>3. CASE t # Head(todo).target
      <4>1. disk'[op.where][t] = disk[op.where][t]
            BY <2>1, <3>1, <3>3 DEF InstallInv
      <4>2. InPlace(todo, op, t) /\ todo \in Seq(AllowedSteps(op))
            BY <2>5 DEF InstallInv
      <4>3. Ahead(todo, t) => Ahead(Tail(todo), t)
            BY <2>1, <3>3, <4>2, AheadAfterHead
      <4>4. Ahead(Tail(todo), t) => Ahead(<<opened>> \o Tail(todo), t)
            BY <2>1, <2>3, HeadOfPlan, AheadWhenOpened
      <4>5. CopiedOntoItself(op', t) = CopiedOntoItself(op, t)
            BY <3>1
      <4> QED
          BY <2>1, <3>1, <4>1, <4>2, <4>3, <4>4, <4>5 DEF InPlace
    <3> QED
        BY <3>2, <3>3
  <2> QED
      BY <1>2, <2>1, <2>2, <2>4, <2>5, HeadOfPlan
<1>6. RemoveTarget => InstallInv'
  <2> SUFFICES ASSUME RemoveTarget PROVE InstallInv'
      OBVIOUS
  <2>1. /\ todo # <<>> /\ todo' = Tail(todo) /\ op' = op /\ Head(todo).do = "remove"
        /\ disk' = [disk EXCEPT ![op.where] =
             [t \in Targets |-> IF t \in Inside(Head(todo).target) THEN "none" ELSE @[t]]]
        BY DEF RemoveTarget, Doing, Done
  <2>2. disk' \in [{Host, Lab} -> [Targets -> {"none", "torn", "whole"}]]
        BY <2>1, HeadOfPlan DEF InstallInv
  <2>3. ~Brings(op)
        BY <2>1, HeadOfPlan DEF AllowedSteps, Brings
  <2> QED
      BY <1>2, <2>1, <2>2, <2>3, HeadOfPlan
<1>7. Fail \/ FinishOp => InstallInv'
  <2>1. ASSUME Fail \/ FinishOp PROVE op' = NoOp /\ todo' = <<>> /\ disk' = disk
        BY <2>1 DEF Fail, FinishOp
  <2>2. <<>> \in Seq(AllowedSteps(NoOp)) /\ ~Brings(NoOp)
        BY DEF Brings, NoOp
  <2> QED
      BY <2>1, <2>2 DEF InstallInv
<1>8. UNCHANGED installVars => InstallInv'
  <2> SUFFICES ASSUME UNCHANGED installVars PROVE InstallInv'
      OBVIOUS
  <2>1. op' = op /\ todo' = todo /\ disk' = disk
        BY DEF installVars
  <2>2. \A t : InPlace(todo, op, t)' = InPlace(todo, op, t)
        BY <2>1 DEF InPlace
  <2> QED
      BY <2>1, <2>2 DEF InstallInv
<1> QED
    BY <1>1, <1>3, <1>4, <1>5, <1>6, <1>7, <1>8 DEF InstallerNext

\* Whatever operations follow one another on a host and under an install root, and wherever
\* one of them fails or is interrupted: configuration and data that are whole stay so unless
\* an uninstallation that purges is under way there, or an installation there replaces the
\* configuration; and what is done under the root without running commands changes nothing of
\* the host (ApplyLabInstall, ApplyLabUninstall and StageLabInstall of shared/installer).
THEOREM DataIsKept == InstallerSpec => KeptUnlessPurged
<1> DEFINE Keeps ==
      /\ \A w \in {Host, Lab}, t \in DataDirs \cup {"config"} :
           disk[w][t] = "whole" /\ disk'[w][t] # "whole" => op.where = w /\ Destroys(op, t)
      /\ op # NoOp /\ op.where = Lab /\ ~RunsSteps => disk'[Host] = disk[Host] /\ active' = active
<1>1. InstallInv /\ [InstallerNext]_installVars => [Keeps]_installVars
  <2> SUFFICES ASSUME InstallInv, InstallerNext PROVE Keeps
      OBVIOUS
  <2>1. CASE disk' = disk /\ active' = active
        BY <2>1
  <2>2. CASE RunCommand
    <3>1. /\ ~RunsSteps => disk' = disk /\ active' = active
          /\ disk' = disk \/ disk' = [disk EXCEPT ![Host]["state dir"] = "whole"]
          BY <2>2 DEF RunCommand, Gives
    <3>2. \A w \in {Host, Lab}, t \in Targets :
            disk'[w][t] = disk[w][t] \/ disk'[w][t] = "whole"
          BY <3>1, SnapshotWritten
    <3> QED
        BY <3>1, <3>2 DEF Targets, FilesOf
  <2>3. ASSUME NEW what \in {"torn", "whole"}, todo # <<>>, active' = active,
               Gives(op.where, Head(todo).target, what),
               what = "torn" => Head(todo).do \in {"copy", "copying"}
        PROVE  Keeps
    <3>1. /\ disk' = [disk EXCEPT ![op.where][Head(todo).target] = what]
          /\ disk \in [{Host, Lab} -> [Targets -> {"none", "torn", "whole"}]]
          /\ op.where \in {Host, Lab} /\ Host # Lab
          BY <2>3, HeadOfPlan DEF Gives, InstallInv, Host, Lab
    <3>2. op.where = Lab => disk'[Host] = disk[Host]
          BY <3>1
    <3>3. ASSUME NEW w \in {Host, Lab}, NEW t \in Kept, disk[w][t] = "whole", disk'[w][t] # "whole"
          PROVE  op.where = w /\ Destroys(op, t)
      <4>1. t \in Targets
            BY DEF Kept, Targets, FilesOf
      <4>2. op.where = w /\ t = Head(todo).target /\ what = "torn"
            BY <2>3, <3>1, <3>3, <4>1
      <4>3. /\ op.kind # "uninstall" /\ t \in FilesOf(Binaries) /\ op \in Operation
            BY <2>3, <4>2, HeadOfPlan DEF AllowedSteps
      <4>4. t = "config"
            BY <4>3, InstallerAssumption DEF Kept, FilesOf, DataDirs
      <4> QED
          BY <4>2, <4>3, <4>4 DEF Destroys, Operation
    <3> QED
        BY <2>3, <3>2, <3>3 DEF Kept
  <2>4. CASE RemoveTarget
    <3>1. /\ disk' = [disk EXCEPT ![op.where] =
               [t \in Targets |-> IF t \in Inside(Head(todo).target) THEN "none" ELSE @[t]]]
          /\ disk \in [{Host, Lab} -> [Targets -> {"none", "torn", "whole"}]]
          /\ op.where \in {Host, Lab} /\ Host # Lab /\ active' = active
          /\ Head(todo) \in AllowedSteps(op) /\ Head(todo).do = "remove"
          BY <2>4, HeadOfPlan DEF RemoveTarget, Doing, InstallInv, Host, Lab
    <3>2. op.where = Lab => disk'[Host] = disk[Host]
          BY <3>1
    <3>3. ASSUME NEW w \in {Host, Lab}, NEW t \in Kept, disk[w][t] = "whole", disk'[w][t] # "whole"
          PROVE  op.where = w /\ op.kind = "uninstall" /\ op.purge
      <4>1. t \in Targets
            BY DEF Kept, Targets, FilesOf
      <4>2. op.where = w /\ t \in Inside(Head(todo).target)
            BY <3>1, <3>3, <4>1
      <4>3. Head(todo).target \in Kept
            BY <4>2 DEF Inside, Kept, DataDirs
      <4> QED
          BY <3>1, <4>2, <4>3 DEF AllowedSteps, Purges
    <3> QED
        BY <3>1, <3>2, <3>3 DEF Kept, Destroys
  <2>5. Mkdir => Keeps
        BY <2>3 DEF Mkdir, Doing
  <2>6. CopyOpen => Keeps
        BY <2>3 DEF CopyOpen, Doing
  <2>7. CopyData => Keeps
        BY <2>3 DEF CopyData, Doing
  <2>8. (\E o \in Operation : BeginOp(o)) \/ Fail \/ FinishOp => Keeps
        BY <2>1 DEF BeginOp, Fail, FinishOp
  <2> QED
      BY <2>2, <2>4, <2>5, <2>6, <2>7, <2>8 DEF InstallerNext
<1> HIDE DEF Keeps
<1>2. InstallerSpec => [][Keeps]_installVars
      BY <1>1, InstallInit, InstallStep, PTL DEF InstallerSpec
<1> QED
    BY <1>2, PTL DEF KeptUnlessPurged, Keeps

\* However many files a plan brings and whatever failed before it: an installation that comes
\* to the end of its plan has every one of them whole in its place, but for a configuration
\* that it copied onto itself (applyInstallStep, copyToTarget and copyToRoot).
THEOREM FinishedIsWhole == InstallerSpec => []SuccessIsWhole
<1>1. InstallInv => SuccessIsWhole
  <2> SUFFICES ASSUME InstallInv, Brings(op), todo = <<>>, NEW t \in FilesOf(op.binaries)
               PROVE  disk[op.where][t] = "whole" \/ CopiedOntoItself(op, t)
      BY DEF SuccessIsWhole, Brings
  <2>1. ~Ahead(todo, t)
        BY DEF Ahead
  <2> QED
      BY <2>1 DEF InstallInv, InPlace
<1> QED
    BY <1>1, InstallInit, InstallStep, PTL DEF InstallerSpec

\* Whatever operations follow one another, and wherever one fails or is interrupted, every
\* step that is left is one the installer knows, at a target that it knows, every target is
\* whole, torn or absent, and the service runs or does not (shared/installer).
THEOREM InstallerTypes == InstallerSpec => []InstallerTypeOK
<1> DEFINE Typed == InstallInv /\ active \in BOOLEAN
<1>1. InstallerInit => Typed
      BY InstallInit DEF InstallerInit
<1>2. Typed /\ [InstallerNext]_installVars => Typed'
  <2>1. active \in BOOLEAN /\ [InstallerNext]_installVars => active' \in BOOLEAN
        BY DEF InstallerNext, BeginOp, RunCommand, Mkdir, CopyOpen, CopyData, RemoveTarget, Fail,
             FinishOp, installVars
  <2> QED
      BY <2>1, InstallStep
<1>3. Typed => InstallerTypeOK
  <2> SUFFICES ASSUME Typed PROVE InstallerTypeOK
      OBVIOUS
  <2>1. \A i \in DOMAIN todo : todo[i] \in PlanStep
    <3>1. \A i \in DOMAIN todo : todo[i] \in AllowedSteps(op)
          BY DEF InstallInv
    <3> QED
        BY <3>1, Zenon DEF AllowedSteps
  <2> QED
      BY <2>1, Zenon DEF InstallInv, InstallerTypeOK
<1> HIDE DEF Typed
<1> QED
    BY <1>1, <1>2, <1>3, PTL DEF InstallerSpec

-----------------------------------------------------------------------------
(* Sequences put together *)

FlattenBody(g, ss, i) == IF i = 1 THEN ss[i] ELSE g[i - 1] \o ss[i]
FlattenOf(ss) == CHOOSE g : g = [i \in 1..Len(ss) |-> FlattenBody(g, ss, i)]

LEMMA FlattenIs ==
  ASSUME NEW ss
  PROVE  FlattenSeq(ss) = IF Len(ss) = 0 THEN ss ELSE FlattenOf(ss)[Len(ss)]
BY DEF FlattenSeq, FlattenOf, FlattenBody

\* The function by which FlattenSeq is defined exists: it is found for the first n sequences
\* after the first n - 1.
LEMMA FlattenExists ==
  ASSUME NEW V, NEW ss \in Seq(Seq(V))
  PROVE  /\ FlattenOf(ss) \in [1..Len(ss) -> Seq(V)]
         /\ \A i \in 1..Len(ss) : FlattenOf(ss)[i] = FlattenBody(FlattenOf(ss), ss, i)
<1> DEFINE D == 1..Len(ss)
           UpTo(g, n) == /\ g \in [D -> Seq(V)]
                         /\ \A i \in D : i <= n => g[i] = FlattenBody(g, ss, i)
           N == {n \in Nat : \E g : UpTo(g, n)}
<1>0. Len(ss) \in Nat /\ \A i \in D : ss[i] \in Seq(V)
      OBVIOUS
<1>1. 0 \in N
  <2>1. UpTo([i \in D |-> <<>>], 0)
        OBVIOUS
  <2> QED
      BY <2>1
<1>2. ASSUME NEW n \in Nat, n \in N PROVE n + 1 \in N
  <2>1. PICK g : UpTo(g, n)
        BY <1>2
  <2> DEFINE h == [i \in D |-> IF i <= n THEN g[i] ELSE FlattenBody(g, ss, i)]
  <2>2. ASSUME NEW i \in D PROVE FlattenBody(g, ss, i) \in Seq(V) /\ (i # 1 => i - 1 \in D)
    <3>1. i # 1 => i - 1 \in D
          BY <1>0
    <3>2. i # 1 => g[i - 1] \in Seq(V)
          BY <2>1, <3>1
    <3> QED
        BY <1>0, <3>1, <3>2 DEF FlattenBody
  <2>3. h \in [D -> Seq(V)]
        BY <2>1, <2>2
  <2>4. ASSUME NEW i \in D, i <= n + 1 PROVE h[i] = FlattenBody(h, ss, i)
    <3>1. h[i] = FlattenBody(g, ss, i)
          BY <2>1
    <3>2. i # 1 => h[i - 1] = g[i - 1]
          BY <2>2, <2>4
    <3> HIDE DEF h
    <3> QED
        BY <3>1, <3>2 DEF FlattenBody
  <2> HIDE DEF h
  <2> QED
      BY <2>3, <2>4
<1>3. Nat \subseteq N
  <2> HIDE DEF N
  <2> QED
      BY <1>1, <1>2, SetInduction
<1>4. PICK g : UpTo(g, Len(ss))
      BY <1>0, <1>3
<1>5. g = [i \in D |-> FlattenBody(g, ss, i)]
      BY <1>4
<1> DEFINE f == FlattenOf(ss)
<1>6. f = [i \in D |-> FlattenBody(f, ss, i)]
      BY <1>5 DEF FlattenOf
<1> HIDE DEF f
<1> DEFINE M == {n \in Nat : \A i \in D : i <= n => f[i] \in Seq(V)}
<1>7. 0 \in M
      OBVIOUS
<1>8. ASSUME NEW n \in Nat, n \in M PROVE n + 1 \in M
  <2> SUFFICES ASSUME NEW i \in D, i = n + 1 PROVE f[i] \in Seq(V)
      BY <1>8
  <2>1. f[i] = FlattenBody(f, ss, i)
        BY <1>6
  <2>2. i # 1 => f[i - 1] \in Seq(V)
        BY <1>8
  <2> QED
      BY <1>0, <2>1, <2>2 DEF FlattenBody
<1>9. Nat \subseteq M
  <2> HIDE DEF M
  <2> QED
      BY <1>7, <1>8, SetInduction
<1>10. f \in [D -> Seq(V)]
  <2>1. \A i \in D : i \in Nat /\ i <= i
        BY <1>0
  <2>2. \A i \in D : f[i] \in Seq(V)
        BY <1>9, <2>1
  <2> QED
      BY <1>6, <2>2
<1>11. \A i \in D : f[i] = FlattenBody(f, ss, i)
      BY <1>6
<1> QED
    BY <1>10, <1>11 DEF f

LEMMA BothHeld ==
  ASSUME NEW V, NEW s \in Seq(V), NEW t \in Seq(V)
  PROVE  ToSet(s) \subseteq ToSet(s \o t) /\ ToSet(t) \subseteq ToSet(s \o t)
<1>1. /\ s \o t \in Seq(V) /\ Len(s \o t) = Len(s) + Len(t)
      /\ \A i \in 1..Len(s) + Len(t) :
           (s \o t)[i] = IF i <= Len(s) THEN s[i] ELSE t[i - Len(s)]
      BY ConcatProperties
<1>2. /\ DOMAIN s = 1..Len(s) /\ DOMAIN t = 1..Len(t)
      /\ DOMAIN (s \o t) = 1..Len(s) + Len(t)
      /\ Len(s) \in Nat /\ Len(t) \in Nat
      BY <1>1
<1>3. ASSUME NEW i \in DOMAIN s PROVE s[i] \in ToSet(s \o t)
  <2>1. i \in DOMAIN (s \o t) /\ (s \o t)[i] = s[i]
        BY <1>1, <1>2
  <2> QED
      BY <2>1 DEF ToSet
<1>4. ASSUME NEW i \in DOMAIN t PROVE t[i] \in ToSet(s \o t)
  <2>1. i + Len(s) \in DOMAIN (s \o t) /\ (s \o t)[i + Len(s)] = t[i]
        BY <1>1, <1>2
  <2> QED
      BY <2>1 DEF ToSet
<1> QED
    BY <1>3, <1>4 DEF ToSet

\* What each of the sequences holds, all of them together hold.
LEMMA FlattenHolds ==
  ASSUME NEW V, NEW ss \in Seq(Seq(V))
  PROVE  /\ FlattenSeq(ss) \in Seq(V)
         /\ \A i \in DOMAIN ss : ToSet(ss[i]) \subseteq ToSet(FlattenSeq(ss))
<1> DEFINE D == 1..Len(ss)
           f == FlattenOf(ss)
<1>0. Len(ss) \in Nat /\ D = DOMAIN ss /\ \A i \in D : ss[i] \in Seq(V)
      OBVIOUS
<1>1. f \in [D -> Seq(V)] /\ \A i \in D : f[i] = FlattenBody(f, ss, i)
      BY FlattenExists
<1> HIDE DEF f
<1> DEFINE Holds(j) == \A i \in D : i <= j => ToSet(ss[i]) \subseteq ToSet(f[j])
           N == {n \in Nat : \A j \in D : j <= n => Holds(j)}
<1>2. 0 \in N
      OBVIOUS
<1>3. ASSUME NEW n \in Nat, n \in N PROVE n + 1 \in N
  <2>0. \A j \in D : j <= n + 1 => j <= n \/ j = n + 1
        BY <1>0
  <2> HIDE DEF Holds
  <2> SUFFICES ASSUME NEW j \in D, j = n + 1 PROVE Holds(j)
      BY <1>3, <2>0
  <2> USE DEF Holds
  <2>1. f[j] = FlattenBody(f, ss, j)
        BY <1>1
  <2>2. CASE j = 1
    <3>1. f[j] = ss[j] /\ \A i \in D : i <= j => i = j
          BY <2>1, <2>2 DEF FlattenBody
    <3> QED
        BY <3>1
  <2>3. CASE j # 1
    <3>1. j - 1 \in D /\ j - 1 <= n
          BY <1>0, <2>3
    <3>2. /\ f[j - 1] \in Seq(V) /\ ss[j] \in Seq(V)
          /\ f[j] = f[j - 1] \o ss[j]
          BY <1>0, <1>1, <2>1, <2>3, <3>1 DEF FlattenBody
    <3>3. ToSet(f[j - 1]) \subseteq ToSet(f[j]) /\ ToSet(ss[j]) \subseteq ToSet(f[j])
          BY <3>2, BothHeld
    <3>4. Holds(j - 1)
          BY <1>3, <3>1
    <3>5. \A i \in D : i <= j => i = j \/ i <= j - 1
          OBVIOUS
    <3> QED
        BY <3>3, <3>4, <3>5
  <2> QED
      BY <2>2, <2>3
<1>4. Nat \subseteq N
  <2> HIDE DEF N
  <2> QED
      BY <1>2, <1>3, SetInduction
<1>5. CASE Len(ss) = 0
  <2>1. ss = <<>> /\ FlattenSeq(ss) = ss /\ DOMAIN ss = {}
        BY <1>0, <1>5, FlattenIs, EmptySeq
  <2>2. <<>> \in Seq(V)
        BY EmptySeq
  <2> QED
      BY <2>1, <2>2
<1>6. CASE Len(ss) # 0
  <2>1. FlattenSeq(ss) = f[Len(ss)] /\ Len(ss) \in D
        BY <1>0, <1>6, FlattenIs DEF f
  <2>2. Len(ss) \in N /\ Len(ss) <= Len(ss)
    <3> HIDE DEF N
    <3> QED
        BY <1>0, <1>4
  <2>3. Holds(Len(ss))
    <3> HIDE DEF Holds
    <3> QED
        BY <2>1, <2>2
  <2>4. \A i \in D : i <= Len(ss)
        BY <1>0
  <2>5. f[Len(ss)] \in Seq(V)
        BY <1>1, <2>1
  <2> QED
      BY <1>0, <2>1, <2>3, <2>4, <2>5
<1> QED
    BY <1>5, <1>6
-----------------------------------------------------------------------------
(* The index of backends *)

AddOnce(index, b) == IF Contains(index, b) THEN index ELSE Append(index, b)
IndexBody(g, s, t) == IF t = {} THEN <<>> ELSE AddOnce(g[t \ {Max(t)}], s[Max(t)])
IndexOf(s) == CHOOSE g : g = [t \in SUBSET DOMAIN s |-> IndexBody(g, s, t)]

LEMMA IndexIs ==
  ASSUME NEW sites
  PROVE  BackendIndex(sites) = IndexOf(Named(sites))[DOMAIN Named(sites)]
BY DEF BackendIndex, FoldLeft, MapThenFoldSet, IndexOf, IndexBody, AddOnce

LEMMA MaxIsMember ==
  ASSUME NEW n \in Nat, NEW t \in SUBSET (1..n), t # {}
  PROVE  Max(t) \in t /\ \A y \in t : Max(t) >= y
<1> DEFINE T == {k \in Nat : \E y \in t : k = n - y}
<1>1. T # {} /\ T \subseteq Nat
  <2>1. PICK y \in t : TRUE
        OBVIOUS
  <2>2. n - y \in T
        OBVIOUS
  <2> QED
      BY <2>2
<1>2. PICK m \in T : \A k \in T : ~(k < m)
      BY <1>1, LeastOfSet
<1>3. PICK x \in t : m = n - x
      BY <1>2
<1>4. \A y \in t : x >= y
  <2> SUFFICES ASSUME NEW y \in t PROVE x >= y
      OBVIOUS
  <2>1. n - y \in T
        OBVIOUS
  <2>2. ~(n - y < n - x)
        BY <1>2, <1>3, <2>1
  <2> QED
      BY <2>2
<1> QED
    BY <1>4 DEF Max

LEMMA MaxOfFirst ==
  ASSUME NEW n \in Nat, n # 0
  PROVE  Max(1..n) = n /\ (1..n) \ {Max(1..n)} = 1..(n - 1)
<1>1. n \in 1..n /\ 1..n # {}
      OBVIOUS
<1>2. Max(1..n) \in 1..n /\ Max(1..n) >= n
      BY <1>1, MaxIsMember
<1>3. Max(1..n) = n
      BY <1>2
<1> QED
    BY <1>3

LEMMA AddOnceAdds ==
  ASSUME NEW V, NEW index \in Seq(V), NEW b \in V
  PROVE  /\ AddOnce(index, b) \in Seq(V)
         /\ IsInjective(index) => IsInjective(AddOnce(index, b))
         /\ b \in ToSet(AddOnce(index, b)) /\ ToSet(index) \subseteq ToSet(AddOnce(index, b))
<1>1. Contains(index, b) <=> b \in ToSet(index)
      BY DEF Contains, ToSet
<1>2. CASE Contains(index, b)
      BY <1>1, <1>2 DEF AddOnce
<1>3. CASE ~Contains(index, b)
  <2> DEFINE more == Append(index, b)
             n == Len(index)
  <2>1. /\ AddOnce(index, b) = more /\ more \in Seq(V) /\ n \in Nat
        /\ DOMAIN more = 1..(n + 1) /\ DOMAIN index = 1..n
        /\ more[n + 1] = b /\ \A i \in 1..n : more[i] = index[i]
        BY <1>3 DEF AddOnce
  <2> HIDE DEF more, n
  <2>2. \A i \in 1..n : index[i] # b
        BY <1>1, <1>3, <2>1 DEF ToSet
  <2>3. ASSUME IsInjective(index) PROVE IsInjective(more)
    <3> SUFFICES ASSUME NEW i \in 1..(n + 1), NEW j \in 1..(n + 1), more[i] = more[j]
                 PROVE  i = j
        BY <2>1 DEF IsInjective
    <3>1. CASE i \in 1..n /\ j \in 1..n
          BY <2>1, <2>3, <3>1 DEF IsInjective
    <3>2. CASE i = n + 1 /\ j \in 1..n
          BY <2>1, <2>2, <3>2
    <3>3. CASE i \in 1..n /\ j = n + 1
          BY <2>1, <2>2, <3>3
    <3>4. (i \in 1..n \/ i = n + 1) /\ (j \in 1..n \/ j = n + 1)
          BY <2>1
    <3> QED
        BY <3>1, <3>2, <3>3, <3>4
  <2>4. n + 1 \in DOMAIN more /\ \A i \in DOMAIN index : i \in DOMAIN more
        BY <2>1
  <2>5. b \in ToSet(more) /\ ToSet(index) \subseteq ToSet(more)
        BY <2>1, <2>4 DEF ToSet
  <2> QED
      BY <2>1, <2>3, <2>5
<1> QED
    BY <1>2, <1>3

\* The function by which BackendIndex is defined exists, as the sums of InductionLemmas do.
LEMMA IndexFound ==
  ASSUME NEW V, NEW s \in Seq(V)
  PROVE  \E g : /\ g \in [SUBSET DOMAIN s -> Seq(V)]
                /\ \A t \in SUBSET DOMAIN s : g[t] = IndexBody(g, s, t)
<1> DEFINE D == DOMAIN s
           UpTo(g, n) ==
             /\ g \in [SUBSET D -> Seq(V)]
             /\ \A t \in SUBSET D : Cardinality(t) <= n => g[t] = IndexBody(g, s, t)
           N == {n \in Nat : \E g : UpTo(g, n)}
<1>a. D = 1..Len(s) /\ Len(s) \in Nat /\ IsFiniteSet(D) /\ \A i \in D : s[i] \in V
      BY FS_Interval
<1>b. \A t \in SUBSET D : IsFiniteSet(t) /\ Cardinality(t) \in Nat
      BY <1>a, FS_Subset, FS_CardinalityType
<1>c. \A t \in SUBSET D : t # {} => Max(t) \in t
      BY <1>a, MaxIsMember
<1>1. 0 \in N
  <2>1. \A t \in SUBSET D : Cardinality(t) <= 0 => t = {}
        BY <1>b, FS_EmptySet
  <2>2. <<>> \in Seq(V)
        BY EmptySeq
  <2>3. UpTo([t \in SUBSET D |-> <<>>], 0)
        BY <2>1, <2>2 DEF IndexBody
  <2> QED
      BY <2>3
<1>2. ASSUME NEW n \in Nat, n \in N PROVE n + 1 \in N
  <2>1. PICK g : UpTo(g, n)
        BY <1>2
  <2> DEFINE h == [t \in SUBSET D |-> IF Cardinality(t) <= n THEN g[t] ELSE IndexBody(g, s, t)]
  <2>2. ASSUME NEW t \in SUBSET D
        PROVE  IndexBody(g, s, t) \in Seq(V)
               /\ (t # {} => /\ t \ {Max(t)} \in SUBSET D
                             /\ Cardinality(t \ {Max(t)}) = Cardinality(t) - 1)
    <3>1. CASE t = {}
          BY <3>1, EmptySeq DEF IndexBody
    <3>2. CASE t # {}
      <4>1. /\ Max(t) \in t /\ t \ {Max(t)} \in SUBSET D /\ s[Max(t)] \in V
            /\ g[t \ {Max(t)}] \in Seq(V)
            BY <1>a, <1>c, <2>1, <3>2
      <4>2. Cardinality(t \ {Max(t)}) = Cardinality(t) - 1
            BY <1>b, <4>1, FS_RemoveElement
      <4>3. AddOnce(g[t \ {Max(t)}], s[Max(t)]) \in Seq(V)
            BY <4>1, AddOnceAdds
      <4> QED
          BY <3>2, <4>1, <4>2, <4>3 DEF IndexBody
    <3> QED
        BY <3>1, <3>2
  <2>3. h \in [SUBSET D -> Seq(V)]
        BY <2>1, <2>2
  <2>4. ASSUME NEW t \in SUBSET D, Cardinality(t) <= n + 1 PROVE h[t] = IndexBody(h, s, t)
    <3>1. h[t] = IndexBody(g, s, t)
          BY <2>1
    <3>2. t # {} => h[t \ {Max(t)}] = g[t \ {Max(t)}]
      <4> SUFFICES ASSUME t # {} PROVE h[t \ {Max(t)}] = g[t \ {Max(t)}]
          OBVIOUS
      <4>1. t \ {Max(t)} \in SUBSET D /\ Cardinality(t \ {Max(t)}) <= n
            BY <1>b, <2>2, <2>4, SMTT(30)
      <4> QED
          BY <4>1
    <3> HIDE DEF h
    <3> QED
        BY <3>1, <3>2 DEF IndexBody
  <2> HIDE DEF h
  <2> QED
      BY <2>3, <2>4
<1>3. Nat \subseteq N
  <2> HIDE DEF N
  <2> QED
      BY <1>1, <1>2, SetInduction
<1>4. \A t \in SUBSET D : Cardinality(t) <= Cardinality(D)
      BY <1>a, FS_Subset
<1>5. PICK g : UpTo(g, Cardinality(D))
      BY <1>3, <1>a, FS_CardinalityType
<1> QED
    BY <1>4, <1>5

LEMMA IndexHolds ==
  ASSUME NEW V, NEW s \in Seq(V)
  PROVE  /\ IndexOf(s)[DOMAIN s] \in Seq(V)
         /\ IsInjective(IndexOf(s)[DOMAIN s])
         /\ ToSet(s) \subseteq ToSet(IndexOf(s)[DOMAIN s])
<1> DEFINE D == DOMAIN s
           f == IndexOf(s)
<1>0. D = 1..Len(s) /\ Len(s) \in Nat /\ \A i \in D : s[i] \in V
      OBVIOUS
<1>1. PICK g : g = [t \in SUBSET D |-> IndexBody(g, s, t)]
  <2>1. PICK g : g \in [SUBSET D -> Seq(V)] /\ \A t \in SUBSET D : g[t] = IndexBody(g, s, t)
        BY IndexFound
  <2> QED
      BY <2>1
<1>2. f = [t \in SUBSET D |-> IndexBody(f, s, t)]
      BY <1>1 DEF IndexOf
<1> HIDE DEF f
<1> DEFINE Good(k) == /\ f[1..k] \in Seq(V) /\ IsInjective(f[1..k])
                      /\ \A i \in 1..k : s[i] \in ToSet(f[1..k])
           N == {k \in Nat : k <= Len(s) => Good(k)}
<1>3. 0 \in N
  <2>1. 1..0 = {} /\ f[{}] = <<>>
        BY <1>2 DEF IndexBody
  <2>2. <<>> \in Seq(V) /\ IsInjective(<<>>)
        BY EmptySeq DEF IsInjective
  <2> QED
      BY <2>1, <2>2
<1>4. ASSUME NEW k \in Nat, k \in N PROVE k + 1 \in N
  <2> SUFFICES ASSUME k + 1 <= Len(s) PROVE Good(k + 1)
      OBVIOUS
  <2>1. /\ k + 1 \in D /\ 1..(k + 1) \in SUBSET D /\ 1..(k + 1) # {}
        /\ (k + 1) - 1 = k
        BY <1>0
  <2>2. Max(1..(k + 1)) = k + 1 /\ (1..(k + 1)) \ {Max(1..(k + 1))} = 1..k
        BY <2>1, MaxOfFirst
  <2>3. f[1..(k + 1)] = AddOnce(f[1..k], s[k + 1])
        BY <1>2, <2>1, <2>2 DEF IndexBody
  <2>4. Good(k)
        BY <1>0, <1>4
  <2>5. s[k + 1] \in V
        BY <1>0, <2>1
  <2>6. /\ f[1..(k + 1)] \in Seq(V) /\ IsInjective(f[1..(k + 1)])
        /\ s[k + 1] \in ToSet(f[1..(k + 1)]) /\ ToSet(f[1..k]) \subseteq ToSet(f[1..(k + 1)])
    <3> DEFINE p == f[1..k]
               q == f[1..(k + 1)]
    <3>1. p \in Seq(V) /\ IsInjective(p) /\ q = AddOnce(p, s[k + 1])
          BY <2>3, <2>4
    <3> HIDE DEF p, q
    <3>2. /\ q \in Seq(V) /\ IsInjective(q) /\ s[k + 1] \in ToSet(q)
          /\ ToSet(p) \subseteq ToSet(q)
          BY <2>5, <3>1, AddOnceAdds
    <3> QED
        BY <3>2 DEF p, q
  <2>7. \A i \in 1..(k + 1) : i \in 1..k \/ i = k + 1
        OBVIOUS
  <2> QED
      BY <2>4, <2>6, <2>7
<1>5. Nat \subseteq N
  <2> HIDE DEF N
  <2> QED
      BY <1>3, <1>4, SetInduction
<1>6. Good(Len(s))
  <2>1. Len(s) \in N /\ Len(s) <= Len(s)
    <3> HIDE DEF N
    <3> QED
        BY <1>0, <1>5
  <2> HIDE DEF Good
  <2> QED
      BY <2>1
<1> QED
    BY <1>0, <1>6 DEF f, ToSet

\* Each backend that a site or a route names has one place in the index.
LEMMA BackendsIndexed ==
  ASSUME NEW sites \in TenantWebsites
  PROVE  /\ BackendIndex(sites) \in Seq(Nat) /\ IsInjective(BackendIndex(sites))
         /\ \A i \in DOMAIN sites :
              /\ sites[i].backend \in ToSet(BackendIndex(sites))
              /\ ToSet(sites[i].routes) \subseteq ToSet(BackendIndex(sites))
<1> DEFINE ss == [i \in DOMAIN sites |-> <<sites[i].backend>> \o sites[i].routes]
<1>1. /\ Len(sites) \in Nat /\ DOMAIN sites = 1..Len(sites)
      /\ \A i \in DOMAIN sites : sites[i].backend \in Nat /\ sites[i].routes \in Seq(Nat)
  <2>1. \A i \in 1..Len(sites) :
          sites[i] \in [domains : Seq(Nat), backend : Nat, routes : Seq(Nat)]
        BY ElementOfSeq DEF TenantWebsites
  <2>2. Len(sites) \in Nat /\ DOMAIN sites = 1..Len(sites)
        BY LenProperties DEF TenantWebsites
  <2> QED
      BY <2>1, <2>2
<1>2. ASSUME NEW i \in DOMAIN sites
      PROVE  /\ ss[i] \in Seq(Nat)
             /\ sites[i].backend \in ToSet(ss[i]) /\ ToSet(sites[i].routes) \subseteq ToSet(ss[i])
  <2> DEFINE one == <<sites[i].backend>>
  <2>1. one \in Seq(Nat) /\ sites[i].routes \in Seq(Nat) /\ sites[i].backend \in ToSet(one)
        BY <1>1 DEF ToSet
  <2>2. ss[i] = one \o sites[i].routes
        OBVIOUS
  <2> HIDE DEF one, ss
  <2>3. ToSet(one) \subseteq ToSet(ss[i]) /\ ToSet(sites[i].routes) \subseteq ToSet(ss[i])
        BY <2>1, <2>2, BothHeld
  <2> QED
      BY <2>1, <2>2, <2>3, ConcatProperties
<1>3. ss \in Seq(Seq(Nat)) /\ DOMAIN ss = DOMAIN sites
  <2>1. \A i \in 1..Len(sites) : ss[i] \in Seq(Nat)
        BY <1>1, <1>2
  <2>2. ss \in [1..Len(sites) -> Seq(Nat)]
        BY <1>1, <2>1
  <2> QED
      BY <1>1, <2>2
<1>4. Named(sites) = FlattenSeq(ss)
      BY DEF Named
<1> HIDE DEF ss
<1>5. /\ Named(sites) \in Seq(Nat)
      /\ \A i \in DOMAIN ss : ToSet(ss[i]) \subseteq ToSet(Named(sites))
      BY <1>3, <1>4, FlattenHolds
<1>6. /\ BackendIndex(sites) \in Seq(Nat) /\ IsInjective(BackendIndex(sites))
      /\ ToSet(Named(sites)) \subseteq ToSet(BackendIndex(sites))
      BY <1>5, IndexIs, IndexHolds
<1> QED
    BY <1>2, <1>3, <1>5, <1>6
-----------------------------------------------------------------------------
(* Expansion *)

LEMMA TenantWebsiteTypes ==
  ASSUME NEW sites \in TenantWebsites
  PROVE  /\ Len(sites) \in Nat /\ DOMAIN sites = 1..Len(sites)
         /\ \A i \in DOMAIN sites : /\ sites[i].domains \in Seq(Nat) /\ sites[i].backend \in Nat
                                    /\ sites[i].routes \in Seq(Nat)
<1>1. \A i \in 1..Len(sites) :
        sites[i] \in [domains : Seq(Nat), backend : Nat, routes : Seq(Nat)]
      BY ElementOfSeq DEF TenantWebsites
<1>2. Len(sites) \in Nat /\ DOMAIN sites = 1..Len(sites)
      BY LenProperties DEF TenantWebsites
<1> QED
    BY <1>1, <1>2

\* The sites of a tenant's file keep their domains and name pools that there are.
LEMMA TenantSitesAre ==
  ASSUME NEW sites \in TenantWebsites
  PROVE  LET P == DOMAIN BackendIndex(sites)
             r == TenantSites(sites)
         IN  /\ r \in Seq([id : Nat, domains : Seq(Nat), pool : P, routes : Seq(P)])
             /\ DOMAIN r = DOMAIN sites
             /\ \A i \in DOMAIN sites : r[i].id # 0 /\ r[i].domains = sites[i].domains
<1> DEFINE index == BackendIndex(sites)
           P == DOMAIN index
           PoolIDForBackend(b) == CHOOSE p \in P : index[p] = b
           r == TenantSites(sites)
<1>1. ASSUME NEW b, b \in ToSet(index) PROVE PoolIDForBackend(b) \in P
  <2>1. \E p \in P : index[p] = b
        BY <1>1 DEF ToSet
  <2> QED
      BY <2>1
<1>2. /\ Len(sites) \in Nat /\ DOMAIN sites = 1..Len(sites)
      /\ \A i \in DOMAIN sites : /\ sites[i].domains \in Seq(Nat) /\ sites[i].backend \in Nat
                                 /\ sites[i].routes \in Seq(Nat)
      BY TenantWebsiteTypes
<1>3. \A i \in DOMAIN sites :
        sites[i].backend \in ToSet(index) /\ ToSet(sites[i].routes) \subseteq ToSet(index)
      BY BackendsIndexed
<1> DEFINE routes(i) == [j \in DOMAIN sites[i].routes |-> PoolIDForBackend(sites[i].routes[j])]
           site(i) == [id |-> i, domains |-> sites[i].domains,
                       pool |-> PoolIDForBackend(sites[i].backend), routes |-> routes(i)]
<1>4. r = [i \in DOMAIN sites |-> site(i)]
      BY DEF TenantSites
<1> HIDE DEF index, P
<1>5. ASSUME NEW i \in DOMAIN sites
      PROVE  site(i) \in [id : Nat, domains : Seq(Nat), pool : P, routes : Seq(P)]
  <2>1. routes(i) \in Seq(P)
    <3> DEFINE n == Len(sites[i].routes)
    <3>1. n \in Nat /\ DOMAIN sites[i].routes = 1..n
          BY <1>2, LenProperties
    <3>2. \A j \in 1..n : sites[i].routes[j] \in ToSet(index)
          BY <1>3, <3>1 DEF ToSet
    <3>3. \A j \in 1..n : PoolIDForBackend(sites[i].routes[j]) \in P
          BY <1>1, <3>2
    <3> HIDE DEF PoolIDForBackend, n
    <3>4. routes(i) \in [1..n -> P]
          BY <3>1, <3>3
    <3> QED
        BY <3>1, <3>4
  <2>2. PoolIDForBackend(sites[i].backend) \in P
        BY <1>1, <1>3
  <2>3. i \in Nat /\ sites[i].domains \in Seq(Nat)
        BY <1>2
  <2> HIDE DEF PoolIDForBackend, routes
  <2> QED
      BY <2>1, <2>2, <2>3
<1>6. DOMAIN r = DOMAIN sites /\ \A i \in DOMAIN sites : r[i] = site(i)
      BY <1>4
<1> DEFINE S == [id : Nat, domains : Seq(Nat), pool : P, routes : Seq(P)]
<1>7. r \in Seq(S)
  <2> HIDE DEF r, site, S
  <2>1. r \in [1..Len(sites) -> S]
        BY <1>2, <1>4, <1>5 DEF S
  <2> QED
      BY <1>2, <2>1
<1>8. \A i \in DOMAIN sites : site(i).id # 0 /\ site(i).domains = sites[i].domains
      BY <1>2
<1> HIDE DEF r, site
<1> QED
    BY <1>6, <1>7, <1>8 DEF r, S, P, index

SameDomains(sites, others) ==
  DOMAIN sites = DOMAIN others /\ \A i \in DOMAIN sites : sites[i].domains = others[i].domains

LEMMA DomainsStay ==
  ASSUME NEW sites, NEW others, SameDomains(sites, others)
  PROVE  DomainsOf(sites) = DomainsOf(others)
<1>1. [i \in DOMAIN sites |-> sites[i].domains] = [i \in DOMAIN others |-> others[i].domains]
      BY DEF SameDomains
<1> QED
    BY <1>1 DEF DomainsOf

Served(doc) == IF doc.mode = "server" /\ ~doc.website THEN <<>> ELSE doc.sites

LEMMA ServedIsDistinct ==
  ASSUME NEW doc \in TenantFiles, ValidateTenant(doc)
  PROVE  Served(doc) \in TenantWebsites /\ IsInjective(DomainsOf(Served(doc)))
<1>1. CASE doc.mode = "server" /\ ~doc.website
  <2>1. Served(doc) = <<>>
        BY <1>1 DEF Served
  <2>2. [i \in DOMAIN <<>> |-> <<>>[i].domains] = <<>>
        OBVIOUS
  <2>3. DomainsOf(<<>>) = FlattenSeq(<<>>)
        BY <2>2 DEF DomainsOf
  <2>4. FlattenSeq(<<>>) = <<>>
        BY FlattenIs, EmptySeq
  <2>5. IsInjective(<<>>) /\ <<>> \in TenantWebsites
        BY EmptySeq DEF IsInjective, TenantWebsites
  <2> QED
      BY <2>1, <2>3, <2>4, <2>5
<1>2. CASE ~(doc.mode = "server" /\ ~doc.website)
  <2>1. Served(doc) = doc.sites /\ doc.sites \in TenantWebsites
        BY <1>2 DEF Served, TenantFiles
  <2>2. doc.mode = "full" \/ doc.website
        BY <1>2 DEF TenantFiles, ValidateTenant, AllowedModes
  <2>3. ValidTenantWebsite(doc)
        BY <2>2 DEF ValidateTenant
  <2> QED
      BY <2>1, <2>3 DEF ValidTenantWebsite, Distinct
<1> QED
    BY <1>1, <1>2

\* The pools of a tenant's file are numbered.
LEMMA NumberedPools ==
  ASSUME NEW index \in Seq(Nat), IsInjective(index)
  PROVE  LET pools == [p \in DOMAIN index |-> [id |-> p, upstreams |-> {index[p]}]]
         IN  /\ pools \in Pools /\ PoolIDs(pools) = DOMAIN index /\ ValidPools(pools)
             /\ \A p, q \in DOMAIN pools : pools[p].upstreams = pools[q].upstreams => p = q
<1> DEFINE pools == [p \in DOMAIN index |-> [id |-> p, upstreams |-> {index[p]}]]
           n == Len(index)
           pool(p) == [id |-> p, upstreams |-> {index[p]}]
<1>1. n \in Nat /\ DOMAIN index = 1..n /\ \A p \in 1..n : index[p] \in Nat
      BY LenProperties
<1>2. \A p \in 1..n : /\ pool(p) \in [id : Nat, upstreams : SUBSET Nat]
                      /\ pool(p).id = p /\ p # 0 /\ pool(p).upstreams = {index[p]}
      BY <1>1
<1>3. DOMAIN pools = 1..n /\ \A p \in 1..n : pools[p] = pool(p)
      BY <1>1
<1> HIDE DEF n, pool
<1>4. pools \in Pools
  <2>1. pools \in [1..n -> [id : Nat, upstreams : SUBSET Nat]]
    <3> DEFINE S == [id : Nat, upstreams : SUBSET Nat]
    <3>1. pools = [p \in 1..n |-> pool(p)] /\ \A p \in 1..n : pool(p) \in S
          BY <1>1, <1>2 DEF pool
    <3> HIDE DEF S, pools
    <3>2. pools \in [1..n -> S]
          BY <3>1
    <3> QED
        BY <3>2 DEF S
  <2> QED
      BY <1>1, <2>1 DEF Pools
<1> HIDE DEF pools
<1>5. PoolIDs(pools) = DOMAIN index
      BY <1>1, <1>2, <1>3 DEF PoolIDs
<1>6. ValidPools(pools)
  <2> DEFINE ids == [i \in DOMAIN pools |-> pools[i].id]
  <2>1. DOMAIN ids = 1..n /\ \A p \in 1..n : ids[p] = p
        BY <1>2, <1>3
  <2>2. Distinct(ids)
    <3> HIDE DEF ids
    <3> QED
        BY <2>1 DEF Distinct, IsInjective
  <2>3. \A p \in DOMAIN pools : pools[p].id # 0
        BY <1>2, <1>3
  <2>4. \A p \in DOMAIN pools : pools[p].upstreams # {}
    <3> SUFFICES ASSUME NEW p \in DOMAIN pools PROVE index[p] \in pools[p].upstreams
        OBVIOUS
    <3>1. pools[p].upstreams = {index[p]}
          BY <1>2, <1>3
    <3> QED
        BY <3>1
  <2> QED
      BY <2>2, <2>3, <2>4 DEF ValidPools
<1>7. \A p, q \in DOMAIN pools : pools[p].upstreams = pools[q].upstreams => p = q
  <2> SUFFICES ASSUME NEW p \in DOMAIN pools, NEW q \in DOMAIN pools,
                      pools[p].upstreams = pools[q].upstreams
               PROVE  p = q
      OBVIOUS
  <2>1. {index[p]} = {index[q]} /\ p \in DOMAIN index /\ q \in DOMAIN index
        BY <1>1, <1>2, <1>3
  <2>2. index[p] = index[q]
        BY <2>1
  <2> QED
      BY <2>1, <2>2 DEF IsInjective
<1> QED
    BY <1>4, <1>5, <1>6, <1>7 DEF pools

LEMMA TenantDefaults ==
  ASSUME NEW doc \in TenantFiles
  PROVE  Usable(ExpandTenant(doc)) /\ ScoresInOrder(ExpandTenant(doc))
<1> DEFINE r == ExpandTenant(doc)
<1>1. /\ r.governor = DefaultResourceGovernor(doc.on) /\ r.waf = DefaultRuntimeWAF(doc.on)
      /\ r.bot = DefaultRuntimeBot(doc.on) /\ r.xdp = DefaultRuntimeXDP(FALSE)
      /\ r.updates = DefaultRuntimeUpdates(doc.on)
      /\ r.security = DefaultRuntimeSecurity(FALSE)
      /\ r.telemetry = DefaultRuntimeTelemetry(doc.on)
      BY DEF ExpandTenant
<1> HIDE DEF r
<1>2. r.bot.enabled => r.bot.challenge \in 1..100 /\ r.bot.block \in 1..100
      BY <1>1 DEF DefaultRuntimeBot
<1>3. r.governor.enabled => r.governor.cpu \in 1..100 /\ r.governor.acts
      BY <1>1 DEF DefaultResourceGovernor
<1>4. r.waf.enabled => r.waf.engine \in AllowedWAFEngines /\ r.waf.threshold > 0
      BY <1>1 DEF DefaultRuntimeWAF, AllowedWAFEngines
<1>5. r.xdp.enabled => r.xdp.mode \in {"generic", "native", "offload"} \cup UntrimmedModes
      BY <1>1 DEF DefaultRuntimeXDP
<1>6. r.updates.enabled => r.updates.signed /\ r.updates.rollback
      BY <1>1 DEF DefaultRuntimeUpdates
<1>7. r.security.enabled => r.security.names = "some"
      BY <1>1 DEF DefaultRuntimeSecurity
<1>8. r.telemetry.health => r.telemetry.interval > 0
      BY <1>1 DEF DefaultRuntimeTelemetry
<1>9. ScoresInOrder(r)
      BY <1>1 DEF DefaultRuntimeBot, ScoresInOrder
<1> QED
    BY <1>2, <1>3, <1>4, <1>5, <1>6, <1>7, <1>8, <1>9 DEF Usable, r

LEMMA TenantExpands ==
  ASSUME NEW doc \in TenantFiles, ValidateTenant(doc)
  PROVE  /\ ValidateRuntime(ExpandTenant(doc))
         /\ OnePoolEach(ExpandTenant(doc))
         /\ ExpandTenant(doc).pools \in Pools /\ ExpandTenant(doc).sites \in RuntimeSites
<1> DEFINE r == ExpandTenant(doc)
           index == BackendIndex(Served(doc))
           P == DOMAIN index
<1>1. Served(doc) \in TenantWebsites /\ IsInjective(DomainsOf(Served(doc)))
      BY ServedIsDistinct
<1>2. /\ r.mode = doc.mode
      /\ r.pools = [p \in DOMAIN index |-> [id |-> p, upstreams |-> {index[p]}]]
      /\ r.sites = TenantSites(Served(doc))
      BY DEF ExpandTenant, Served
<1>3. index \in Seq(Nat) /\ IsInjective(index)
      BY <1>1, BackendsIndexed
<1>4. /\ r.sites \in Seq([id : Nat, domains : Seq(Nat), pool : P, routes : Seq(P)])
      /\ DOMAIN r.sites = DOMAIN Served(doc)
      /\ \A i \in DOMAIN r.sites : r.sites[i].id # 0 /\ r.sites[i].domains = Served(doc)[i].domains
      BY <1>1, <1>2, TenantSitesAre, SMTT(30)
<1> HIDE DEF r, index
<1>5. /\ r.pools \in Pools /\ PoolIDs(r.pools) = P /\ ValidPools(r.pools)
      /\ \A p, q \in DOMAIN r.pools : r.pools[p].upstreams = r.pools[q].upstreams => p = q
      BY <1>2, <1>3, NumberedPools
<1>6. r.mode \in AllowedModes
      BY <1>2 DEF ValidateTenant
<1>7. Distinct(DomainsOf(r.sites))
      BY <1>1, <1>4, DomainsStay DEF SameDomains, Distinct
<1>8. \A i \in DOMAIN r.sites :
        {r.sites[i].pool} \cup ToSet(r.sites[i].routes) \subseteq P
  <2> DEFINE S == [id : Nat, domains : Seq(Nat), pool : P, routes : Seq(P)]
  <2> SUFFICES ASSUME NEW i \in DOMAIN r.sites
               PROVE  r.sites[i].pool \in P /\ ToSet(r.sites[i].routes) \subseteq P
      OBVIOUS
  <2>1. r.sites[i] \in S
    <3> HIDE DEF S
    <3>1. r.sites \in Seq(S)
          BY <1>4 DEF S
    <3> QED
        BY <3>1, ElementOfSeq
  <2>2. r.sites[i].pool \in P /\ r.sites[i].routes \in Seq(P)
        BY <2>1
  <2> QED
      BY <2>2 DEF ToSet
<1>9. r.sites \in RuntimeSites
  <2>1. P \subseteq Nat
        BY <1>3
  <2>2. Seq(P) \subseteq Seq(Nat)
        BY <2>1, SeqMonotonic
  <2> DEFINE S == [id : Nat, domains : Seq(Nat), pool : P, routes : Seq(P)]
             T == [id : Nat, domains : Seq(Nat), pool : Nat, routes : Seq(Nat)]
  <2> HIDE DEF P
  <2>3. S \subseteq T
        BY <2>1, <2>2
  <2> HIDE DEF S, T
  <2>4. r.sites \in Seq(T)
        BY <1>4, <2>3, SeqMonotonic DEF S
  <2> QED
      BY <2>4 DEF RuntimeSites, T
<1> QED
    BY <1>4, <1>5, <1>6, <1>7, <1>8, <1>9 DEF ValidateRuntime, OnePoolEach, r

\* What is left of a section after its validation and its defaults.
LEMMA SectionsUsable ==
  ASSUME NEW doc \in AdvancedFiles, ValidSections(doc)
  PROVE  /\ Usable(ExpandAdvanced(doc))
         /\ GivesOneScore(doc) \/ ScoresInOrder(ExpandAdvanced(doc))
<1> DEFINE r == ExpandAdvanced(doc)
<1>1. /\ r.governor = NormalizeResourceGovernor(doc.governor)
      /\ r.waf = NormalizeRuntimeWAF(doc.waf) /\ r.bot = NormalizeRuntimeBot(doc.bot)
      /\ r.xdp = NormalizeRuntimeXDP(doc.xdp) /\ r.updates = NormalizeRuntimeUpdates(doc.updates)
      /\ r.security = NormalizeRuntimeSecurity(doc.security)
      /\ r.telemetry = NormalizeRuntimeTelemetry(doc.telemetry)
      BY DEF ExpandAdvanced
<1> HIDE DEF r
<1>2. r.bot.enabled => r.bot.challenge \in 1..100 /\ r.bot.block \in 1..100
  <2>1. /\ doc.bot \in [enabled : BOOLEAN, challenge : Int, block : Int] /\ ValidBot(doc.bot)
        BY DEF AdvancedFiles, ValidSections
  <2> QED
      BY <1>1, <2>1 DEF NormalizeRuntimeBot, DefaultRuntimeBot, NonZero, ValidBot
<1>3. r.governor.enabled => r.governor.cpu \in 1..100 /\ r.governor.acts
  <2>1. doc.governor \in Governors /\ ValidGovernor(doc.governor)
        BY DEF AdvancedFiles, ValidSections
  <2> QED
      BY <1>1, <2>1 DEF Governors, NormalizeResourceGovernor, DefaultResourceGovernor, NonZero,
                        ValidGovernor, ValidGovernorThreshold
<1>4. r.waf.enabled => r.waf.engine \in AllowedWAFEngines /\ r.waf.threshold > 0
  <2>1. /\ doc.waf \in [enabled : BOOLEAN, engine : Engines, threshold : Int]
        /\ ValidWAF(doc.waf)
        BY DEF AdvancedFiles, ValidSections
  <2> SUFFICES ASSUME doc.waf.enabled
               PROVE  r.waf.engine \in AllowedWAFEngines /\ r.waf.threshold > 0
      BY <1>1, <2>1 DEF NormalizeRuntimeWAF
  <2>2. doc.waf.engine \in AllowedWAFEngines /\ doc.waf.threshold >= 0
        BY <2>1 DEF ValidWAF
  <2>3. /\ r.waf.engine = NonEmpty(doc.waf.engine, "coraza")
        /\ r.waf.threshold = NonZero(doc.waf.threshold, 5)
        BY <1>1, <2>1 DEF NormalizeRuntimeWAF, DefaultRuntimeWAF
  <2>4. r.waf.engine \in AllowedWAFEngines
        BY <2>2, <2>3 DEF NonEmpty, AllowedWAFEngines
  <2>5. r.waf.threshold > 0
        BY <2>1, <2>2, <2>3 DEF NonZero
  <2> QED
      BY <2>4, <2>5
<1>5. r.xdp.enabled => r.xdp.mode \in {"generic", "native", "offload"} \cup UntrimmedModes
  <2>1. doc.xdp \in [enabled : BOOLEAN, mode : XDPModes, rate : Int] /\ ValidXDP(doc.xdp)
        BY DEF AdvancedFiles, ValidSections
  <2> SUFFICES ASSUME doc.xdp.enabled
               PROVE  r.xdp.mode \in {"generic", "native", "offload"} \cup UntrimmedModes
      BY <1>1, <2>1 DEF NormalizeRuntimeXDP
  <2>2. r.xdp.mode = NonEmpty(doc.xdp.mode, "generic")
        BY <1>1, <2>1 DEF NormalizeRuntimeXDP, DefaultRuntimeXDP
  <2>3. doc.xdp.mode \in {"", "generic", "native", "offload"} \cup UntrimmedModes
        BY <2>1 DEF ValidXDP
  <2> QED
      BY <2>2, <2>3 DEF NonEmpty
<1>6. r.updates.enabled => r.updates.signed /\ r.updates.rollback
  <2>1. doc.updates \in [enabled : BOOLEAN, channel : Channels, signed : BOOLEAN,
                         rollback : BOOLEAN]
        BY DEF AdvancedFiles
  <2> QED
      BY <1>1, <2>1 DEF NormalizeRuntimeUpdates
<1>7. r.security.enabled => r.security.names = "some"
  <2>1. /\ doc.security \in [enabled : BOOLEAN, integrity : BOOLEAN, paths : Lists,
                             names : Lists]
        /\ ValidRuntimeSecurity(doc.security)
        BY DEF AdvancedFiles, ValidSections
  <2> QED
      BY <1>1, <2>1 DEF NormalizeRuntimeSecurity, ValidRuntimeSecurity, Lists
<1>8. r.telemetry.health => r.telemetry.interval > 0
  <2>1. /\ doc.telemetry \in [enabled : BOOLEAN, health : BOOLEAN, interval : Int,
                              privacy : Privacies]
        /\ ValidTelemetry(doc.telemetry)
        BY DEF AdvancedFiles, ValidSections
  <2> DEFINE t == doc.telemetry
             interval == IF t.health THEN NonZero(t.interval, 3600) ELSE t.interval
             privacy == IF t.privacy = "all off" THEN "hashed" ELSE t.privacy
  <2>a. r.telemetry = [t EXCEPT !.interval = interval, !.privacy = privacy]
        BY <1>1 DEF NormalizeRuntimeTelemetry
  <2>b. DOMAIN t = {"enabled", "health", "interval", "privacy"}
        BY <2>1
  <2> HIDE DEF t, interval, privacy
  <2>c. r.telemetry.health = t.health /\ r.telemetry.interval = interval
        BY <2>a, <2>b
  <2>2. /\ r.telemetry.health = doc.telemetry.health
        /\ doc.telemetry.health => r.telemetry.interval = NonZero(doc.telemetry.interval, 3600)
        BY <2>c DEF t, interval
  <2>3. doc.telemetry.interval \in Int /\ doc.telemetry.interval >= 0
        BY <2>1 DEF ValidTelemetry
  <2> QED
      BY <2>2, <2>3 DEF NonZero
<1>9. GivesOneScore(doc) \/ ScoresInOrder(r)
  <2>1. /\ doc.bot \in [enabled : BOOLEAN, challenge : Int, block : Int] /\ ValidBot(doc.bot)
        /\ doc.kind = "advanced"
        BY DEF AdvancedFiles, ValidSections
  <2> SUFFICES ASSUME doc.bot.enabled, ~GivesOneScore(doc) PROVE r.bot.challenge <= r.bot.block
      BY <1>1, <2>1 DEF NormalizeRuntimeBot, ScoresInOrder
  <2>2. /\ r.bot.challenge = NonZero(doc.bot.challenge, 50)
        /\ r.bot.block = NonZero(doc.bot.block, 80)
        BY <1>1, <2>1 DEF NormalizeRuntimeBot, DefaultRuntimeBot
  <2>3. doc.bot.challenge = 0 <=> doc.bot.block = 0
        BY <2>1 DEF GivesOneScore
  <2> QED
      BY <2>1, <2>2, <2>3 DEF NonZero, ValidBot
<1> QED
    BY <1>2, <1>3, <1>4, <1>5, <1>6, <1>7, <1>8, <1>9 DEF Usable, r

LEMMA AdvancedSiteTypes ==
  ASSUME NEW sites \in AdvancedSites
  PROVE  /\ Len(sites) \in Nat /\ DOMAIN sites = 1..Len(sites)
         /\ \A i \in DOMAIN sites : /\ sites[i].id \in Nat /\ sites[i].domains \in Seq(Nat)
                                    /\ sites[i].pool \in Nat /\ sites[i].routes \in Seq(Nat)
<1>1. \A i \in 1..Len(sites) :
        sites[i] \in [id : Nat, tls : TLSModes, domains : Seq(Nat), pool : Nat, routes : Seq(Nat)]
      BY ElementOfSeq DEF AdvancedSites
<1>2. Len(sites) \in Nat /\ DOMAIN sites = 1..Len(sites)
      BY LenProperties DEF AdvancedSites
<1> QED
    BY <1>1, <1>2

LEMMA AdvancedExpands ==
  ASSUME NEW doc \in AdvancedFiles, ValidateAdvanced(doc)
  PROVE  /\ ExpandAdvanced(doc).pools \in Pools /\ ExpandAdvanced(doc).sites \in RuntimeSites
         /\ RoutesNamed(doc) => ValidateRuntime(ExpandAdvanced(doc))
<1> DEFINE r == ExpandAdvanced(doc)
           site(i) == [id |-> doc.sites[i].id, domains |-> doc.sites[i].domains,
                       pool |-> doc.sites[i].pool, routes |-> doc.sites[i].routes]
           S == [id : Nat, domains : Seq(Nat), pool : Nat, routes : Seq(Nat)]
<1>1. /\ r.mode = doc.mode /\ r.pools = doc.pools
      /\ r.sites = [i \in DOMAIN doc.sites |-> site(i)]
      BY DEF ExpandAdvanced
<1>2. /\ doc.pools \in Pools /\ doc.sites \in AdvancedSites /\ doc.kind = "advanced"
      BY DEF AdvancedFiles
<1>3. /\ Len(doc.sites) \in Nat /\ DOMAIN doc.sites = 1..Len(doc.sites)
      /\ \A i \in DOMAIN doc.sites : site(i) \in S
      BY <1>2, AdvancedSiteTypes
<1> HIDE DEF r, S
<1>4. r.sites \in RuntimeSites
  <2> HIDE DEF site
  <2>1. r.sites \in [1..Len(doc.sites) -> S]
        BY <1>1, <1>3
  <2>2. r.sites \in Seq(S)
    <3>1. Len(doc.sites) \in Nat
          BY <1>3
    <3> QED
        BY ONLY <2>1, <3>1
  <2> QED
      BY <2>2 DEF RuntimeSites, S
<1>5. /\ DOMAIN r.sites = DOMAIN doc.sites
      /\ \A i \in DOMAIN r.sites :
           /\ r.sites[i].id = doc.sites[i].id /\ r.sites[i].domains = doc.sites[i].domains
           /\ r.sites[i].pool = doc.sites[i].pool /\ r.sites[i].routes = doc.sites[i].routes
      BY <1>1
<1>6. ASSUME RoutesNamed(doc) PROVE ValidateRuntime(r)
  <2>1. r.mode \in AllowedModes /\ ValidPools(r.pools) /\ Distinct(DomainsOf(doc.sites))
        BY <1>1 DEF ValidateAdvanced
  <2>2. Distinct(DomainsOf(r.sites))
        BY <1>5, <2>1, DomainsStay DEF SameDomains
  <2>3. ASSUME NEW i \in DOMAIN r.sites
        PROVE  /\ r.sites[i].id # 0
               /\ {r.sites[i].pool} \cup ToSet(r.sites[i].routes) \subseteq PoolIDs(r.pools)
    <3>1. /\ doc.sites[i].id # 0 /\ doc.sites[i].pool \in PoolIDs(doc.pools)
          /\ ToSet(doc.sites[i].routes) \subseteq PoolIDs(doc.pools) \cup {0}
          BY <1>5 DEF ValidateAdvanced
    <3>2. doc.sites[i].routes \in Seq(Nat) /\ ~Contains(doc.sites[i].routes, 0)
          BY <1>2, <1>5, <1>6, AdvancedSiteTypes DEF RoutesNamed
    <3>a. DOMAIN doc.sites[i].routes = 1..Len(doc.sites[i].routes)
          BY <3>2, LenProperties
    <3>3. 0 \notin ToSet(doc.sites[i].routes)
          BY <3>2, <3>a DEF Contains, ToSet
    <3> QED
        BY <1>1, <1>5, <3>1, <3>3
  <2> QED
      BY <2>1, <2>2, <2>3 DEF ValidateRuntime
<1>7. r.pools \in Pools
      BY <1>1, <1>2
<1> QED
    BY <1>4, <1>6, <1>7 DEF r

\* The files that are accepted, in the terms of AcceptedExpands.
ServerFiles == AdvancedFiles \cup TenantFiles
Promised(doc) == Accepted(doc) /\ RoutesNamed(doc)

LEMMA PromisedExpand ==
  ASSUME NEW doc \in ServerFiles, Promised(doc)
  PROVE  /\ LoadRuntimeFile(doc).kind = "runtime"
         /\ Usable(LoadRuntimeFile(doc).config)
         /\ GivesOneScore(doc) \/ ScoresInOrder(LoadRuntimeFile(doc).config)
         /\ doc.kind = "tenant" => OnePoolEach(LoadRuntimeFile(doc).config)
<1>1. CASE doc \in TenantFiles
  <2>1. doc.kind = "tenant" /\ ValidateTenant(doc)
        BY <1>1 DEF TenantFiles, Promised, Accepted
  <2>2. LoadRuntimeFile(doc) = [kind |-> "runtime", config |-> ExpandTenant(doc)]
        BY <1>1, <2>1, TenantExpands DEF LoadRuntimeFile, Promised
  <2> QED
      BY <1>1, <2>1, <2>2, TenantExpands, TenantDefaults
<1>2. CASE doc \in AdvancedFiles
  <2>1. doc.kind = "advanced" /\ ValidateAdvanced(doc)
        BY <1>2 DEF AdvancedFiles, Promised, Accepted
  <2>2. ValidSections(doc)
        BY <2>1 DEF ValidateAdvanced
  <2>3. LoadRuntimeFile(doc) = [kind |-> "runtime", config |-> ExpandAdvanced(doc)]
        BY <1>2, <2>1, AdvancedExpands DEF LoadRuntimeFile, Promised
  <2> QED
      BY <1>2, <2>1, <2>2, <2>3, SectionsUsable
<1> QED
    BY <1>1, <1>2 DEF ServerFiles

LEMMA PromisedInServerMode ==
  ASSUME NEW doc \in ServerFiles, Promised(doc)
  PROVE  /\ [doc EXCEPT !.mode = "server"] \in ServerFiles
         /\ Promised([doc EXCEPT !.mode = "server"])
         /\ [doc EXCEPT !.mode = "server"].kind = doc.kind
<1> DEFINE other == [doc EXCEPT !.mode = "server"]
<1>1. CASE doc \in TenantFiles
  <2>a. other \in TenantFiles
        BY <1>1 DEF TenantFiles, Modes, AllowedModes
  <2>1. /\ other.kind = doc.kind /\ other.mode = "server"
        /\ other.wellFormed = doc.wellFormed /\ other.website = doc.website
        /\ other.tls = doc.tls /\ other.sites = doc.sites /\ doc.kind = "tenant"
        BY <1>1 DEF TenantFiles
  <2>2. doc.wellFormed /\ (doc.website => ValidTenantWebsite(doc))
        BY <2>1 DEF Promised, Accepted, ValidateTenant
  <2> HIDE DEF other
  <2>3. ValidTenantWebsite(doc) => ValidTenantWebsite(other)
        BY <2>1 DEF ValidTenantWebsite
  <2>4. ValidateTenant(other)
        BY <2>1, <2>2, <2>3 DEF ValidateTenant, AllowedModes
  <2> QED
      BY <2>a, <2>1, <2>4 DEF other, ServerFiles, Promised, Accepted, RoutesNamed
<1>2. CASE doc \in AdvancedFiles
  <2>a. other \in AdvancedFiles
        BY <1>2 DEF AdvancedFiles, Modes, AllowedModes
  <2>1. /\ other.kind = doc.kind /\ other.mode = "server"
        /\ other.wellFormed = doc.wellFormed /\ other.pools = doc.pools
        /\ other.sites = doc.sites /\ doc.kind = "advanced"
        BY <1>2 DEF AdvancedFiles
  <2>2. /\ other.governor = doc.governor /\ other.waf = doc.waf /\ other.bot = doc.bot
        /\ other.xdp = doc.xdp /\ other.updates = doc.updates
        /\ other.security = doc.security /\ other.telemetry = doc.telemetry
        BY <1>2 DEF AdvancedFiles
  <2>3. ValidateAdvanced(doc)
        BY <2>1 DEF Promised, Accepted
  <2> HIDE DEF other
  <2>4. ValidSections(other)
        BY <2>2, <2>3 DEF ValidSections, ValidateAdvanced
  <2>5. ValidateAdvanced(other)
        BY <2>1, <2>3, <2>4 DEF ValidateAdvanced, AllowedModes
  <2>6. RoutesNamed(other)
        BY <2>1 DEF RoutesNamed, Promised
  <2> QED
      BY <2>a, <2>1, <2>5, <2>6 DEF other, ServerFiles, Promised, Accepted
<1> QED
    BY <1>1, <1>2 DEF ServerFiles

\* The file keeps to one of the kinds, and what was loaded is what it says now.
RuntimeInv ==
  /\ document \in ServerFiles \cup ProviderFiles \cup {Truncated}
  /\ loaded \in {NotLoaded, LoadRuntimeFile(document)}

LEMMA RuntimeInvInit == RuntimeConfigInit => RuntimeInv
BY RuntimeConfigAssumption DEF RuntimeConfigInit, RuntimeInv, ServerFiles

LEMMA RuntimeInvStep == RuntimeInv /\ [RuntimeConfigNext]_runtimeConfigVars => RuntimeInv'
<1> SUFFICES ASSUME RuntimeInv, [RuntimeConfigNext]_runtimeConfigVars PROVE RuntimeInv'
    OBVIOUS
<1>1. CASE LoadRuntime
      BY <1>1 DEF LoadRuntime, RuntimeInv
<1>2. ASSUME NEW mode \in AllowedModes, SetModeFile(mode) PROVE RuntimeInv'
  <2>a. document.kind # "malformed" /\ Truncated.kind = "malformed"
        BY <1>2 DEF SetModeFile, Truncated
  <2>b. document # Truncated
        BY <2>a
  <2>c. mode \in Modes
        BY DEF AllowedModes, Modes
  <2>1. document \in ServerFiles \cup ProviderFiles /\ mode \in Modes
        BY <2>b, <2>c DEF RuntimeInv
  <2>2. document' = [document EXCEPT !.mode = mode] /\ loaded' = NotLoaded
        BY <1>2 DEF SetModeFile
  <2>3. document \in TenantFiles => document' \in TenantFiles
        BY <2>1, <2>2 DEF TenantFiles
  <2>4. document \in AdvancedFiles => document' \in AdvancedFiles
        BY <2>1, <2>2 DEF AdvancedFiles
  <2>5. document \in ProviderFiles => document' \in ProviderFiles
        BY <2>1, <2>2 DEF ProviderFiles
  <2> QED
      BY <2>1, <2>2, <2>3, <2>4, <2>5 DEF RuntimeInv, ServerFiles
<1>3. CASE SetModeCrashes
      BY <1>3 DEF SetModeCrashes, RuntimeInv
<1>4. CASE UNCHANGED runtimeConfigVars
      BY <1>4 DEF runtimeConfigVars, RuntimeInv
<1> QED
    BY <1>1, <1>2, <1>3, <1>4 DEF RuntimeConfigNext

\* Any file of a server that CheckFile accepts, however many sites, routes and pools it has
\* and whatever its settings, expands into a configuration that ValidateRuntime accepts, with
\* one pool for each backend of a tenant, its settings in range and its bot scores in order
\* (but for the two gaps that RuntimeConfig names at Usable), and still does after
\* "mode set server" (shared/config).
THEOREM AcceptedFilesExpand == RuntimeConfigSpec => []AcceptedExpands
<1>1. RuntimeInv => AcceptedExpands
  <2> SUFFICES ASSUME RuntimeInv, document.kind \in {"tenant", "advanced"},
                      Accepted(document), RoutesNamed(document)
               PROVE  AcceptedExpands
      BY DEF AcceptedExpands
  <2>a. Truncated.kind = "malformed" /\ \A doc \in ProviderFiles : doc.kind = "provider"
        BY DEF ProviderFiles, Truncated
  <2>b. document \notin ProviderFiles /\ document # Truncated
        BY <2>a
  <2>1. document \in ServerFiles /\ Promised(document)
        BY <2>b DEF RuntimeInv, Promised
  <2> DEFINE other == [document EXCEPT !.mode = "server"]
  <2>2. other \in ServerFiles /\ Promised(other) /\ other.kind = document.kind
        BY <2>1, PromisedInServerMode
  <2> HIDE DEF other
  <2>3. /\ LoadRuntimeFile(document).kind = "runtime"
        /\ Usable(LoadRuntimeFile(document).config)
        /\ GivesOneScore(document) \/ ScoresInOrder(LoadRuntimeFile(document).config)
        /\ document.kind = "tenant" => OnePoolEach(LoadRuntimeFile(document).config)
        BY <2>1, PromisedExpand
  <2>4. /\ LoadRuntimeFile(other).kind = "runtime"
        /\ Usable(LoadRuntimeFile(other).config)
        /\ GivesOneScore(other) \/ ScoresInOrder(LoadRuntimeFile(other).config)
        /\ other.kind = "tenant" => OnePoolEach(LoadRuntimeFile(other).config)
        BY <2>2, PromisedExpand
  <2>c. loaded = LoadRuntimeFile(document) \/ loaded = NotLoaded
        BY DEF RuntimeInv
  <2>d. NotLoaded.kind = "not read"
        BY DEF NotLoaded
  <2>5. loaded.kind # "error"
        BY <2>3, <2>c, <2>d
  <2> QED
      BY <2>3, <2>4, <2>5 DEF AcceptedExpands, other
<1> QED
    BY <1>1, RuntimeInvInit, RuntimeInvStep, PTL DEF RuntimeConfigSpec

\* What an expanded configuration can hold.
LEMMA TenantDefenses ==
  ASSUME NEW doc \in TenantFiles
  PROVE  LET r == ExpandTenant(doc)
         IN  [waf |-> r.waf, bot |-> r.bot, updates |-> r.updates,
              security |-> r.security, telemetry |-> r.telemetry] \in RuntimeDefenses
<1> DEFINE r == ExpandTenant(doc)
<1>1. doc.on \in BOOLEAN
      BY DEF TenantFiles
<1>2. /\ r.waf = DefaultRuntimeWAF(doc.on) /\ r.bot = DefaultRuntimeBot(doc.on)
      /\ r.updates = DefaultRuntimeUpdates(doc.on)
      /\ r.security = DefaultRuntimeSecurity(FALSE)
      /\ r.telemetry = DefaultRuntimeTelemetry(doc.on)
      BY DEF ExpandTenant
<1> HIDE DEF r
<1>3. r.waf \in [enabled : BOOLEAN, engine : Engines, threshold : Int]
      BY <1>1, <1>2 DEF DefaultRuntimeWAF, Engines, AllowedWAFEngines
<1>4. r.bot \in [enabled : BOOLEAN, challenge : 0..100, block : 0..100]
      BY <1>1, <1>2 DEF DefaultRuntimeBot
<1>5. r.updates \in [enabled : BOOLEAN, channel : Channels, signed : BOOLEAN, rollback : BOOLEAN]
      BY <1>1, <1>2 DEF DefaultRuntimeUpdates, Channels
<1>6. r.security \in [enabled : BOOLEAN, integrity : BOOLEAN, paths : Lists, names : Lists]
      BY <1>2 DEF DefaultRuntimeSecurity, Lists
<1>7. r.telemetry \in [enabled : BOOLEAN, health : BOOLEAN, interval : Nat, privacy : Privacies]
      BY <1>1, <1>2 DEF DefaultRuntimeTelemetry, Privacies
<1> QED
    BY <1>3, <1>4, <1>5, <1>6, <1>7 DEF RuntimeDefenses, r

LEMMA AdvancedDefenses ==
  ASSUME NEW doc \in AdvancedFiles, ValidSections(doc)
  PROVE  LET r == ExpandAdvanced(doc)
         IN  [waf |-> r.waf, bot |-> r.bot, updates |-> r.updates,
              security |-> r.security, telemetry |-> r.telemetry] \in RuntimeDefenses
<1> DEFINE r == ExpandAdvanced(doc)
<1>1. /\ r.waf = NormalizeRuntimeWAF(doc.waf) /\ r.bot = NormalizeRuntimeBot(doc.bot)
      /\ r.updates = NormalizeRuntimeUpdates(doc.updates)
      /\ r.security = NormalizeRuntimeSecurity(doc.security)
      /\ r.telemetry = NormalizeRuntimeTelemetry(doc.telemetry)
      BY DEF ExpandAdvanced
<1> HIDE DEF r
<1>3. r.waf \in [enabled : BOOLEAN, engine : Engines, threshold : Int]
  <2>1. doc.waf \in [enabled : BOOLEAN, engine : Engines, threshold : Int]
        BY DEF AdvancedFiles
  <2> DEFINE engine == NonEmpty(doc.waf.engine, "coraza")
             threshold == NonZero(doc.waf.threshold, 5)
  <2>2. r.waf = doc.waf \/ r.waf = [doc.waf EXCEPT !.engine = engine, !.threshold = threshold]
        BY <1>1 DEF NormalizeRuntimeWAF, DefaultRuntimeWAF
  <2>3. engine \in Engines
        BY <2>1 DEF NonEmpty, Engines, AllowedWAFEngines
  <2>4. threshold \in Int
        BY <2>1 DEF NonZero
  <2> HIDE DEF engine, threshold
  <2> QED
      BY <2>1, <2>2, <2>3, <2>4
<1>4. r.bot \in [enabled : BOOLEAN, challenge : 0..100, block : 0..100]
  <2>1. /\ doc.bot \in [enabled : BOOLEAN, challenge : Int, block : Int] /\ ValidBot(doc.bot)
        BY DEF AdvancedFiles, ValidSections
  <2> DEFINE challenge == NonZero(doc.bot.challenge, 50)
             block == NonZero(doc.bot.block, 80)
  <2>2. r.bot = doc.bot \/ r.bot = [doc.bot EXCEPT !.challenge = challenge, !.block = block]
        BY <1>1 DEF NormalizeRuntimeBot, DefaultRuntimeBot
  <2>3. doc.bot \in [enabled : BOOLEAN, challenge : 0..100, block : 0..100]
        BY <2>1 DEF ValidBot
  <2>4. challenge \in 0..100 /\ block \in 0..100
        BY <2>3 DEF NonZero
  <2> HIDE DEF challenge, block
  <2> QED
      BY <2>2, <2>3, <2>4
<1>5. r.updates \in [enabled : BOOLEAN, channel : Channels, signed : BOOLEAN, rollback : BOOLEAN]
  <2>1. doc.updates \in [enabled : BOOLEAN, channel : Channels, signed : BOOLEAN,
                         rollback : BOOLEAN]
        BY DEF AdvancedFiles
  <2> QED
      BY <1>1, <2>1 DEF NormalizeRuntimeUpdates, NonEmpty, Channels
<1>6. r.security \in [enabled : BOOLEAN, integrity : BOOLEAN, paths : Lists, names : Lists]
  <2>1. doc.security \in [enabled : BOOLEAN, integrity : BOOLEAN, paths : Lists, names : Lists]
        BY DEF AdvancedFiles
  <2> QED
      BY <1>1, <2>1 DEF NormalizeRuntimeSecurity, Lists
<1>7. r.telemetry \in [enabled : BOOLEAN, health : BOOLEAN, interval : Nat, privacy : Privacies]
  <2>1. /\ doc.telemetry \in [enabled : BOOLEAN, health : BOOLEAN, interval : Int,
                              privacy : Privacies]
        /\ ValidTelemetry(doc.telemetry)
        BY DEF AdvancedFiles, ValidSections
  <2> DEFINE t == doc.telemetry
             interval == IF t.health THEN NonZero(t.interval, 3600) ELSE t.interval
             privacy == IF t.privacy = "all off" THEN "hashed" ELSE t.privacy
  <2>2. r.telemetry = [t EXCEPT !.interval = interval, !.privacy = privacy]
        BY <1>1 DEF NormalizeRuntimeTelemetry
  <2>3. interval \in Nat
        BY <2>1 DEF NonZero, ValidTelemetry
  <2>4. privacy \in Privacies
        BY <2>1 DEF Privacies
  <2>5. t \in [enabled : BOOLEAN, health : BOOLEAN, interval : Int, privacy : Privacies]
        BY <2>1
  <2> HIDE DEF t, interval, privacy
  <2> QED
      BY <2>2, <2>3, <2>4, <2>5
<1> QED
    BY <1>3, <1>4, <1>5, <1>6, <1>7 DEF RuntimeDefenses, r

\* A configuration that was loaded has pools, sites and settings of the right types, whatever
\* the file held (LoadRuntimeFile).
THEOREM RuntimeConfigTypes == RuntimeConfigSpec => []RuntimeConfigTypeOK
<1>1. RuntimeInv => RuntimeConfigTypeOK
  <2> SUFFICES ASSUME RuntimeInv PROVE RuntimeConfigTypeOK
      OBVIOUS
  <2>1. document.kind \in {"tenant", "advanced", "provider", "malformed"}
    <3>1. /\ \A doc \in ProviderFiles : doc.kind = "provider"
          /\ \A doc \in TenantFiles : doc.kind = "tenant"
          /\ \A doc \in AdvancedFiles : doc.kind = "advanced"
          BY DEF ProviderFiles, TenantFiles, AdvancedFiles
    <3>2. Truncated.kind = "malformed"
          BY DEF Truncated
    <3> QED
        BY <3>1, <3>2 DEF RuntimeInv, ServerFiles
  <2>2. CASE loaded = NotLoaded
    <3>1. loaded.kind = "not read"
          BY <2>2 DEF NotLoaded
    <3> QED
        BY <2>1, <3>1 DEF RuntimeConfigTypeOK
  <2>3. CASE loaded = Failed
    <3>1. loaded.kind = "error"
          BY <2>3 DEF Failed
    <3> QED
        BY <2>1, <3>1 DEF RuntimeConfigTypeOK
  <2>4. CASE loaded = LoadRuntimeFile(document) /\ loaded # Failed
    <3> DEFINE r == IF document.kind = "tenant" THEN ExpandTenant(document)
                    ELSE ExpandAdvanced(document)
    <3>1. /\ loaded = [kind |-> "runtime", config |-> r]
          /\ document.kind \in {"tenant", "advanced"} /\ Accepted(document) /\ ValidateRuntime(r)
          BY <2>4 DEF LoadRuntimeFile
    <3>2. /\ r.pools \in Pools /\ r.sites \in RuntimeSites
          /\ [waf |-> r.waf, bot |-> r.bot, updates |-> r.updates,
              security |-> r.security, telemetry |-> r.telemetry] \in RuntimeDefenses
      <4>a. /\ \A doc \in ProviderFiles : doc.kind = "provider"
            /\ \A doc \in TenantFiles : doc.kind = "tenant"
            /\ \A doc \in AdvancedFiles : doc.kind = "advanced"
            BY DEF ProviderFiles, TenantFiles, AdvancedFiles
      <4>b. Truncated.kind = "malformed"
            BY DEF Truncated
      <4>1. CASE document.kind = "tenant"
        <5>1. document \in TenantFiles /\ ValidateTenant(document)
              BY <3>1, <4>1, <4>a, <4>b DEF RuntimeInv, ServerFiles, Accepted
        <5> QED
            BY <4>1, <5>1, TenantExpands, TenantDefenses
      <4>2. CASE document.kind = "advanced"
        <5>1. document \in AdvancedFiles /\ ValidateAdvanced(document)
              BY <3>1, <4>2, <4>a, <4>b DEF RuntimeInv, ServerFiles, Accepted
        <5>2. ValidSections(document)
              BY <5>1 DEF ValidateAdvanced
        <5> QED
            BY <4>2, <5>1, <5>2, AdvancedExpands, AdvancedDefenses
      <4> QED
          BY <3>1, <4>1, <4>2
    <3>3. r.mode \in AllowedModes
          BY <3>1 DEF ValidateRuntime
    <3> HIDE DEF r
    <3>4. loaded.kind = "runtime" /\ loaded.config = r
          BY <3>1
    <3> QED
        BY <2>1, <3>2, <3>3, <3>4 DEF RuntimeConfigTypeOK
  <2> QED
      BY <2>2, <2>3, <2>4 DEF RuntimeInv
<1> QED
    BY <1>1, RuntimeInvInit, RuntimeInvStep, PTL DEF RuntimeConfigSpec
=============================================================================
