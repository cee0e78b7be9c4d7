------------------------------ MODULE BinaryUpdate ------------------------------
(***************************************************************************)
(* The three ways in which the binary of a node is replaced, as the file    *)
(* operations they are made of: the updater of the node                     *)
(* (client/updater/updater.go, prefix Ota), the command line                *)
(* (cmd/kiro-cli/update/update.go, prefix Cli) and the apply of the shared  *)
(* package (shared/update/apply.go, prefix Pending).  A node is updated in  *)
(* one of these ways, one update at a time; an update may be cut off after  *)
(* any file operation, and any of them may fail.  Whether the service comes *)
(* up depends on the image; one in Working may still be too slow.           *)
(***************************************************************************)
EXTENDS Integers

CONSTANTS Images,      \* releases, and the binary the node was installed with
          Installed,
          Working,     \* images whose service can become active
          Absent, Torn \* no file, and a file that was not written to its end

ASSUME UpdateAssumption ==
  /\ Installed \in Working /\ Working \subseteq Images
  /\ Absent \notin Images /\ Torn \notin Images /\ Absent # Torn

Paths == {"target", "prev", "bak", "download"}   \* BackupPath of Ota, .bak of Cli

VARIABLES way,                \* how this node is updated
          backupDir,          \* the directory of BackupPath exists
          files,              \* contents by path
          pending,            \* snapshot that pending-update.json names, or Absent
          at, artifact,       \* next step of the update, and the image it installs
          status, versions,   \* UpdateState: Status, current and previous version
          was, proven, gamble, outcome  \* history

updateState == <<status, versions>>
updateHistory == <<was, proven, gamble, outcome>>
updateVars == <<way, backupDir, files, pending, at, artifact, updateState, updateHistory>>

UpdateSteps == {"idle", "ota backup", "ota copy", "ota swap", "ota health", "ota rollback",
          "cli verify", "cli backup", "cli replace", "cli restore", "cli restart",
          "cli undo", "cli undone", "cli health", "cli failed", "cli rollback",
          "pending record", "pending copy", "pending health", "pending uncopied",
          "pending unhealthy", "pending forget", "asked rollback", "asked forget"}

UpdateTypeOK ==
  /\ way \in {"ota", "cli", "pending"} /\ backupDir \in BOOLEAN
  /\ files \in [Paths -> Images \cup {Absent, Torn}]
  /\ files["target"] # Torn
  /\ pending \in Images \cup {Absent}
  /\ at \in UpdateSteps /\ artifact \in Images \cup {Absent}
  /\ status \in {"idle", "applying", "rolling_back"}
  /\ versions \in [current : Images \cup {Absent}, previous : Images \cup {Absent}]
  /\ was \in Images \cup {Absent} /\ proven \subseteq Working
  /\ gamble \in BOOLEAN
  /\ outcome \in {"none", "updated", "rolled back", "rollback failed"}

\* The updater of the node also serves a fresh installation, without a binary yet;
\* nothing in it creates the directory of BackupPath.
UpdateStart(how, image) ==
  /\ way = how /\ backupDir \in {TRUE, how # "ota"}
  /\ files = [p \in Paths |-> IF p = "target" THEN image ELSE Absent]
  /\ pending = Absent
  /\ at = "idle" /\ artifact = Absent
  /\ status = "idle" /\ versions = [current |-> image, previous |-> Absent]
  /\ was = image /\ outcome = "none"
  /\ proven = {image} \ {Absent} /\ gamble = (image = Absent)

UpdateInit ==
  \/ \E how \in {"ota", "cli", "pending"} : UpdateStart(how, Installed)
  \/ UpdateStart("ota", Absent)

-----------------------------------------------------------------------------
Target == files["target"]
Write(path, content) == files' = [files EXCEPT ![path] = content]
Rename(from, to) == files' = [files EXCEPT ![to] = files[from], ![from] = Absent]
FilesKept == UNCHANGED files

Step(from, to) == at = from /\ at' = to /\ UNCHANGED <<way, backupDir>>

\* An update begins on top of what is installed; nobody knows that works unless a
\* health check has said so.
Begin(how) ==
  /\ way = how
  /\ was' = Target
  /\ gamble' = (gamble \/ Target \in Images \ proven)
  /\ outcome' = "none"
  /\ UNCHANGED proven

Ends(how) == outcome' = how /\ UNCHANGED <<was, proven, gamble>>
GoesOn == UNCHANGED updateHistory
Fails(from) == Step(from, "idle") /\ GoesOn /\ UNCHANGED artifact

\* The service was found active: the image in place has worked once.
Active == Target \in Working
FoundActive == proven' = proven \cup {Target} /\ outcome' = "updated" /\ UNCHANGED <<was, gamble>>

-----------------------------------------------------------------------------
\* DownloadAndVerify; without a verified file nothing is left and nothing follows.
OtaDownload(i) ==
  /\ Step("idle", "ota backup") /\ Begin("ota")
  /\ artifact' = i
  /\ FilesKept /\ UNCHANGED <<pending, updateState>>

OtaFails(from) == Fails(from) /\ status' = "idle" /\ UNCHANGED versions

\* What ApplyUpdate takes for a fresh installation: copyFile says that something does
\* not exist, which may be the directory it was to write to.
NothingToBackUp == Target = Absent \/ ~backupDir

OtaKeepsOldBackup ==   \* mutant: a backup that is there is not written again
  /\ \/ /\ files["prev"] # Absent \/ NothingToBackUp
        /\ Step("ota backup", "ota swap") /\ FilesKept
     \/ files["prev"] = Absent /\ ~NothingToBackUp
        /\ Step("ota backup", "ota copy") /\ Write("prev", Torn)
  /\ status' = "applying"
  /\ GoesOn /\ UNCHANGED <<artifact, pending, versions>>

\* ApplyUpdate opens the backup, which truncates it ...
OtaOpenBackup ==
  /\ \/ NothingToBackUp /\ Step("ota backup", "ota swap") /\ FilesKept
     \/ ~NothingToBackUp /\ Step("ota backup", "ota copy") /\ Write("prev", Torn)
  /\ status' = "applying"
  /\ GoesOn /\ UNCHANGED <<artifact, pending, versions>>

OtaCopyIgnoresError ==   \* mutant: a copy that fails is not noticed
  /\ \/ Step("ota copy", "ota swap") /\ Write("prev", Target)
     \/ Step("ota copy", "ota swap") /\ FilesKept
  /\ GoesOn /\ UNCHANGED <<artifact, pending, updateState>>

\* ... copies the binary into it ...
OtaCopyBackup ==
  /\ \/ /\ Step("ota copy", "ota swap") /\ Write("prev", Target)
        /\ GoesOn /\ UNCHANGED <<artifact, updateState>>
     \/ OtaFails("ota copy") /\ FilesKept
  /\ UNCHANGED pending

\* ... and renames the new binary over the old one.  The version that runs is left
\* alone.
OtaSwap ==
  /\ \/ /\ Step("ota swap", "ota health") /\ Write("target", artifact) /\ GoesOn
        /\ status' = "idle" /\ versions' = [versions EXCEPT !.previous = versions.current]
        /\ UNCHANGED artifact
     \/ OtaFails("ota swap") /\ FilesKept
  /\ UNCHANGED pending

\* HealthCheckAndRollback, after whoever applied the update restarted the service.
OtaHealth ==
  /\ \/ Active /\ Step("ota health", "idle") /\ FoundActive /\ UNCHANGED status
     \/ Step("ota health", "idle") /\ GoesOn /\ UNCHANGED status   \* ctx is cancelled
     \/ Step("ota health", "ota rollback") /\ GoesOn /\ status' = "rolling_back"
  /\ FilesKept /\ UNCHANGED <<artifact, pending, versions>>

OtaRollback ==
  /\ \/ /\ files["prev"] # Absent
        /\ Step("ota rollback", "idle") /\ Rename("prev", "target") /\ Ends("rolled back")
        /\ versions' = [current |-> versions.previous, previous |-> Absent]
        /\ status' = "idle" /\ UNCHANGED artifact
     \/ OtaFails("ota rollback") /\ FilesKept
  /\ UNCHANGED pending

-----------------------------------------------------------------------------
CliUnchanged == UNCHANGED <<pending, updateState>>
CliGoes(from, to) == Step(from, to) /\ GoesOn /\ UNCHANGED artifact /\ CliUnchanged

\* Apply downloads next to the binary ...
CliDownload(i) ==
  /\ Step("idle", "cli verify") /\ Begin("cli") /\ artifact' = i
  /\ Write("download", Torn)
  /\ CliUnchanged

\* ... and goes on if all of it arrived: the checksum says so.
CliVerify ==
  \/ CliGoes("cli verify", "cli backup") /\ Write("download", artifact)
  \/ CliGoes("cli verify", "idle") /\ Write("download", Absent)

CliBackup ==
  \/ CliGoes("cli backup", "cli replace") /\ Target # Absent /\ Rename("target", "bak")
  \/ CliGoes("cli backup", "idle") /\ Write("download", Absent)

CliReplace ==
  \/ CliGoes("cli replace", "cli restart") /\ Rename("download", "target")
  \/ CliGoes("cli replace", "cli restore") /\ FilesKept

\* The binary was not replaced: put the backup back.  The error is not looked at.
CliRestore ==
  /\ Step("cli restore", "idle") /\ UNCHANGED artifact /\ CliUnchanged
  /\ \/ Rename("bak", "target") /\ Ends("rolled back")
     \/ FilesKept /\ GoesOn

CliRestart ==
  \/ CliGoes("cli restart", "cli health") /\ FilesKept
  \/ CliGoes("cli restart", "cli undo") /\ FilesKept

\* The service did not restart: the new binary goes back to the download, the
\* backup back in place, and the download is removed, whatever fails of it.
CliUndo ==
  \/ CliGoes("cli undo", "cli undone") /\ Rename("target", "download")
  \/ CliGoes("cli undo", "cli undone") /\ FilesKept

CliUndone ==
  /\ Step("cli undone", "idle") /\ UNCHANGED artifact /\ CliUnchanged
  /\ \/ /\ files' = [files EXCEPT !["target"] = files["bak"], !["bak"] = Absent,
                                  !["download"] = Absent]
        /\ Ends("rolled back")
     \/ Write("download", Absent) /\ GoesOn

\* The health check decides; a success removes the backup, a failure the new binary,
\* if it can.
CliHealth ==
  \/ /\ Active /\ Step("cli health", "idle") /\ FoundActive /\ (Write("bak", Absent) \/ FilesKept)
     /\ UNCHANGED artifact /\ CliUnchanged
  \/ CliGoes("cli health", "cli failed") /\ (Write("target", Absent) \/ FilesKept)

CliFailed ==
  \/ /\ Step("cli failed", "idle") /\ Rename("bak", "target") /\ Ends("rolled back")
     /\ UNCHANGED artifact /\ CliUnchanged
  \/ CliGoes("cli failed", "idle") /\ FilesKept

\* The rollback command puts the last backup back, and says so if the service restarts.
CliAskRollback ==
  /\ way = "cli" /\ files["bak"] # Absent
  /\ Step("idle", "cli rollback") /\ was' = files["bak"] /\ outcome' = "none"
  /\ FilesKept /\ UNCHANGED <<artifact, proven, gamble>> /\ CliUnchanged

CliRollback ==
  /\ Step("cli rollback", "idle") /\ UNCHANGED artifact /\ CliUnchanged
  /\ \/ Rename("bak", "target") /\ (Ends("rolled back") \/ GoesOn)
     \/ FilesKept /\ GoesOn

-----------------------------------------------------------------------------
PendingUnchanged == UNCHANGED updateState
PendingGoes(from, to) == Step(from, to) /\ GoesOn /\ UNCHANGED artifact /\ PendingUnchanged

\* ApplyFileWithRollback takes a snapshot.  Its name has the second in it: it is new,
\* and no one knows it yet, or the name that is pending.
PendingSnapshot(i) ==
  /\ Step("idle", "pending record") /\ Begin("pending") /\ artifact' = i
  /\ \/ UNCHANGED pending
     \/ pending # Absent /\ pending' = Target
  /\ FilesKept /\ PendingUnchanged

\* ... names it in pending-update.json ...
PendingRecord ==
  \/ PendingGoes("pending record", "pending copy") /\ pending' = Target /\ FilesKept
  \/ PendingGoes("pending record", "idle") /\ FilesKept /\ UNCHANGED pending

\* ... and installs the artifact.
PendingCopy ==
  /\ \/ PendingGoes("pending copy", "pending health") /\ Write("target", artifact)
     \/ PendingGoes("pending copy", "pending uncopied") /\ FilesKept
  /\ UNCHANGED pending

PendingHealth ==
  /\ \/ /\ Active /\ Step("pending health", "idle") /\ FoundActive
        /\ UNCHANGED artifact /\ PendingUnchanged
     \/ PendingGoes("pending health", "pending unhealthy")
  /\ FilesKept /\ UNCHANGED pending

\* RollbackPending copies the snapshot back and forgets it.  The apply that failed
\* calls it and answers RolledBack whatever becomes of it: after a failed copy its
\* error is dropped, and there was nothing to put back; after a failed health check
\* the answer comes with that error, and the new artifact is still installed.
Restores(from, to) == PendingGoes(from, to) /\ Write("target", pending) /\ UNCHANGED pending

PendingRollback(from, failed) ==
  \/ Restores(from, "pending forget")
  \/ /\ Step(from, "idle") /\ Ends(failed)
     /\ FilesKept /\ UNCHANGED <<pending, artifact>> /\ PendingUnchanged

PendingForget ==
  /\ pending' \in {Absent, pending}
  /\ Step("pending forget", "idle") /\ Ends("rolled back")
  /\ FilesKept /\ UNCHANGED artifact /\ PendingUnchanged

\* A caller may ask for it later, too, and is told its error.
AskRollback ==
  /\ pending # Absent
  /\ Step("idle", "asked rollback") /\ was' = pending /\ outcome' = "none"
  /\ FilesKept /\ UNCHANGED <<pending, artifact, proven, gamble>> /\ PendingUnchanged

AskedRollback ==
  \/ Restores("asked rollback", "asked forget")
  \/ PendingGoes("asked rollback", "idle") /\ FilesKept /\ UNCHANGED pending

AskedForget ==
  /\ \/ pending' = Absent /\ Ends("rolled back")
     \/ UNCHANGED pending /\ GoesOn
  /\ Step("asked forget", "idle")
  /\ FilesKept /\ UNCHANGED artifact /\ PendingUnchanged

\* Whoever confirms an update vouches for what is installed.
ConfirmPending ==
  /\ pending # Absent /\ pending' = Absent
  /\ gamble' = (gamble \/ Target \notin proven)
  /\ Step("idle", "idle") /\ FilesKept
  /\ UNCHANGED <<was, proven, outcome, artifact>> /\ PendingUnchanged

-----------------------------------------------------------------------------
\* The process that updates is killed, or the machine goes down; the updater of a
\* new process knows the version it was built from.
UpdateCrash ==
  /\ at # "idle" /\ at' = "idle"
  /\ artifact' = Absent
  /\ status' = "idle"
  /\ versions' = IF way = "ota" THEN [current |-> Target, previous |-> Absent] ELSE versions
  /\ UNCHANGED <<way, backupDir>> /\ FilesKept /\ UNCHANGED pending /\ GoesOn

UpdateNext ==
  \/ \E i \in Images : OtaDownload(i) \/ CliDownload(i) \/ PendingSnapshot(i)
  \/ OtaOpenBackup \/ OtaCopyBackup \/ OtaSwap \/ OtaHealth \/ OtaRollback
  \/ CliVerify \/ CliBackup \/ CliReplace \/ CliRestore \/ CliRestart \/ CliUndo
  \/ CliUndone \/ CliHealth \/ CliFailed \/ CliAskRollback \/ CliRollback
  \/ PendingRecord \/ PendingCopy \/ PendingHealth \/ PendingForget
  \/ PendingRollback("pending uncopied", "rolled back")
  \/ PendingRollback("pending unhealthy", "rollback failed")
  \/ AskRollback \/ AskedRollback \/ AskedForget \/ ConfirmPending
  \/ UpdateCrash

UpdateSpec == UpdateInit /\ [][UpdateNext]_updateVars

-----------------------------------------------------------------------------
\* Whatever fails and wherever an update is cut off, an image that has worked is
\* installed or kept as a backup, unless an update was begun on top of one whose
\* health check never came to an end.  Left out: a BackupPath in a directory that is
\* not there, where ApplyUpdate (updater.go:369-375) takes copyFile's error at line 409
\* for a fresh installation and replaces the binary without a backup.
GoodCopyKept ==
  backupDir /\ ~gamble =>
    pending \in proven \/ \E p \in {"target", "prev", "bak"} : files[p] \in proven

\* An update that says it was rolled back has put back, whole, the binary that was
\* installed when it began, and a rollback that was asked for (Rollback of kiro-cli,
\* RollbackPending) the last backup.  Left out: the answer of a health check that
\* failed and whose rollback failed as well, which has RolledBack set and an error
\* (apply.go:78-79, "rollback failed" here).
RolledBackExactly ==
  [][outcome' = "rolled back" /\ outcome # "rolled back" =>
       files'["target"] = was /\ was \in Images]_updateVars
=================================================================================
