-------------------------------- MODULE Installer --------------------------------
(***************************************************************************)
(* The installer (shared/installer/installer.go): a plan of steps, carried    *)
(* out one after the other until one fails, on the host or under an install   *)
(* root (staging, and lab runs).  A file is opened truncated and then copied  *)
(* into, so a step that fails or a process that ends may leave it torn; what   *)
(* the plan calls rollback is text for the operator, and never carried out.    *)
(* A configuration is whole when it can be loaded.  The agent's own commands    *)
(* (kiro-agent is not in this repository) may do what their options say.         *)
(***************************************************************************)
EXTENDS Integers, Sequences, FiniteSets, SequencesExt

CONSTANTS Binaries         \* names of the binaries that a plan may install

Host == "host"
Lab == "lab"               \* under the install root
Agent == "agent"
DataDirs == {"config dir", "state dir"}      \* with it those of logs and sockets
FilesOf(binaries) == {"config", "service"} \cup binaries
Targets == FilesOf(Binaries) \cup DataDirs

\* Every target is at a path of its own.
ASSUME InstallerAssumption ==
  /\ Agent \in Binaries /\ IsFiniteSet(Binaries)
  /\ Binaries \cap (DataDirs \cup {"config", "service"}) = {}

VARIABLES op,          \* the operation under way: its kind and options, or NoOp
          todo,        \* the steps of its plan that are left
          disk,        \* on the host and under the root: what is at each target
          active       \* the service kiro-agent runs

installVars == <<op, todo, disk, active>>

NoOp == [kind |-> "none"]
ConfigSources == {"installed", "given"}        \* --config: /etc/kiro/kiro.yaml, the default, or another
Operation == [kind : {"stage"}, where : {Lab}, binaries : {{}, Binaries}, run : {FALSE},
              from : ConfigSources]
     \cup [kind : {"install"}, where : {Host, Lab}, binaries : {{}, Binaries}, run : BOOLEAN,
           from : ConfigSources]
     \cup [kind : {"uninstall"}, where : {Host, Lab}, purge : BOOLEAN, run : BOOLEAN]

PlanStep == [do : {"run", "mkdir", "copy", "copying", "remove"}, target : Targets]
    \cup [do : {"run"}, target : {"check", "snapshot", "daemon-reload", "enable", "disable"}]

InstallerTypeOK ==
  /\ op \in Operation \cup {NoOp}
  /\ \A i \in DOMAIN todo : todo[i] \in PlanStep
  /\ disk \in [{Host, Lab} -> [Targets -> {"none", "torn", "whole"}]]
  /\ active \in BOOLEAN

InstallerInit ==
  /\ op = NoOp /\ todo = <<>>
  /\ \E before \in {"none", "whole"} :
       disk = [w \in {Host, Lab} |-> [t \in Targets |->
                 IF w = Host /\ t \in {"config dir", "config"} THEN before ELSE "none"]]
  /\ active = FALSE

-----------------------------------------------------------------------------
(* The plans, in the order of the code; checks that change nothing are one step. *)
Runs(target) == <<[do |-> "run", target |-> target]>>
Each(do, targets) == SetToSeq({[do |-> do, target |-> t] : t \in targets})

InstallPlan(binaries) ==
  Runs("check") \o Each("mkdir", DataDirs)
  \o <<[do |-> "copy", target |-> "config"], [do |-> "copy", target |-> "service"]>>
  \o Each("copy", binaries)
  \o Runs("snapshot") \o Runs("daemon-reload") \o Runs("enable")

UninstallAlwaysPurges(purge) ==       \* mutant: the data goes each time
  Runs("disable") \o Each("remove", {"service"}) \o Runs("daemon-reload")
  \o Each("remove", Binaries) \o Each("remove", DataDirs)

UninstallPlan(purge) ==
  Runs("disable") \o Each("remove", {"service"}) \o Runs("daemon-reload")
  \o Each("remove", Binaries)
  \o (IF purge THEN Each("remove", DataDirs) ELSE <<>>)

\* ApplyLab..., past validateApplyGuard: commands run when asked for, and always on the host.
\* StageLabInstall skips them.  The configuration that is to be copied has been loaded.
BeginOp(o) ==
  /\ op = NoOp /\ op' = o
  /\ o.kind # "uninstall" /\ o.from = "installed" => disk[Host]["config"] = "whole"
  /\ todo' = IF o.kind = "uninstall" THEN UninstallPlan(o.purge) ELSE InstallPlan(o.binaries)
  /\ UNCHANGED <<disk, active>>

RunsSteps == op.kind # "stage" /\ (op.run \/ op.where = Host)

Doing(do) == todo # <<>> /\ Head(todo).do = do
Done == todo' = Tail(todo) /\ UNCHANGED op
Gives(where, target, what) == disk' = [disk EXCEPT ![where][target] = what]

\* The first step that fails ends the operation, as does an interruption.
Fail ==
  /\ op # NoOp /\ op' = NoOp /\ todo' = <<>>
  /\ UNCHANGED <<disk, active>>

\* Commands act on the host, under an install root too: the agent's dry run puts its
\* snapshot of the firewall into the host's state directory.
RunCommand ==
  /\ Doing("run") /\ Done
  /\ active' = IF ~RunsSteps THEN active
               ELSE CASE Head(todo).target = "enable" -> TRUE
                      [] Head(todo).target = "disable" -> FALSE
                      [] OTHER -> active
  /\ \/ UNCHANGED disk
     \/ RunsSteps /\ Head(todo).target = "snapshot" /\ Gives(Host, "state dir", "whole")

Mkdir ==
  /\ Doing("mkdir") /\ Done
  /\ Gives(op.where, Head(todo).target, "whole")
  /\ UNCHANGED active

\* copyToTarget, copyToRoot: the binary of a service that runs cannot be opened for writing.
Busy(target) == target = Agent /\ op.where = Host /\ active

CopyOpen ==
  /\ Doing("copy") /\ ~Busy(Head(todo).target)
  /\ todo' = <<[Head(todo) EXCEPT !.do = "copying"]>> \o Tail(todo)
  /\ Gives(op.where, Head(todo).target, "torn")
  /\ UNCHANGED <<op, active>>

\* The default source of the configuration is the target itself on the host: opening it has
\* emptied it, and nothing is left to copy.
CopiedOntoItself(o, target) ==
  target = "config" /\ o.kind = "install" /\ o.where = Host /\ o.from = "installed"

CopyIgnoresError ==               \* mutant: a copy that fails half-way is taken for a copy
  /\ Doing("copying") /\ Done
  /\ \E got \in {"torn", "whole"} : Gives(op.where, Head(todo).target, got)
  /\ UNCHANGED active

CopyData ==
  /\ Doing("copying") /\ Done
  /\ Gives(op.where, Head(todo).target,
           IF CopiedOntoItself(op, Head(todo).target) THEN "torn" ELSE "whole")
  /\ UNCHANGED active

\* RemoveAll; the configuration lies in a directory that purging removes.
Inside(target) == IF target = "config dir" THEN {"config dir", "config"} ELSE {target}

RemoveTarget ==
  /\ Doing("remove") /\ Done
  /\ disk' = [disk EXCEPT ![op.where] =
                [t \in Targets |-> IF t \in Inside(Head(todo).target) THEN "none" ELSE @[t]]]
  /\ UNCHANGED active

\* After its last step; the manifest that lists what was done is left out.
FinishOp ==
  /\ op # NoOp /\ todo = <<>>
  /\ op' = NoOp
  /\ UNCHANGED <<todo, disk, active>>

InstallerNext ==
  \/ \E o \in Operation : BeginOp(o)
  \/ RunCommand \/ Mkdir \/ CopyOpen \/ CopyData \/ RemoveTarget \/ Fail \/ FinishOp

InstallerSpec == InstallerInit /\ [][InstallerNext]_installVars

-----------------------------------------------------------------------------
\* "config, license, state, and logs are kept; pass purge when a destructive removal is
\* intended" (installer.go:248), whatever fails in between: where they are whole they stay
\* so, but for an uninstallation there that purges, and for a configuration that an
\* installation there replaces.  An operation under an install root that is not told to run
\* its commands changes nothing of the host.
Destroys(o, t) ==
  \/ o.kind = "uninstall" /\ o.purge
  \/ o.kind \in {"install", "stage"} /\ t = "config"

KeptUnlessPurged ==
  [][/\ \A w \in {Host, Lab}, t \in DataDirs \cup {"config"} :
          disk[w][t] = "whole" /\ disk'[w][t] # "whole" => op.where = w /\ Destroys(op, t)
     /\ op # NoOp /\ op.where = Lab /\ ~RunsSteps =>
          disk'[Host] = disk[Host] /\ active' = active]_installVars

\* An installation that comes to the end of its plan leaves every file of the plan whole in
\* its place, whatever was torn there by those that failed before it; but for the
\* configuration that is copied onto itself, which is the default on the host (main.go:209)
\* and leaves it empty (installer.go:530-540).
SuccessIsWhole ==
  op.kind \in {"install", "stage"} /\ todo = <<>> =>
    \A t \in FilesOf(op.binaries) :
      disk[op.where][t] = "whole" \/ CopiedOntoItself(op, t)
===================================================================================
