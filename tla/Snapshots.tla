-------------------------------- MODULE Snapshots --------------------------------
(***************************************************************************)
(* The snapshots of the node's state on disk (monitor/snapshot.go): captured  *)
(* each minute, cut until they fit, written to a temporary file that takes    *)
(* the place of the last one.  A snapshot is how many entries of each kind it  *)
(* has; a cut drops the oldest half of one kind.  Nothing reads it back.      *)
(***************************************************************************)
EXTENDS Integers

CONSTANTS MaxEntries,      \* bound: entries of a kind
          SnapshotMaxSize, Overhead   \* sizes, in entries

ASSUME SnapshotAssumption == {MaxEntries, SnapshotMaxSize, Overhead} \subseteq Nat

VARIABLES snStep,          \* what the writer does next
          snapshot,        \* the one it has at hand, and the kinds that it had to cut
          tmpFile, snFile, \* state.snapshot.gz.tmp and state.snapshot.gz
          lastSnapshot     \* a snapshot was written since the start

snapshotVars == <<snStep, snapshot, tmpFile, snFile, lastSnapshot>>

EntryKinds == {"rate", "sessions", "bans"}
Snapshot == [n : [EntryKinds -> 0..MaxEntries], cut : SUBSET EntryKinds]
NoFile == [n |-> [k \in EntryKinds |-> 0], cut |-> {"none"}]
TornFile == [n |-> [k \in EntryKinds |-> 0], cut |-> {"torn"}]
Files == Snapshot \cup {NoFile, TornFile}

SnapshotTypeOK ==
  /\ snStep \in {"wait", "fit", "write", "rename"}
  /\ snapshot \in Snapshot
  /\ tmpFile \in Files /\ snFile \in Files
  /\ lastSnapshot \in BOOLEAN

Empty == [n |-> [k \in EntryKinds |-> 0], cut |-> {}]

SnapshotInit ==
  /\ snStep = "wait" /\ snapshot = Empty
  /\ tmpFile = NoFile /\ snFile = NoFile
  /\ lastSnapshot = FALSE

Size(s) == Overhead + s.n["rate"] + s.n["sessions"] + s.n["bans"]
SnGoes(from, to) == snStep = from /\ snStep' = to
SnEnds(from) == SnGoes(from, "wait") /\ snapshot' = Empty

-----------------------------------------------------------------------------
\* stateProvider, each SnapshotInterval.
Capture ==
  /\ SnGoes("wait", "fit")
  /\ \E n \in [EntryKinds -> 0..MaxEntries] : snapshot' = [n |-> n, cut |-> {}]
  /\ UNCHANGED <<tmpFile, snFile, lastSnapshot>>

\* truncateSnapshot halves the first kind, in this order, that has entries left.
HasNone(s, kinds) == \A k \in kinds : s.n[k] = 0
CutBansFirst(s) ==      \* mutant: bans are dropped before sessions
  CHOOSE k \in EntryKinds :
    /\ s.n[k] > 0
    /\ k = "sessions" => HasNone(s, {"rate", "bans"})
    /\ k = "bans" => HasNone(s, {"rate"})

NextToCut(s) ==
  CHOOSE k \in EntryKinds :
    /\ s.n[k] > 0
    /\ k = "sessions" => HasNone(s, {"rate"})
    /\ k = "bans" => HasNone(s, {"rate", "sessions"})

\* The newest half stays; one entry alone goes.
NewestHalf(n) == IF n <= 1 THEN 0 ELSE n - n \div 2

Fit ==
  /\ IF Size(snapshot) <= SnapshotMaxSize THEN SnGoes("fit", "write") /\ UNCHANGED snapshot
     ELSE IF HasNone(snapshot, EntryKinds) THEN SnEnds("fit")
     ELSE /\ SnGoes("fit", "fit")
          /\ LET k == NextToCut(snapshot)
             IN  snapshot' = [n |-> [snapshot.n EXCEPT ![k] = NewestHalf(@)],
                              cut |-> snapshot.cut \cup {k}]
  /\ UNCHANGED <<tmpFile, snFile, lastSnapshot>>

\* writeFile: the temporary file first, which may end torn ...
WriteTmp ==
  /\ \/ SnGoes("write", "rename") /\ tmpFile' = snapshot /\ UNCHANGED snapshot
     \/ SnEnds("write") /\ tmpFile' \in {tmpFile, TornFile}
  /\ UNCHANGED <<snFile, lastSnapshot>>

\* ... and then its name.
RenameTmp ==
  /\ SnEnds("rename")
  /\ tmpFile' = NoFile
  /\ \/ snFile' = tmpFile /\ lastSnapshot' = TRUE
     \/ UNCHANGED <<snFile, lastSnapshot>>

\* The process ends anywhere, also in the middle of the write.
SnCrash ==
  /\ snStep' = "wait" /\ snapshot' = Empty /\ lastSnapshot' = FALSE
  /\ tmpFile' \in IF snStep = "write" THEN {tmpFile, TornFile} ELSE {tmpFile}
  /\ UNCHANGED snFile

SnapshotNext == Capture \/ Fit \/ WriteTmp \/ RenameTmp \/ SnCrash

SnapshotSpec == SnapshotInit /\ [][SnapshotNext]_snapshotVars

-----------------------------------------------------------------------------
\* The snapshot on disk is whole and fits, whatever failed and wherever the process ended,
\* and it has lost a ban only if no session and no rate-limit entry is left in it.
BansLeaveLast ==
  \/ snFile = NoFile /\ ~lastSnapshot
  \/ /\ snFile \in Snapshot /\ Size(snFile) <= SnapshotMaxSize
     /\ "bans" \in snFile.cut => HasNone(snFile, {"rate", "sessions"})
===================================================================================
