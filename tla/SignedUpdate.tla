------------------------------- MODULE SignedUpdate -------------------------------
(***************************************************************************)
(* A signed release and the way it takes to a directory of the node         *)
(* (shared/update: manifest.go, download.go, version.go): the manifest is    *)
(* downloaded, then its artifacts one after the other, each through a         *)
(* temporary file that is renamed; then the manifest is verified and each     *)
(* artifact compared with its checksum.  What a URL answers may change        *)
(* between any two downloads.  Nothing under cmd/ calls this package yet: the *)
(* order of the calls is that of its tests.  A content stands for itself and  *)
(* for its SHA-256, however normalizeSHA256 finds that written; a signature is *)
(* the value it was made for.                                                 *)
(***************************************************************************)
EXTENDS Integers, Sequences

CONSTANTS Contents,        \* what an artifact may hold
          Drafts,          \* payloads a publisher may write, valid or not
          Edited,          \* manifests changed after they were signed
          Policies,        \* VerifyOptions; of CurrentVersion, whether it is given
          OldVersion,      \* of the node before the first update
          Missing, CutOff     \* no such file, no text; a file cut off while it was copied

\* A manifest that was changed does not carry a signature of what it says now: only the
\* publisher has the key.  Versions are numbers, lists are lists.
ASSUME SignedUpdateAssumption ==
  /\ {Missing, CutOff} \cap Contents = {}
  /\ \A p \in Policies : p.AllowDowngrade \in BOOLEAN /\ p.CurrentVersion \in BOOLEAN
  /\ \A f \in Edited : f.signature # f.payload
  /\ OldVersion.numbers \in Seq(Nat)
  /\ \A p \in Drafts :
       /\ p.version # Missing => p.version.numbers \in Seq(Nat)
       /\ p.artifacts \in Seq({p.artifacts[i] : i \in DOMAIN p.artifacts})
  /\ \A f \in Edited :
       f.payload.artifacts \in Seq({f.payload.artifacts[i] : i \in DOMAIN f.payload.artifacts})

ManifestPath == "manifest.json"

-----------------------------------------------------------------------------
\* A version is its numbers and a suffix such as "-rc1", which versionParts drops.
versionParts(version) == version.numbers

Part(numbers, i) == IF i <= Len(numbers) THEN numbers[i] ELSE 0
\* compareDottedVersion(a, b) < 0: missing parts count as 0.
OlderVersion(a, b) ==
  LET x == versionParts(a)
      y == versionParts(b)
  IN  \E i \in 1..(Len(x) + Len(y)) :
        /\ Part(x, i) < Part(y, i)
        /\ \A j \in 1..(i - 1) : Part(x, j) = Part(y, j)

\* Names and URLs are sequences of parts; the file is called by its last part.
safeDownloadName(name) == IF name = <<>> THEN "artifact.bin" ELSE name[Len(name)]
DownloadName(a) == safeDownloadName(IF a.name # Missing THEN a.name ELSE a.url)

validateArtifact(a) == a.name # Missing /\ a.url # Missing /\ a.sha256 # Missing

\* Release notes are there or not, and complete or not; so are dates and policy bundle.
ValidateReleaseInfo(release) == release = "complete"

ValidatePayload(p) ==
  /\ p.product # Missing /\ p.version # Missing /\ p.channel # Missing
  /\ p.wellFormed /\ p.keep >= 0
  /\ \A i \in DOMAIN p.artifacts : validateArtifact(p.artifacts[i])
  /\ p.release # "none" => ValidateReleaseInfo(p.release)

canonicalArtifactSignaturePayload(a) == [name |-> a.name, sha256 |-> a.sha256]

\* SignManifest and SignArtifact refuse what would not pass validation.
SignManifest(p) == [payload |-> p, signature |-> p]
SignedManifests == {SignManifest(p) : p \in {q \in Drafts : ValidatePayload(q)}}
ManifestFiles == SignedManifests \cup Edited

\* No file is the absence of one.
ASSUME FilesAssumption == Missing \notin ManifestFiles \cup Contents \cup {CutOff}

VerifyArtifactSignature(a) == a.signature = canonicalArtifactSignaturePayload(a)
verifyManifestSignature(file) == file.signature = file.payload

\* Without a CurrentVersion there is nothing to compare with.
MayDowngrade(opts) == opts.AllowDowngrade \/ ~opts.CurrentVersion

VerifyUnsigned(file, opts, current) ==    \* mutant: the signature is not looked at
  ValidatePayload(file.payload)

\* Verify: payload, signature, product, channel, what the options ask for, signatures of
\* artifacts where there is one, and no downgrade unless it is allowed.
Verify(file, opts, current) ==
  LET p == file.payload
  IN  /\ ValidatePayload(p)
      /\ verifyManifestSignature(file)
      /\ opts.Product # Missing => p.product = opts.Product
      /\ opts.Channel # Missing => p.channel = opts.Channel
      /\ opts.RequireRollback => p.rollback
      /\ opts.RequireArtifacts => p.artifacts # <<>>
      /\ opts.RequireReleaseMetadata => ValidateReleaseInfo(p.release)
      /\ \A i \in DOMAIN p.artifacts :
           /\ opts.RequireArtifactSignature => p.artifacts[i].signature # Missing
           /\ p.artifacts[i].signature # Missing => VerifyArtifactSignature(p.artifacts[i])
      /\ MayDowngrade(opts) \/ ~OlderVersion(p.version, current)

-----------------------------------------------------------------------------
VARIABLES outputDir,       \* OutputDir: file by path
          policy,          \* the options in force
          currentVersion,  \* what the node runs
          fetchAt,         \* "idle", "download", "rename", "verify", "compare", "accepted"
          manifest,        \* the manifest that was read last
          item,            \* 0 for the manifest, i for its i-th artifact
          temp             \* the temporary file of the download under way

signedVars == <<outputDir, policy, currentVersion, fetchAt, manifest, item, temp>>

Artifacts == manifest.payload.artifacts
PathOf(i) == IF i = 0 THEN ManifestPath ELSE DownloadName(Artifacts[i])
DownloadPaths ==
  {ManifestPath} \cup
  UNION {{DownloadName(f.payload.artifacts[i]) : i \in DOMAIN f.payload.artifacts}
           : f \in ManifestFiles}

SignedUpdateTypeOK ==
  /\ outputDir \in [DownloadPaths -> ManifestFiles \cup Contents \cup {Missing, CutOff}]
  /\ policy \in Policies
  /\ currentVersion \in {OldVersion} \cup {p.version : p \in Drafts}
  /\ fetchAt \in {"idle", "download", "rename", "verify", "compare", "accepted"}
  /\ manifest \in ManifestFiles \cup {Missing}
  /\ item \in 0..(IF manifest = Missing THEN 0 ELSE Len(Artifacts) + 1)
  /\ temp \in ManifestFiles \cup Contents \cup {Missing, CutOff}
  /\ temp # Missing <=> fetchAt = "rename"

SignedUpdateInit ==
  /\ outputDir = [f \in DownloadPaths |-> Missing]
  /\ policy \in Policies
  /\ currentVersion = OldVersion
  /\ fetchAt = "idle" /\ manifest = Missing /\ item = 0 /\ temp = Missing

\* FetchManifestAndArtifacts begins; what an earlier one left stays in the directory.
FetchManifest ==
  /\ fetchAt \in {"idle", "accepted"} /\ fetchAt' = "download"
  /\ item' = 0 /\ manifest' = Missing
  /\ UNCHANGED <<outputDir, policy, currentVersion, temp>>

\* copyURL: the answer goes to a temporary file.  A local file may be read while somebody
\* writes it; an answer over the network that is cut off is an error.
CopyURL(answer) ==
  /\ fetchAt = "download"
  /\ answer \in (IF item = 0 THEN ManifestFiles ELSE Contents) \cup {CutOff}
  /\ item > 0 => Artifacts[item].url # Missing
  /\ temp' = answer /\ fetchAt' = "rename"
  /\ UNCHANGED <<outputDir, policy, currentVersion, manifest, item>>

\* A status, a transport, a timeout, a blank URL, a file operation: the fetch ends, what it
\* has renamed so far stays.  A crash does the same, and leaves a temporary file.
GiveUp ==
  /\ fetchAt \notin {"idle", "accepted"} /\ fetchAt' = "idle"
  /\ temp' = Missing
  /\ UNCHANGED <<outputDir, policy, currentVersion, manifest, item>>

AfterItem(i, file) ==
  IF i < Len(file.payload.artifacts) THEN fetchAt' = "download" /\ item' = i + 1
                                     ELSE fetchAt' = "verify" /\ item' = 0

\* The rename; the manifest is read back from the directory, and has to parse.
RenameTemp ==
  /\ fetchAt = "rename"
  /\ outputDir' = [outputDir EXCEPT ![PathOf(item)] = temp]
  /\ \/ item = 0 /\ temp \in ManifestFiles /\ manifest' = temp /\ AfterItem(0, temp)
     \/ item = 0 /\ temp = CutOff /\ fetchAt' = "idle" /\ UNCHANGED <<manifest, item>>
     \/ item > 0 /\ AfterItem(item, manifest) /\ UNCHANGED manifest
  /\ temp' = Missing
  /\ UNCHANGED <<policy, currentVersion>>

\* VerifyFile reads the manifest again: an artifact of that name has replaced it.
VerifyFile ==
  /\ fetchAt = "verify"
  /\ IF /\ outputDir[ManifestPath] \in ManifestFiles
        /\ Verify(outputDir[ManifestPath], policy, currentVersion)
     THEN fetchAt' = "compare" /\ item' = 1 /\ manifest' = outputDir[ManifestPath]
     ELSE fetchAt' = "idle" /\ UNCHANGED <<item, manifest>>
  /\ UNCHANGED <<outputDir, policy, currentVersion, temp>>

CompareFirst ==            \* mutant: what follows the first artifact is not compared
  /\ fetchAt = "compare" /\ item' = Len(Artifacts) + 1
  /\ Artifacts # <<>> => outputDir[PathOf(1)] = Artifacts[1].sha256
  /\ UNCHANGED <<outputDir, policy, currentVersion, fetchAt, manifest, temp>>

\* VerifyArtifactFile: a file that is missing, cut off or of another content is refused.
VerifyArtifactFile ==
  /\ fetchAt = "compare" /\ item <= Len(Artifacts)
  /\ IF outputDir[PathOf(item)] = Artifacts[item].sha256
     THEN item' = item + 1 /\ UNCHANGED fetchAt
     ELSE fetchAt' = "idle" /\ UNCHANGED item
  /\ UNCHANGED <<outputDir, policy, currentVersion, manifest, temp>>

\* All were the same: the caller takes the files for an update.
Accept ==
  /\ fetchAt = "compare" /\ item > Len(Artifacts) /\ fetchAt' = "accepted"
  /\ currentVersion' = manifest.payload.version
  /\ UNCHANGED <<outputDir, policy, manifest, item, temp>>

SignedUpdateNext ==
  \/ FetchManifest \/ GiveUp \/ RenameTemp \/ VerifyFile \/ VerifyArtifactFile \/ Accept
  \/ \E answer \in ManifestFiles \cup Contents \cup {CutOff} : CopyURL(answer)

SignedUpdateSpec == SignedUpdateInit /\ [][SignedUpdateNext]_signedVars

-----------------------------------------------------------------------------
\* Whatever mixture of answers, failures and earlier downloads has filled the directory:
\* when an update is accepted, the directory holds one manifest as its publisher signed
\* it, and under the name of each of its artifacts the content that was signed for that
\* one, all at the same time, also where two names end in the same file; and a node that
\* gives its version and forbids downgrades never ends below where it began.
AcceptedAsSigned ==
  /\ fetchAt = "accepted" =>
       /\ manifest \in SignedManifests /\ outputDir[ManifestPath] = manifest
       /\ \A i \in DOMAIN Artifacts : outputDir[PathOf(i)] = Artifacts[i].sha256
  /\ MayDowngrade(policy) \/ ~OlderVersion(currentVersion, OldVersion)

=================================================================================
