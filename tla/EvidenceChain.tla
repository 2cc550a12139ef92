---------------------------- MODULE EvidenceChain ----------------------------
(***************************************************************************)
(* The chain of evidence of the P3B campaign as one system: the operator   *)
(* runs the packagers one after another, any of them may be killed between *)
(* two steps, inputs are edited at any time (also under a running          *)
(* packager), large packages come and go with a fresh checkout, and the    *)
(* status is amended by hand, as the committed one was.                    *)
(***************************************************************************)
EXTENDS LoadEvidence

CONSTANTS
  Inputs,     \* the committed inputs: path |-> content
  Edits,      \* what an edit may change: a set of path |-> content
  MaxEdits,   \* bound: edits
  MaxRuns,    \* bound: invocations of a packager
  MaxCrashes  \* bound: packagers killed

ASSUME ChainAssumption == {MaxEdits, MaxRuns, MaxCrashes} \subseteq Nat

(* An edit changes inputs only, and leaves every document a content.        *)
ASSUME InputsAssumption ==
  /\ DOMAIN Inputs = {"build", "elf", "program", "compare", "capture", "recorded", "tool",
                      "reconciler", "git", "hotplug_artifact", "anchor", "runs", "documents"}
  /\ \A files \in Edits \cup {Inputs} :
       /\ DOMAIN files \subseteq DOMAIN Inputs
       /\ "documents" \in DOMAIN files => files.documents \in [Documents -> STRING]

(* The committed inputs are those that the validators pin and the packagers *)
(* take.                                                                    *)
ASSUME CommittedAssumption ==
  /\ Inputs.build.sound /\ Inputs.build.elf = Inputs.elf /\ Inputs.program.target = KnownTarget
  /\ TranscriptsAgree(Inputs.program, Inputs.compare, Inputs.build, Inputs.elf)
  /\ Inputs.git.dirty /\ Inputs.capture.paused /\ Inputs.capture.failed /\ ~Inputs.capture.data.drops
  /\ PartialReconciliation(Inputs.recorded) /\ Inputs.recorded = reconcile(Inputs.capture.data)
  /\ {Inputs.tool, Inputs.anchor} = {PinnedTool} /\ Inputs.runs = PinnedRuns
  /\ CompletedPhysical(Inputs.hotplug_artifact) /\ Inputs.hotplug_artifact.cycles = 1
  /\ \A name \in Documents : Inputs.documents[name] = "good"

VARIABLES
  edits,    \* how many edits there were, of inputs or of the index
  touched,  \* an edit of inputs since the last packager was started
  runs,     \* how many packagers were started
  crashes   \* how many were killed

vars == <<disk, pc, mem, edits, touched, runs, crashes>>
counters == <<edits, touched, runs, crashes>>

Paths == DOMAIN Inputs \cup firmware_outputs \cup backpressure_outputs
           \cup {"packages", "status", "index"}
-----------------------------------------------------------------------------
(* The committed documents, which all validators accept.                    *)
CommittedFirmware ==
  [fields |-> Inputs.build, build |-> Inputs.build, elf |-> Inputs.elf,
   package |-> FirmwareMembers(Inputs.build, Inputs.build, Inputs.elf),
   target |-> Inputs.program.target, program |-> Inputs.program, compare |-> Inputs.compare,
   sections |-> Inputs.compare.ok]

CommittedBackpressure ==
  [capture |-> Inputs.capture, recorded |-> Inputs.recorded, git |-> Inputs.git,
   tool |-> Inputs.tool, reconciler |-> Inputs.reconciler, firmware |-> CommittedFirmware]

CommittedHotplug == [record |-> Inputs.hotplug_artifact, source |-> Inputs.hotplug_artifact]

CommittedPackages ==
  [kind \in Kinds |->
     LET run == Inputs.runs[kind]
     IN [manifest |-> [frames |-> analyze_frames(run.frames), summary |-> run.summary,
                       firmware |-> CommittedFirmware],
         summary |-> run.summary, frames |-> run.frames,
         capture |-> IF kind = "qualified"
                       THEN [anchor |-> Inputs.anchor, tool |-> Inputs.tool,
                             attestation |-> Inputs.documents.attestation]
                       ELSE NoFile]]

CommittedStatus ==
  [firmware |-> CommittedFirmware, documents |-> Inputs.documents, texts |-> AmendedTexts,
   backpressure |-> [package |-> CommittedBackpressure, manifest |-> CommittedBackpressure],
   hotplug |-> CommittedHotplug,
   runs |-> [kind \in Kinds |-> [package |-> CommittedPackages[kind],
                                 manifest |-> CommittedPackages[kind].manifest]]]

CommittedIndex ==
  [i \in 1..4 |->
     IF i \in DOMAIN RunOrder
       THEN [path |-> RunOrder[i], package |-> CommittedPackages[RunOrder[i]]]
       ELSE [path |-> "backpressure_package", package |-> CommittedBackpressure]]

Init ==
  /\ disk = Overlay(
       [firmware_package |-> CommittedFirmware.package,
        firmware_evidence |-> CommittedFirmware,
        backpressure_package |-> CommittedBackpressure,
        backpressure_evidence |-> CommittedStatus.backpressure,
        hotplug_evidence |-> CommittedHotplug,
        packages |-> CommittedPackages,
        status |-> CommittedStatus,
        index |-> CommittedIndex],
       Inputs)
  /\ pc = "none" /\ mem = [name \in {} |-> NoFile]
  /\ edits = 0 /\ touched = FALSE /\ runs = 0 /\ crashes = 0
-----------------------------------------------------------------------------
(* External: what the people, compilers and instruments around it do.       *)
Start(program) ==
  /\ pc \in Ended /\ runs < MaxRuns
  /\ runs' = runs + 1 /\ touched' = FALSE
  /\ Go(program) /\ mem' = [name \in {} |-> NoFile]
  /\ UNCHANGED <<disk, edits, crashes>>

Crash ==
  /\ pc \notin Ended /\ crashes < MaxCrashes
  /\ crashes' = crashes + 1 /\ Go("crashed") /\ mem' = [name \in {} |-> NoFile]
  /\ UNCHANGED <<disk, edits, touched, runs>>

(* A file changes, also under a packager; a capture is made by a session    *)
(* on the bench, between two of them.                                       *)
Edit(files) ==
  /\ edits < MaxEdits
  /\ pc \in Ended \/ "capture" \notin DOMAIN files
  /\ disk' = Overlay(files, disk) /\ disk' # disk
  /\ edits' = edits + 1 /\ touched' = TRUE
  /\ UNCHANGED <<pc, mem, runs, crashes>>

(* The status gains the references the packager leaves out ...              *)
AmendDocuments ==
  /\ pc \in Ended /\ Exists("status")
  /\ disk' = [disk EXCEPT !.status.documents =
                Overlay([name \in AmendedDocuments |-> disk.documents[name]], @)]
  /\ UNCHANGED <<pc, mem, counters>>

(* ... and its texts are brought up to date.                                *)
AmendTexts ==
  /\ pc \in Ended /\ Exists("status")
  /\ disk' = [disk EXCEPT !.status.texts = AmendedTexts]
  /\ UNCHANGED <<pc, mem, counters>>

Amend == AmendDocuments \/ AmendTexts

(* A fresh checkout has no staged packages; the index is under Git.         *)
Checkout ==
  /\ pc \in Ended
  /\ disk' = [disk EXCEPT !.packages = [kind \in Kinds |-> NoFile],
                          !.backpressure_package = NoFile]
  /\ UNCHANGED <<pc, mem, counters>>

(* The index takes the record of a staged package in place of the record it *)
(* had ...                                                                  *)
Archive(path, package) ==
  /\ \E i \in DOMAIN disk.index :
       /\ disk.index[i].path = path
       /\ disk' = [disk EXCEPT !.index[i].package = package]
  /\ UNCHANGED counters

(* ... or, by a slip of the editor's, beside it.                            *)
ArchiveBeside(path, package) ==
  /\ edits < MaxEdits
  /\ disk' = [disk EXCEPT !.index = Append(@, [path |-> path, package |-> package])]
  /\ edits' = edits + 1
  /\ UNCHANGED <<touched, runs, crashes>>

Staged ==
  [path \in {"backpressure_package"} \cup Kinds |->
     IF path \in Kinds THEN disk.packages[path] ELSE disk.backpressure_package]

ArchiveAny ==
  /\ pc \in Ended
  /\ \E path \in DOMAIN Staged :
       /\ Staged[path] # NoFile
       /\ Archive(path, Staged[path]) \/ ArchiveBeside(path, Staged[path])
  /\ UNCHANGED <<pc, mem>>

Packager == (FirmwarePackager \/ BackpressurePackager \/ LoadPackager) /\ UNCHANGED counters

Next ==
  \/ \E program \in {"firmware_start", "backpressure_start", "load_start"} : Start(program)
  \/ Packager \/ Crash \/ Amend \/ Checkout \/ ArchiveAny
  \/ \E files \in Edits : Edit(files)

Spec == Init /\ [][Next]_vars
-----------------------------------------------------------------------------
(* The evidence of the load campaign is what its reader takes it for: the   *)
(* qualified run's frames have no channel gap, by the reference and not by  *)
(* its summary, the physical hot-plug passed in exactly one cycle, and the  *)
(* runs name the firmware of the firmware evidence (which the validator     *)
(* does not compare).                                                       *)
GapFree(frames) ==
  \A i \in 1..Len(frames) - 1 : Distance(frames[i], frames[i + 1]) = 1

LoadSound ==
  /\ disk.packages["qualified"] # NoFile =>
       GapFree(disk.packages["qualified"].frames) /\ disk.packages["qualified"].summary.gaps = 0
  /\ disk.hotplug_evidence.record.physical /\ disk.hotplug_evidence.record.cycles = 1
  /\ \A kind \in Kinds : disk.packages[kind] # NoFile =>
       disk.packages[kind].manifest.firmware = disk.firmware_evidence

(* However the packagers, crashes and edits interleave, a document that its *)
(* validator accepts says something true: validate in the three scripts.    *)
AcceptedSound ==
  /\ FirmwareAccepted => FirmwareSound
  /\ BackpressureAccepted => BackpressureSound
  /\ LoadAccepted => LoadSound

(* A packager that finished on inputs nobody edited meanwhile wrote what    *)
(* the validator accepts.  The premises are what only the validator checks: *)
(* the probe's serial and the device, the dirty tree, the failed zero-loss  *)
(* acceptance and the replay; and, for the status, the references and texts *)
(* amended by hand.                                                         *)
PackagedIsAccepted ==
  ~touched =>
    /\ pc = "firmware_done" /\ disk.program.target = KnownTarget => FirmwareAccepted
    /\ /\ pc = "backpressure_done"
       /\ disk.git.dirty /\ disk.capture.failed /\ disk.recorded = reconcile(disk.capture.data)
       => BackpressureAccepted \/ ~Exists("backpressure_package")
    /\ /\ pc = "load_done" /\ AmendedDocuments \subseteq DOMAIN disk.status.documents
       /\ AmendedTexts \subseteq disk.status.texts
       /\ FirmwareAccepted /\ BackpressureAccepted /\ HotplugBound(disk.status)
       /\ disk.tool = PinnedTool /\ disk.runs = PinnedRuns
       /\ \A name \in Documents : disk.documents[name] = "good"
       => LoadAccepted \/ \E kind \in Kinds : disk.packages[kind] = NoFile

(* Packaging is reproducible and a crash harmless: while no input was       *)
(* edited, running the packagers again, killed anywhere, leaves every       *)
(* committed document accepted (write_package fixes the time of members).   *)
RerunReproduces ==
  edits = 0 =>
    /\ FirmwareAccepted /\ BackpressureAccepted
    /\ disk.status = CommittedStatus => LoadAccepted

(* The reconciliation is exact: it passes the EVENT domain if and only if   *)
(* the reference does, so neither is a lost EVENT overlooked nor an honest  *)
(* capture refused (observed_missing_ranges, declared_loss_ranges).         *)
ReconcileExact ==
  LET data == disk.capture.data
      result == reconcile(data)
  IN /\ result.event <=> Exact(data)
     /\ Exact(data) /\ ~Wraps(data) => (result.recovery <=> Recovered(data))

(* No step changes a file that an accepted status covers and leaves the     *)
(* same status accepted.                                                    *)
Covered ==
  <<disk.firmware_package, disk.firmware_evidence, disk.program, disk.compare,
    disk.backpressure_evidence, disk.hotplug_evidence, disk.documents>>

SamePackages ==
  /\ \A kind \in Kinds : NoFile \in {disk.packages[kind], disk.packages'[kind]}
                           \/ disk.packages[kind] = disk.packages'[kind]
  /\ NoFile \in {disk.backpressure_package, disk.backpressure_package'}
       \/ disk.backpressure_package = disk.backpressure_package'

StatusCovers ==
  [][disk.status' = disk.status /\ ~(Covered' = Covered /\ SamePackages)
       => ~LoadAccepted' \/ ~LoadAccepted]_vars
=============================================================================
