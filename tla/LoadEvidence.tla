---------------------------- MODULE LoadEvidence ----------------------------
(***************************************************************************)
(* The status of the 1 Mbit/s CAN load campaign, which ties the chain      *)
(* together: package_p3b_load_evidence.py packs three frozen runs and      *)
(* writes the status, validate_p3b_load_evidence.py accepts it together    *)
(* with every document it hashes.  External inputs:                        *)
(*                                                                         *)
(*   runs       kind |-> the run directory: frames, the channel sequences  *)
(*              of frames.csv, and summary (summary.json, diagnostics.csv) *)
(*   anchor     the capture-tool anchor: the tool it vouches for           *)
(*   documents  name |-> the operator attestation, preflight, analyzer and *)
(*              bus-off documents: "good" if their own validators accept   *)
(*   packages   kind |-> the zip at its staging path                       *)
(***************************************************************************)
EXTENDS FirmwareEvidence, BackpressureEvidence
LOCAL INSTANCE SequencesExt

CONSTANTS
  PinnedRuns,  \* EXPECTED_RUN_SOURCE_HASHES: kind |-> the run
  PinnedTool   \* the capture tool of EXPECTED_CAPTURE_ANCHOR_SHA256

Kinds == {"initial_failure", "qualified", "diagnostic"}

RunOrder == <<"initial_failure", "qualified", "diagnostic">>

(* The packager references the bus-off blocker too, but under another key   *)
(* than the one the validator reads.                                        *)
PackagedDocuments == {"preflight", "attestation", "analyzer"}
AmendedDocuments == {"blocker", "readiness", "attempt"}
Documents == PackagedDocuments \cup AmendedDocuments

(* Texts of the status that the packager writes as they were before the     *)
(* bus-off attempt, and the validator accepts only as they were after it:   *)
(* the reason of the frozen profile, the sixth completed item and the       *)
(* limitation at TEC 128.  All the other texts agree in the two scripts.    *)
AmendedTexts == {"blocked_reason", "completed", "limitations"}
-----------------------------------------------------------------------------
(* One pass over frames.csv: its digest, rows and channel gaps.             *)
analyze_frames(frames) ==
  [sha |-> frames, rows |-> Len(frames),
   gaps |-> Cardinality({i \in 1..Len(frames) - 1 :
                           frames[i] # 0 /\ frames[i + 1] # next_nonzero(frames[i])})]

LoadInputs ==
  /\ At("load_start")
  /\ Remember([firmware |-> disk.firmware_evidence, anchor |-> disk.anchor,
               manifests |-> [kind \in {} |-> NoFile], next |-> 1])
  /\ Require(/\ \A path \in {"firmware_evidence", "backpressure_evidence", "hotplug_evidence"} :
                    Exists(path)
             /\ disk.anchor = disk.tool, "load_run")
  /\ UNCHANGED disk

Kind == RunOrder[mem.next]

(* load_run and the checks of the kind of run.                              *)
LoadRun(run, frames) ==
  frames.rows > 0 /\ frames.rows = run.summary.frames /\ frames.gaps = run.summary.gaps

validate_failed_long_run(summary) == summary.gaps > 0 /\ summary.loss /\ summary.rate = "full"

validate_qualified_long_run(summary) ==
  summary.gaps = 0 /\ ~summary.loss /\ summary.rate = "full" /\ summary.traffic = "whole"

validate_diagnostic_run(summary) == summary.gaps = 0 /\ ~summary.loss /\ summary.rate = "burst"

ValidRun(kind, summary) ==
  CASE kind = "initial_failure" -> validate_failed_long_run(summary)
    [] kind = "qualified" -> validate_qualified_long_run(summary)
    [] kind = "diagnostic" -> validate_diagnostic_run(summary)

(* The pinned runs are the three that the validator describes: their frames *)
(* carry sequences, and the summaries count them.                           *)
ASSUME PinnedAssumption ==
  /\ PinnedRuns \in [Kinds -> [frames: Seq(EventSequences) \ {<<>>}, summary:
                       [frames: Nat, gaps: Nat, loss: BOOLEAN, rate: STRING, traffic: STRING]]]
  /\ \A kind \in Kinds : LET run == PinnedRuns[kind]
                         IN LoadRun(run, analyze_frames(run.frames)) /\ ValidRun(kind, run.summary)
  /\ PinnedRuns["initial_failure"].summary.traffic = "whole"
  /\ PinnedRuns["diagnostic"].summary.traffic = "late"

make_run_manifest(run, frames) ==
  [frames |-> frames, summary |-> run.summary, firmware |-> mem.firmware]

LoadReadRun ==
  /\ At("load_run")
  /\ LET run == disk.runs[Kind]
         frames == analyze_frames(run.frames)
     IN /\ Remember([manifest |-> make_run_manifest(run, frames)])
        /\ Require(LoadRun(run, frames) /\ ValidRun(Kind, run.summary), "load_package")
  /\ UNCHANGED disk

(* The capture tool and the attestation are read once to be hashed into the *)
(* manifest and once to be archived, with only this step in between.        *)
QualifiedMembers ==
  [anchor |-> mem.anchor, tool |-> disk.tool, attestation |-> disk.documents.attestation]

(* Mutant: the last row does not reach the archive.                         *)
LoadMembersShort(kind) ==
  LET frames == disk.runs[kind].frames
  IN [manifest |-> mem.manifest, summary |-> mem.manifest.summary,
      frames |-> SubSeq(frames, 1, Len(frames) - 1),
      capture |-> IF kind = "qualified" THEN QualifiedMembers ELSE NoFile]

(* frames.csv is opened again, to be compressed into the zip.               *)
LoadMembers(kind) ==
  [manifest |-> mem.manifest, summary |-> mem.manifest.summary, frames |-> disk.runs[kind].frames,
   capture |-> IF kind = "qualified" THEN QualifiedMembers ELSE NoFile]

LoadWritePackage ==
  /\ At("load_package")
  /\ disk' = [disk EXCEPT !.packages[Kind] = LoadMembers(Kind)]
  /\ Remember([manifests |-> Overlay([kind \in {Kind} |-> mem.manifest], mem.manifests),
               next |-> mem.next + 1])
  /\ Go(IF mem.next < Len(RunOrder) THEN "load_run" ELSE "load_status")

(* The status hashes every other document, and the packages, as they are    *)
(* on disk now.  It lacks the references in AmendedDocuments, and texts     *)
(* holds those of AmendedTexts that are up to date: none.                   *)
LoadStatus ==
  [firmware |-> mem.firmware,
   documents |-> [name \in PackagedDocuments |-> disk.documents[name]],
   texts |-> {},
   backpressure |-> disk.backpressure_evidence,
   hotplug |-> disk.hotplug_evidence,
   runs |-> [kind \in Kinds |-> [package |-> disk.packages[kind],
                                 manifest |-> mem.manifests[kind]]]]

LoadWriteStatus ==
  /\ At("load_status")
  /\ Replace("status", LoadStatus) /\ Go("load_done") /\ UNCHANGED mem

LoadPackager == LoadInputs \/ LoadReadRun \/ LoadWritePackage \/ LoadWriteStatus
-----------------------------------------------------------------------------
(* validate_package: the zip at its staging path if there is one ...        *)
PackageBound(kind, run) == disk.packages[kind] = run.package

(* ... and otherwise the record of the index, with an excerpt of the run.   *)
DetachedRun(kind, run) ==
  /\ DetachedReference(kind, run.package)
  /\ run.manifest.frames.sha = PinnedRuns[kind].frames

(* validate_frames_metadata and the hashes of the run manifest: the frames  *)
(* in the zip are replayed.                                                 *)
ReplayedRun(kind, run) ==
  LET package == disk.packages[kind]
      replay == analyze_frames(package.frames)
  IN /\ package.manifest.frames = run.manifest.frames
     /\ package.manifest.frames = replay
     /\ package.manifest.summary = package.summary
     /\ run.manifest.summary = package.manifest.summary
     /\ replay.rows = package.summary.frames /\ replay.gaps = package.summary.gaps

PinnedSources(kind) ==
  LET package == disk.packages[kind]
  IN package.frames = PinnedRuns[kind].frames /\ package.summary = PinnedRuns[kind].summary

InitialFailureRun(summary) == validate_failed_long_run(summary) /\ summary.traffic = "whole"

DiagnosticRun(summary) == validate_diagnostic_run(summary) /\ summary.traffic = "late"

QualifiedRun(package) ==
  /\ validate_qualified_long_run(package.summary)
  /\ {package.capture.anchor, package.capture.tool, disk.anchor} = {PinnedTool}
  /\ package.capture.attestation = "good"

RunAccepted(kind, run) ==
  IF disk.packages[kind] = NoFile THEN DetachedRun(kind, run)
  ELSE LET package == disk.packages[kind]
       IN /\ PackageBound(kind, run) /\ ReplayedRun(kind, run) /\ PinnedSources(kind)
          /\ CASE kind = "initial_failure" -> InitialFailureRun(package.summary)
               [] kind = "qualified" -> QualifiedRun(package)
               [] kind = "diagnostic" -> DiagnosticRun(package.summary)

(* Each referenced document is the one hashed, and its validator accepts.   *)
DocumentsBound(status) ==
  /\ Documents \subseteq DOMAIN status.documents
  /\ \A name \in Documents : status.documents[name] = disk.documents[name]
  /\ \A name \in Documents \ {"attestation"} : disk.documents[name] = "good"

TextsCurrent(status) == AmendedTexts \subseteq status.texts

FirmwareBound(status) == status.firmware = disk.firmware_evidence /\ FirmwareAccepted

BackpressureBound(status) ==
  status.backpressure = disk.backpressure_evidence /\ BackpressureAccepted

(* Mutant: the document on disk is not compared with the one hashed.        *)
HotplugUnbound(status) ==
  CompletedPhysical(status.hotplug.record) /\ status.hotplug.record.cycles = 1

HotplugBound(status) ==
  /\ status.hotplug = disk.hotplug_evidence
  /\ CompletedPhysical(status.hotplug.record) /\ status.hotplug.record.cycles = 1

LoadAccepted ==
  LET status == disk.status
  IN /\ Exists("status")
     /\ FirmwareBound(status) /\ DocumentsBound(status) /\ TextsCurrent(status)
     /\ \A kind \in Kinds : RunAccepted(kind, status.runs[kind])
     /\ BackpressureBound(status) /\ HotplugBound(status)
=============================================================================
