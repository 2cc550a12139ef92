--------------------------- MODULE EvidenceProofs ---------------------------
(***************************************************************************)
(* Proofs about EvidenceChain for all inputs, edits and pinned runs and any*)
(* number of runs of the packagers, crashes and edits.                     *)
(***************************************************************************)
EXTENDS EvidenceChain, FiniteSetTheorems, TLAPS

-----------------------------------------------------------------------------
(* The files: what a step may do to them.                                   *)

(* The paths that are no inputs.                                            *)
Outputs == firmware_outputs \cup backpressure_outputs \cup {"packages", "status", "index"}

(* The disk holds one content for every path, and a document for each name. *)
Files ==
  /\ DOMAIN disk = Paths /\ disk.documents \in [Documents -> STRING]
  /\ DOMAIN disk.packages = Kinds
  /\ DOMAIN disk.status = {"firmware", "documents", "texts", "backpressure", "hotplug", "runs"}

(* A step writes one output, is a checkout or an edit.                      *)
LEMMA FilesMove ==
  ASSUME [Next]_vars
  PROVE  \/ disk' = disk
         \/ \E path \in (firmware_outputs \cup backpressure_outputs) \cup {"index"} :
              \E content : disk' = [disk EXCEPT ![path] = content]
         \/ LoadWritePackage \/ LoadWriteStatus \/ Amend \/ Checkout
         \/ \E files \in Edits : disk' = Overlay(files, disk)
<1> USE DEF firmware_outputs, backpressure_outputs, Replace
<1>1. CASE UNCHANGED vars
  BY <1>1 DEF vars
<1>2. ASSUME NEW program, Start(program) PROVE disk' = disk
  BY <1>2 DEF Start
<1>3. CASE FirmwarePackager
  BY <1>3 DEF FirmwarePackager, FirmwareReadManifest, FirmwareParseManifest, FirmwareReadArtifacts,
              FirmwareReadTranscripts, FirmwareBuildOutputs, FirmwareReplacePackage,
              FirmwareReplaceEvidence
<1>4. CASE BackpressurePackager
  BY <1>4 DEF BackpressurePackager, BackpressureReadRun, BackpressureReadRecorded,
              BackpressureCheckRun, BackpressureReadGit, BackpressureReadTools,
              BackpressureWritePackage, BackpressureWriteEvidence, NormalizeHotplug,
              WriteHotplugEvidence
<1>5. CASE LoadPackager
  BY <1>5 DEF LoadPackager, LoadInputs, LoadReadRun
<1>6. CASE Crash
  BY <1>6 DEF Crash
<1>7. CASE ArchiveAny
  BY <1>7 DEF ArchiveAny, Archive, ArchiveBeside
<1>8. ASSUME NEW files \in Edits, Edit(files) PROVE disk' = Overlay(files, disk)
  BY <1>8 DEF Edit
<1>9. QED
  BY <1>1, <1>2, <1>3, <1>4, <1>5, <1>6, <1>7, <1>8 DEF Next, Packager

(* The files of the committed tree.                                         *)
LEMMA CommittedFiles ==
  ASSUME Init
  PROVE  /\ DOMAIN disk = Paths
         /\ \A path \in DOMAIN Inputs : disk[path] = Inputs[path]
         /\ disk.firmware_package = CommittedFirmware.package
         /\ disk.firmware_evidence = CommittedFirmware
         /\ disk.backpressure_package = CommittedBackpressure
         /\ disk.backpressure_evidence = CommittedStatus.backpressure
         /\ disk.hotplug_evidence = CommittedHotplug
         /\ disk.packages = CommittedPackages /\ disk.status = CommittedStatus
         /\ disk.index = CommittedIndex
<1> DEFINE written == [firmware_package |-> CommittedFirmware.package,
                       firmware_evidence |-> CommittedFirmware,
                       backpressure_package |-> CommittedBackpressure,
                       backpressure_evidence |-> CommittedStatus.backpressure,
                       hotplug_evidence |-> CommittedHotplug,
                       packages |-> CommittedPackages,
                       status |-> CommittedStatus,
                       index |-> CommittedIndex]
<1>1. disk = Overlay(written, Inputs)
  BY DEF Init
<1>2. DOMAIN written = Outputs
  BY DEF Outputs, firmware_outputs, backpressure_outputs
<1>3. /\ written["firmware_package"] = CommittedFirmware.package
      /\ written["firmware_evidence"] = CommittedFirmware
      /\ written["backpressure_package"] = CommittedBackpressure
      /\ written["backpressure_evidence"] = CommittedStatus.backpressure
      /\ written["hotplug_evidence"] = CommittedHotplug
      /\ written["packages"] = CommittedPackages /\ written["status"] = CommittedStatus
      /\ written["index"] = CommittedIndex
  OBVIOUS
<1> HIDE DEF written
<1>4. DOMAIN disk = Paths
  BY <1>1, <1>2 DEF Outputs, Paths, Overlay
<1>5. \A path \in DOMAIN Inputs : path \notin Outputs
  BY InputsAssumption DEF Outputs, firmware_outputs, backpressure_outputs
<1>6. \A path \in DOMAIN Inputs : disk[path] = Inputs[path]
  BY <1>1, <1>2, <1>5 DEF Overlay
<1>7. \A path \in Outputs : disk[path] = written[path]
  BY <1>1, <1>2 DEF Overlay
<1>8. /\ disk["firmware_package"] = CommittedFirmware.package
      /\ disk["firmware_evidence"] = CommittedFirmware
      /\ disk["backpressure_package"] = CommittedBackpressure
      /\ disk["backpressure_evidence"] = CommittedStatus.backpressure
      /\ disk["hotplug_evidence"] = CommittedHotplug
      /\ disk["packages"] = CommittedPackages /\ disk["status"] = CommittedStatus
      /\ disk["index"] = CommittedIndex
  BY <1>3, <1>7 DEF Outputs, firmware_outputs, backpressure_outputs
<1>9. QED
  BY <1>4, <1>6, <1>8

LEMMA InitFiles ==
  ASSUME Init
  PROVE  Files
<1>1. disk.documents = Inputs.documents /\ Inputs.documents \in [Documents -> STRING]
  BY CommittedFiles, InputsAssumption
<1>2. QED
  BY <1>1, CommittedFiles DEF Files, CommittedPackages, CommittedStatus

(* What an edit leaves.                                                     *)
LEMMA Edited ==
  ASSUME Files, NEW files \in Edits, disk' = Overlay(files, disk)
  PROVE  /\ DOMAIN disk' = Paths
         /\ \A path \in Outputs : disk'[path] = disk[path]
         /\ disk'.documents = IF "documents" \in DOMAIN files THEN files.documents ELSE disk.documents
<1>1. DOMAIN files \subseteq DOMAIN Inputs
  BY InputsAssumption
<1>2. DOMAIN disk' = Paths
  BY <1>1 DEF Overlay, Files, Paths
<1>3. \A path \in Outputs : path \in Paths /\ path \notin DOMAIN files
  BY <1>1, InputsAssumption DEF Outputs, Paths, firmware_outputs, backpressure_outputs
<1>4. "documents" \in DOMAIN files \cup DOMAIN disk
  BY InputsAssumption DEF Files, Paths
<1>5. QED
  BY <1>2, <1>3, <1>4 DEF Overlay, Files

LEMMA FilesKept ==
  ASSUME Files, [Next]_vars
  PROVE  Files'
<1> USE DEF Files
<1>1. ASSUME NEW files \in Edits, disk' = Overlay(files, disk) PROVE Files'
  <2>1. disk'["packages"] = disk["packages"] /\ disk'["status"] = disk["status"]
    BY <1>1, Edited DEF Outputs
  <2>2. QED
    BY <1>1, <2>1, Edited, InputsAssumption
<1>2. ASSUME NEW path \in (firmware_outputs \cup backpressure_outputs) \cup {"index"}, NEW content,
             disk' = [disk EXCEPT ![path] = content]
      PROVE  Files'
  BY <1>2, InputsAssumption DEF firmware_outputs, backpressure_outputs, Paths
<1>3. CASE LoadWritePackage
  BY <1>3, InputsAssumption DEF LoadWritePackage, Paths
<1>4. CASE LoadWriteStatus
  BY <1>4, InputsAssumption DEF LoadWriteStatus, LoadStatus, Replace, Paths
<1>5. CASE Amend
  BY <1>5, InputsAssumption DEF Amend, AmendDocuments, AmendTexts, Paths
<1>6. CASE Checkout
  <2>1. /\ disk'["documents"] = disk["documents"] /\ disk'["status"] = disk["status"]
        /\ disk'["packages"] = [kind \in Kinds |-> NoFile]
    BY <1>6, InputsAssumption DEF Checkout, Paths
  <2>2. QED
    BY <1>6, <2>1 DEF Checkout
<1>7. QED
  BY <1>1, <1>2, <1>3, <1>4, <1>5, <1>6, FilesMove

-----------------------------------------------------------------------------
LEMMA SameCovered ==
  ASSUME Files, Files', disk.status' = disk.status, LoadAccepted, LoadAccepted'
  PROVE  Covered' = Covered /\ SamePackages
<1> DEFINE evidence == disk.firmware_evidence
<1>1. /\ disk.status.firmware = evidence /\ FirmwareAccepted
      /\ disk.status.firmware = evidence' /\ FirmwareAccepted'
  BY DEF LoadAccepted, FirmwareBound
<1>2. /\ disk.firmware_package' = disk.firmware_package
      /\ disk.program' = disk.program /\ disk.compare' = disk.compare
  BY <1>1 DEF FirmwareAccepted, FirmwarePackageBound, FirmwareProgram, FirmwareReadback
<1>3. /\ disk.backpressure_evidence' = disk.backpressure_evidence
      /\ disk.hotplug_evidence' = disk.hotplug_evidence
      /\ BackpressureAccepted /\ BackpressureAccepted'
  BY DEF LoadAccepted, BackpressureBound, HotplugBound
<1>4. disk.documents' = disk.documents
  <2>1. \A name \in Documents : disk.documents[name]' = disk.documents[name]
    BY DEF LoadAccepted, DocumentsBound
  <2>2. disk.documents \in [Documents -> STRING] /\ disk.documents' \in [Documents -> STRING]
    BY DEF Files
  <2>3. QED
    BY <2>1, <2>2
<1>5. \/ NoFile \in {disk.backpressure_package, disk.backpressure_package'}
      \/ disk.backpressure_package = disk.backpressure_package'
  BY <1>3 DEF BackpressureAccepted, Exists
<1>6. ASSUME NEW kind \in Kinds
      PROVE  \/ NoFile \in {disk.packages[kind], disk.packages'[kind]}
             \/ disk.packages[kind] = disk.packages'[kind]
  <2>1. /\ RunAccepted(kind, disk.status.runs[kind])
        /\ RunAccepted(kind, disk.status.runs[kind])'
    BY DEF LoadAccepted
  <2>2. QED
    BY <2>1 DEF RunAccepted, PackageBound
<1>7. QED
  BY <1>1, <1>2, <1>3, <1>4, <1>5, <1>6 DEF Covered, SamePackages

(* While a status stays as it is, no file that it covers can change and the *)
(* status be accepted before and after (FirmwareBound, DocumentsBound,      *)
(* PackageBound of validate_p3b_load_evidence.py).                          *)
THEOREM AcceptedCovers == Spec => StatusCovers
<1>1. Spec => []Files
  BY InitFiles, FilesKept, PTL DEF Spec
<1>2. Files /\ Files' /\ [Next]_vars
        => [disk.status' = disk.status /\ ~(Covered' = Covered /\ SamePackages)
              => ~LoadAccepted' \/ ~LoadAccepted]_vars
  BY SameCovered
<1>3. QED
  BY <1>1, <1>2, PTL DEF Spec, StatusCovers

-----------------------------------------------------------------------------
(* What acceptance is worth, as far as the state alone says.                *)

LEMMA FirmwareIsSound ==
  ASSUME FirmwareAccepted
  PROVE  FirmwareSound
<1> DEFINE evidence == disk.firmware_evidence
<1>1. /\ evidence.fields.sound /\ disk.firmware_package.build = evidence.fields
      /\ evidence.elf = disk.firmware_package.elf
      /\ disk.firmware_package.build.elf = disk.firmware_package.elf
  BY DEF FirmwareAccepted, FirmwareBuildAgrees, FirmwareArtifactsAgree
<1>2. /\ disk.program.target = KnownTarget /\ disk.program.elf = evidence.elf /\ disk.program.ok
      /\ disk.compare.target = KnownTarget /\ disk.compare.elf = evidence.elf /\ disk.compare.ok
  BY DEF FirmwareAccepted, FirmwareTarget, FirmwareProgram, FirmwareReadback
<1>3. QED
  BY <1>1, <1>2 DEF FirmwareSound

(* The step after a sequence, by the reference.                             *)
LEMMA NextIsOneStep ==
  ASSUME NEW s \in EventSequences
  PROVE  Distance(s, next_nonzero(s)) = 1
<1> USE ModulusAssumption
<1>1. CASE s = Modulus - 1
  <2>1. (s + 1) % Modulus = 0
    BY <1>1
  <2>2. QED
    BY <1>1, <2>1 DEF next_nonzero, Distance
<1>2. CASE s # Modulus - 1
  <2>1. s + 1 \in 1..Modulus - 1
    BY <1>2 DEF EventSequences
  <2>2. (s + 1) % Modulus = s + 1
    BY <2>1
  <2>3. QED
    BY <2>1, <2>2 DEF next_nonzero, Distance, EventSequences
<1>3. QED
  BY <1>1, <1>2

(* frames.csv without a gap, counted as analyze_frames counts.              *)
LEMMA NoGapIsGapFree ==
  ASSUME NEW frames \in Seq(EventSequences), analyze_frames(frames).gaps = 0
  PROVE  GapFree(frames)
<1> DEFINE gaps == {i \in 1..Len(frames) - 1 :
                      frames[i] # 0 /\ frames[i + 1] # next_nonzero(frames[i])}
<1>1. Len(frames) \in Nat
  OBVIOUS
<1>2. IsFiniteSet(gaps)
  <2>1. IsFiniteSet(1..Len(frames) - 1)
    BY <1>1, FS_Interval
  <2>2. QED
    BY <2>1, FS_Subset
<1>3. gaps = {}
  <2>1. Cardinality(gaps) = 0
    BY DEF analyze_frames
  <2>2. QED
    BY <1>2, <2>1, FS_EmptySet
<1>4. ASSUME NEW i \in 1..Len(frames) - 1 PROVE Distance(frames[i], frames[i + 1]) = 1
  <2>1. i \in 1..Len(frames) /\ i + 1 \in 1..Len(frames)
    BY <1>1
  <2>2. frames[i] \in EventSequences
    BY <2>1
  <2>3. frames[i] # 0
    BY <2>2 DEF EventSequences
  <2>4. frames[i + 1] = next_nonzero(frames[i])
    BY <1>3, <2>3
  <2>5. QED
    BY <2>2, <2>4, NextIsOneStep
<1>5. QED
  BY <1>4 DEF GapFree

-----------------------------------------------------------------------------
(* The memory of a packager.                                                *)
Knows(name, value) == name \in DOMAIN mem /\ mem[name] = value

LEMMA Remembers ==
  ASSUME NEW values, Remember(values)
  PROVE  /\ DOMAIN mem' = DOMAIN values \cup DOMAIN mem
         /\ \A name \in DOMAIN values : mem'[name] = values[name]
         /\ \A name \in DOMAIN mem \ DOMAIN values : mem'[name] = mem[name]
BY DEF Remember, Overlay

(* The steps of each packager.                                              *)
FirmwareSteps == {"firmware_start", "firmware_parse", "firmware_artifacts", "firmware_transcripts",
                  "firmware_build", "firmware_package", "firmware_evidence", "firmware_done"}
BackpressureSteps == {"backpressure_start", "backpressure_recorded", "backpressure_check",
                      "backpressure_git", "backpressure_tools", "backpressure_package",
                      "backpressure_evidence", "backpressure_hotplug", "backpressure_normalized",
                      "backpressure_done"}
LoadSteps == {"load_start", "load_run", "load_package", "load_status", "load_done"}

LEMMA StepsMove ==
  /\ FirmwarePackager => /\ pc \in FirmwareSteps \ {"firmware_done"}
                         /\ pc' \in (FirmwareSteps \ {"firmware_start"}) \cup {"failed"}
  /\ BackpressurePackager => /\ pc \in BackpressureSteps \ {"backpressure_done"}
                             /\ pc' \in (BackpressureSteps \ {"backpressure_start"}) \cup {"failed"}
  /\ LoadPackager => /\ pc \in LoadSteps \ {"load_done"}
                     /\ pc' \in (LoadSteps \ {"load_start"}) \cup {"failed"}
<1> USE DEF At, Go, Require
<1>1. ASSUME FirmwarePackager
      PROVE  /\ pc \in FirmwareSteps \ {"firmware_done"}
             /\ pc' \in (FirmwareSteps \ {"firmware_start"}) \cup {"failed"}
  BY <1>1 DEF FirmwareSteps, FirmwarePackager, FirmwareReadManifest, FirmwareParseManifest,
              FirmwareReadArtifacts, FirmwareReadTranscripts, FirmwareBuildOutputs,
              FirmwareReplacePackage, FirmwareReplaceEvidence
<1>2. ASSUME BackpressurePackager
      PROVE  /\ pc \in BackpressureSteps \ {"backpressure_done"}
             /\ pc' \in (BackpressureSteps \ {"backpressure_start"}) \cup {"failed"}
  BY <1>2 DEF BackpressureSteps, BackpressurePackager, BackpressureReadRun,
              BackpressureReadRecorded, BackpressureCheckRun, BackpressureReadGit,
              BackpressureReadTools, BackpressureWritePackage, BackpressureWriteEvidence,
              NormalizeHotplug, WriteHotplugEvidence
<1>3. ASSUME LoadPackager
      PROVE  /\ pc \in LoadSteps \ {"load_done"}
             /\ pc' \in (LoadSteps \ {"load_start"}) \cup {"failed"}
  BY <1>3 DEF LoadSteps, LoadPackager, LoadInputs, LoadReadRun, LoadWritePackage, LoadWriteStatus
<1>4. QED
  BY <1>1, <1>2, <1>3

-----------------------------------------------------------------------------
(* The runs of a status name the firmware that the status names: each load  *)
(* packager reads the firmware evidence once, and its packages are not      *)
(* touched between their writing and that of the status.                    *)
Named(kind) ==
  disk.packages[kind] # NoFile => disk.packages[kind].manifest.firmware = mem.firmware

OneFirmware ==
  /\ \A kind \in Kinds :
       LET package == disk.status.runs[kind].package
       IN package # NoFile => package.manifest.firmware = disk.status.firmware
  /\ pc \in {"load_run", "load_package", "load_status"} =>
       /\ {"firmware", "manifests", "next"} \subseteq DOMAIN mem
       /\ mem.next \in 1..4 /\ (pc # "load_status" => mem.next < 4)
       /\ pc = "load_status" => mem.next = 4
       /\ \A k \in 1..mem.next - 1 : Named(RunOrder[k])
  /\ pc = "load_package" => "manifest" \in DOMAIN mem /\ mem.manifest.firmware = mem.firmware

LEMMA Ordered ==
  /\ Len(RunOrder) = 3 /\ DOMAIN RunOrder = 1..3
  /\ \A k \in 1..3 : RunOrder[k] \in Kinds
  /\ \A kind \in Kinds : \E k \in 1..3 : RunOrder[k] = kind
  /\ \A k, l \in 1..3 : RunOrder[k] = RunOrder[l] => k = l
BY DEF RunOrder, Kinds

LEMMA OneFirmwareInputs ==
  ASSUME Files, OneFirmware, LoadInputs
  PROVE  OneFirmware'
<1> DEFINE values == [firmware |-> disk.firmware_evidence, anchor |-> disk.anchor,
                      manifests |-> [kind \in {} |-> NoFile], next |-> 1]
<1>1. disk' = disk /\ Remember(values) /\ pc' \in {"load_run", "failed"}
  BY DEF LoadInputs, Require, Go
<1>2. DOMAIN values = {"firmware", "anchor", "manifests", "next"} /\ values["next"] = 1
  OBVIOUS
<1>3. {"firmware", "manifests", "next"} \subseteq DOMAIN mem' /\ mem'["next"] = 1
  BY <1>1, <1>2, Remembers
<1>4. QED
  BY <1>1, <1>3 DEF OneFirmware

LEMMA OneFirmwareRun ==
  ASSUME Files, OneFirmware, LoadReadRun
  PROVE  OneFirmware'
<1> DEFINE manifest == make_run_manifest(disk.runs[Kind], analyze_frames(disk.runs[Kind].frames))
           values == [manifest |-> manifest]
<1>1. disk' = disk /\ Remember(values) /\ pc = "load_run" /\ pc' \in {"load_package", "failed"}
  BY DEF LoadReadRun, Require, Go, At
<1>2. DOMAIN values = {"manifest"} /\ values["manifest"].firmware = mem.firmware
  BY DEF make_run_manifest
<1> HIDE DEF values
<1>3. {"firmware", "manifests", "next"} \subseteq DOMAIN mem
  BY <1>1 DEF OneFirmware
<1>4. /\ DOMAIN mem' = DOMAIN mem \cup {"manifest"} /\ mem'["manifest"].firmware = mem.firmware
      /\ mem'["firmware"] = mem["firmware"] /\ mem'["next"] = mem["next"]
  BY <1>1, <1>2, <1>3, Remembers
<1>5. QED
  BY <1>1, <1>3, <1>4 DEF OneFirmware, Named

LEMMA OneFirmwarePackage ==
  ASSUME Files, OneFirmware, LoadWritePackage
  PROVE  OneFirmware'
<1> DEFINE values == [manifests |-> Overlay([kind \in {Kind} |-> mem.manifest], mem.manifests),
                      next |-> mem.next + 1]
<1>1. /\ pc = "load_package" /\ pc' = IF mem.next < 3 THEN "load_run" ELSE "load_status"
      /\ Remember(values) /\ disk' = [disk EXCEPT !.packages[Kind] = LoadMembers(Kind)]
  BY Ordered DEF LoadWritePackage, Go, At
<1>2. DOMAIN values = {"manifests", "next"} /\ values["next"] = mem.next + 1
  OBVIOUS
<1> HIDE DEF values
<1>3. /\ {"firmware", "manifests", "next", "manifest"} \subseteq DOMAIN mem
      /\ mem.next \in 1..3 /\ mem.manifest.firmware = mem.firmware
  BY <1>1 DEF OneFirmware
<1>4. /\ {"firmware", "manifests", "next"} \subseteq DOMAIN mem'
      /\ mem'["firmware"] = mem["firmware"] /\ mem'["next"] = mem.next + 1
  BY <1>1, <1>2, <1>3, Remembers
<1>5. Kind \in Kinds /\ Kind = RunOrder[mem.next]
  BY <1>3, Ordered DEF Kind
<1>6. /\ disk'["status"] = disk["status"]
      /\ disk'["packages"] = [disk.packages EXCEPT ![Kind] = LoadMembers(Kind)]
  BY <1>1 DEF Files, Paths
<1>7. disk'["packages"][Kind].manifest.firmware = mem.firmware
  BY <1>3, <1>5, <1>6 DEF Files, LoadMembers
<1>8. ASSUME NEW k \in 1..mem.next PROVE Named(RunOrder[k])'
  <2>1. CASE RunOrder[k] = Kind
    BY <1>4, <1>7, <2>1 DEF Named
  <2>2. CASE RunOrder[k] # Kind
    <3>1. k \in 1..mem.next - 1
      BY <1>3, <1>5, <2>2
    <3>2. Named(RunOrder[k])
      BY <1>1, <3>1 DEF OneFirmware
    <3>3. disk'["packages"][RunOrder[k]] = disk["packages"][RunOrder[k]]
      BY <1>6, <2>2, <3>1, <1>3, Ordered DEF Files
    <3>4. QED
      BY <3>2, <3>3, <1>4 DEF Named
  <2>3. QED
    BY <2>1, <2>2
<1>9. \A k \in 1..mem'["next"] - 1 : Named(RunOrder[k])'
  BY <1>3, <1>4, <1>8
<1>10. mem'["next"] \in 1..4 /\ (pc' # "load_status" => mem'["next"] < 4)
         /\ (pc' = "load_status" => mem'["next"] = 4)
  BY <1>1, <1>3, <1>4
<1>11. pc' # "load_package"
  BY <1>1
<1>12. \A kind \in Kinds :
        LET package == disk.status.runs[kind].package
        IN (package # NoFile => package.manifest.firmware = disk.status.firmware)'
  BY <1>6 DEF OneFirmware
<1>13. QED
  BY <1>4, <1>9, <1>10, <1>11, <1>12 DEF OneFirmware

LEMMA OneFirmwareStatus ==
  ASSUME Files, OneFirmware, LoadWriteStatus
  PROVE  OneFirmware'
<1>1. pc = "load_status" /\ pc' = "load_done" /\ disk' = [disk EXCEPT !["status"] = LoadStatus]
  BY DEF LoadWriteStatus, At, Go, Replace
<1>2. disk'["status"] = LoadStatus
  BY <1>1 DEF Files, Paths
<1>3. ASSUME NEW kind \in Kinds PROVE Named(kind)
  <2>1. PICK k \in 1..3 : RunOrder[k] = kind
    BY Ordered
  <2>2. QED
    BY <1>1, <2>1 DEF OneFirmware
<1>4. QED
  BY <1>1, <1>2, <1>3 DEF OneFirmware, Named, LoadStatus

LEMMA OneFirmwareKept ==
  ASSUME Files, OneFirmware, [Next]_vars
  PROVE  OneFirmware'
<1>1. ASSUME pc' \notin {"load_run", "load_package", "load_status"},
             disk'["status"].firmware = disk["status"].firmware,
             disk'["status"].runs = disk["status"].runs
      PROVE  OneFirmware'
  BY <1>1 DEF OneFirmware
<1>2. CASE UNCHANGED vars
  BY <1>2 DEF vars, OneFirmware, Named
<1>3. ASSUME NEW program \in {"firmware_start", "backpressure_start", "load_start"}, Start(program)
      PROVE  OneFirmware'
  BY <1>1, <1>3 DEF Start, Go
<1>4. CASE FirmwarePackager
  <2>1. disk'["status"] = disk["status"]
    BY <1>4 DEF FirmwarePackager, FirmwareReadManifest, FirmwareParseManifest,
                FirmwareReadArtifacts, FirmwareReadTranscripts, FirmwareBuildOutputs,
                FirmwareReplacePackage, FirmwareReplaceEvidence, Replace, Files, Paths
  <2>2. QED
    BY <1>1, <1>4, <2>1, StepsMove DEF FirmwareSteps
<1>5. CASE BackpressurePackager
  <2>1. disk'["status"] = disk["status"]
    BY <1>5 DEF BackpressurePackager, BackpressureReadRun, BackpressureReadRecorded,
                BackpressureCheckRun, BackpressureReadGit, BackpressureReadTools,
                BackpressureWritePackage, BackpressureWriteEvidence, NormalizeHotplug,
                WriteHotplugEvidence, Replace, Files, Paths
  <2>2. QED
    BY <1>1, <1>5, <2>1, StepsMove DEF BackpressureSteps
<1>6. CASE LoadPackager
  BY <1>6, OneFirmwareInputs, OneFirmwareRun, OneFirmwarePackage, OneFirmwareStatus DEF LoadPackager
<1>7. CASE Crash
  BY <1>1, <1>7 DEF Crash, Go
<1>8. ASSUME pc \in Ended, pc' = pc PROVE pc' \notin {"load_run", "load_package", "load_status"}
  BY <1>8 DEF Ended
<1>9. CASE Amend
  BY <1>1, <1>8, <1>9 DEF Amend, AmendDocuments, AmendTexts, Files, Paths
<1>10. CASE Checkout
  BY <1>1, <1>8, <1>10 DEF Checkout, Files, Paths
<1>11. CASE ArchiveAny
  BY <1>1, <1>8, <1>11 DEF ArchiveAny, Archive, ArchiveBeside, Files, Paths
<1>12. ASSUME NEW files \in Edits, Edit(files) PROVE OneFirmware'
  <2>1. /\ disk' = Overlay(files, disk) /\ pc' = pc /\ mem' = mem
    BY <1>12 DEF Edit
  <2>2. disk'["status"] = disk["status"] /\ disk'["packages"] = disk["packages"]
    BY <2>1, Edited DEF Outputs
  <2>3. QED
    BY <2>1, <2>2 DEF OneFirmware, Named
<1>13. QED
  BY <1>2, <1>3, <1>4, <1>5, <1>6, <1>7, <1>9, <1>10, <1>11, <1>12 DEF Next, Packager

LEMMA InitOneFirmware ==
  ASSUME Init
  PROVE  OneFirmware
<1>1. disk.status = CommittedStatus
  BY CommittedFiles
<1>2. pc = "none"
  BY DEF Init
<1>3. /\ disk.status.firmware = CommittedFirmware
      /\ \A kind \in Kinds : disk.status.runs[kind].package = CommittedPackages[kind]
  BY <1>1 DEF CommittedStatus
<1>4. \A kind \in Kinds : CommittedPackages[kind].manifest.firmware = CommittedFirmware
  BY DEF CommittedPackages
<1>5. \A kind \in Kinds :
        disk.status.runs[kind].package.manifest.firmware = disk.status.firmware
  BY <1>3, <1>4
<1>6. pc \notin {"load_run", "load_package", "load_status"}
  BY <1>2
<1>7. QED
  BY <1>5, <1>6 DEF OneFirmware

LEMMA LoadIsSound ==
  ASSUME OneFirmware, LoadAccepted
  PROVE  LoadSound
<1> DEFINE qualified == disk.packages["qualified"]
<1>1. ASSUME NEW kind \in Kinds, disk.packages[kind] # NoFile
      PROVE  /\ disk.packages[kind] = disk.status.runs[kind].package
             /\ disk.packages[kind].frames = PinnedRuns[kind].frames
             /\ analyze_frames(disk.packages[kind].frames).gaps = disk.packages[kind].summary.gaps
             /\ kind = "qualified" => QualifiedRun(disk.packages[kind])
  <2>1. RunAccepted(kind, disk.status.runs[kind])
    BY DEF LoadAccepted
  <2>2. QED
    BY <1>1, <2>1 DEF RunAccepted, PackageBound, ReplayedRun, PinnedSources
<1>2. ASSUME qualified # NoFile PROVE GapFree(qualified.frames) /\ qualified.summary.gaps = 0
  <2>1. qualified.summary.gaps = 0
    BY <1>1, <1>2 DEF QualifiedRun, validate_qualified_long_run, Kinds
  <2>2. analyze_frames(qualified.frames).gaps = 0 /\ qualified.frames \in Seq(EventSequences)
    BY <1>1, <1>2, <2>1, PinnedAssumption DEF Kinds
  <2>3. QED
    BY <2>1, <2>2, NoGapIsGapFree
<1>3. disk.hotplug_evidence.record.physical /\ disk.hotplug_evidence.record.cycles = 1
  BY DEF LoadAccepted, HotplugBound, CompletedPhysical
<1>4. ASSUME NEW kind \in Kinds, disk.packages[kind] # NoFile
      PROVE  disk.packages[kind].manifest.firmware = disk.firmware_evidence
  BY <1>1, <1>4 DEF OneFirmware, LoadAccepted, FirmwareBound
<1>5. QED
  BY <1>2, <1>3, <1>4 DEF LoadSound

-----------------------------------------------------------------------------
(* While nobody edits, what a packager remembers is what is on disk, its    *)
(* checks hold of the disk, and its outputs are those the disk gives.       *)

(* The outputs, as one look at the disk gives them.                         *)
BuiltFirmware ==
  [fields |-> disk.build, build |-> disk.build, elf |-> disk.elf,
   package |-> FirmwareMembers(disk.build, disk.build, disk.elf),
   target |-> disk.program.target, program |-> disk.program, compare |-> disk.compare,
   sections |-> disk.compare.ok]

BuiltBackpressure ==
  [capture |-> disk.capture, recorded |-> disk.recorded, git |-> disk.git, tool |-> disk.tool,
   reconciler |-> disk.reconciler, firmware |-> disk.firmware_evidence]

BuiltManifest(kind) ==
  [frames |-> analyze_frames(disk.runs[kind].frames), summary |-> disk.runs[kind].summary,
   firmware |-> disk.firmware_evidence]

BuiltRun(kind) ==
  [manifest |-> BuiltManifest(kind), summary |-> disk.runs[kind].summary,
   frames |-> disk.runs[kind].frames,
   capture |-> IF kind = "qualified"
                 THEN [anchor |-> disk.anchor, tool |-> disk.tool,
                       attestation |-> disk.documents.attestation]
                 ELSE NoFile]

(* What the packagers check.                                                *)
FirmwareReady ==
  /\ disk.build.sound /\ disk.elf = disk.build.elf
  /\ TranscriptsAgree(disk.program, disk.compare, disk.build, disk.elf)

BackpressureReady ==
  /\ ~disk.capture.data.drops /\ disk.capture.paused
  /\ PartialReconciliation(disk.recorded)

RunReady(kind) ==
  LET run == disk.runs[kind]
  IN LoadRun(run, analyze_frames(run.frames)) /\ ValidRun(kind, run.summary)

FirmwareQuiet ==
  /\ pc \in {"firmware_parse", "firmware_artifacts", "firmware_transcripts", "firmware_build"} =>
       Knows("archived", disk.build)
  /\ pc \in {"firmware_artifacts", "firmware_transcripts", "firmware_build"} =>
       Knows("build", disk.build) /\ disk.build.sound
  /\ pc \in {"firmware_transcripts", "firmware_build"} =>
       Knows("elf", disk.elf) /\ disk.elf = disk.build.elf
  /\ pc = "firmware_build" =>
       Knows("target", disk.program.target) /\ Knows("sections", disk.compare.ok)
  /\ pc \in {"firmware_build", "firmware_package", "firmware_evidence", "firmware_done"} =>
       FirmwareReady
  /\ pc \in {"firmware_package", "firmware_evidence"} =>
       Knows("package", BuiltFirmware.package) /\ Knows("evidence", BuiltFirmware)
  /\ pc \in {"firmware_evidence", "firmware_done"} => disk.firmware_package = BuiltFirmware.package
  /\ pc = "firmware_done" => disk.firmware_evidence = BuiltFirmware

BackpressureQuiet ==
  /\ pc \in {"backpressure_recorded", "backpressure_check", "backpressure_git",
             "backpressure_tools"} => Knows("capture", disk.capture)
  /\ pc \in {"backpressure_check", "backpressure_git", "backpressure_tools"} =>
       Knows("recorded", disk.recorded)
  /\ pc = "backpressure_tools" => Knows("git", disk.git)
  /\ pc \in {"backpressure_git", "backpressure_tools", "backpressure_package",
             "backpressure_evidence", "backpressure_hotplug", "backpressure_normalized",
             "backpressure_done"} => BackpressureReady
  /\ pc \in {"backpressure_package", "backpressure_evidence"} => Knows("package", BuiltBackpressure)
  /\ pc \in {"backpressure_evidence", "backpressure_hotplug", "backpressure_normalized"} =>
       disk.backpressure_package = BuiltBackpressure
  /\ pc = "backpressure_done" => disk.backpressure_package \in {BuiltBackpressure, NoFile}
  /\ pc \in {"backpressure_hotplug", "backpressure_normalized", "backpressure_done"} =>
       disk.backpressure_evidence = [package |-> BuiltBackpressure, manifest |-> BuiltBackpressure]
  /\ pc = "backpressure_normalized" => Knows("artifact", disk.hotplug_artifact)
  /\ pc = "backpressure_done" =>
       disk.hotplug_evidence = [record |-> disk.hotplug_artifact, source |-> disk.hotplug_artifact]

Packed(kind) ==
  /\ RunReady(kind) /\ disk.packages[kind] = BuiltRun(kind)
  /\ kind \in DOMAIN mem.manifests /\ mem.manifests[kind] = BuiltManifest(kind)

StatusBuilt ==
  /\ disk.status.firmware = disk.firmware_evidence
  /\ disk.status.backpressure = disk.backpressure_evidence
  /\ disk.status.hotplug = disk.hotplug_evidence
  /\ PackagedDocuments \subseteq DOMAIN disk.status.documents
  /\ \A name \in Documents \cap DOMAIN disk.status.documents :
       disk.status.documents[name] = disk.documents[name]
  /\ \A kind \in Kinds : disk.status.runs[kind] = [package |-> BuiltRun(kind),
                                                   manifest |-> BuiltManifest(kind)]

LoadQuiet ==
  /\ pc \in {"load_run", "load_package", "load_status"} =>
       /\ Knows("firmware", disk.firmware_evidence) /\ Knows("anchor", disk.anchor)
       /\ disk.anchor = disk.tool
       /\ \A k \in 1..mem.next - 1 : Packed(RunOrder[k])
  /\ pc = "load_package" => Knows("manifest", BuiltManifest(Kind)) /\ RunReady(Kind)
  /\ pc = "load_done" =>
       /\ StatusBuilt /\ disk.anchor = disk.tool
       /\ \A kind \in Kinds : RunReady(kind) /\ disk.packages[kind] \in {BuiltRun(kind), NoFile}

Quiet == ~touched => FirmwareQuiet /\ BackpressureQuiet /\ LoadQuiet

LEMMA FirmwareStepQuiet ==
  ASSUME Files, FirmwareQuiet, FirmwarePackager
  PROVE  FirmwareQuiet'
<1> USE DEF At, Go, Require
<1>1. CASE FirmwareReadManifest
  <2> DEFINE values == [archived |-> disk.build]
  <2>1. disk' = disk /\ pc' = "firmware_parse" /\ Remember(values)
    BY <1>1 DEF FirmwareReadManifest
  <2>2. DOMAIN values = {"archived"} /\ values["archived"] = disk.build
    OBVIOUS
  <2> HIDE DEF values
  <2>3. Knows("archived", disk.build)'
    BY <2>1, <2>2, Remembers DEF Knows
  <2>4. QED
    BY <2>1, <2>3 DEF FirmwareQuiet
<1>2. CASE FirmwareParseManifest
  <2> DEFINE values == [build |-> disk.build]
  <2>1. /\ disk' = disk /\ pc = "firmware_parse" /\ Remember(values)
        /\ IF disk.build.sound THEN pc' = "firmware_artifacts" ELSE pc' = "failed"
    BY <1>2 DEF FirmwareParseManifest
  <2>2. Knows("archived", disk.build)
    BY <2>1 DEF FirmwareQuiet
  <2>3. DOMAIN values = {"build"} /\ values["build"] = disk.build
    OBVIOUS
  <2> HIDE DEF values
  <2>4. Knows("archived", disk.build)' /\ Knows("build", disk.build)'
    BY <2>1, <2>2, <2>3, Remembers DEF Knows
  <2>5. QED
    BY <2>1, <2>4 DEF FirmwareQuiet
<1>3. CASE FirmwareReadArtifacts
  <2> DEFINE values == [elf |-> disk.elf]
  <2>1. /\ disk' = disk /\ pc = "firmware_artifacts" /\ Remember(values)
        /\ IF disk.elf = mem.build.elf THEN pc' = "firmware_transcripts" ELSE pc' = "failed"
    BY <1>3 DEF FirmwareReadArtifacts
  <2>2. Knows("archived", disk.build) /\ Knows("build", disk.build) /\ disk.build.sound
    BY <2>1 DEF FirmwareQuiet
  <2>3. DOMAIN values = {"elf"} /\ values["elf"] = disk.elf
    OBVIOUS
  <2> HIDE DEF values
  <2>4. Knows("archived", disk.build)' /\ Knows("build", disk.build)' /\ Knows("elf", disk.elf)'
    BY <2>1, <2>2, <2>3, Remembers DEF Knows
  <2>5. mem.build = disk.build
    BY <2>2 DEF Knows
  <2>6. QED
    BY <2>1, <2>2, <2>4, <2>5 DEF FirmwareQuiet
<1>4. CASE FirmwareReadTranscripts
  <2> DEFINE values == [target |-> disk.program.target, sections |-> disk.compare.ok]
  <2>1. /\ disk' = disk /\ pc = "firmware_transcripts" /\ Remember(values)
        /\ IF TranscriptsAgree(disk.program, disk.compare, mem.archived, mem.elf)
             THEN pc' = "firmware_build" ELSE pc' = "failed"
    BY <1>4 DEF FirmwareReadTranscripts
  <2>2. /\ Knows("archived", disk.build) /\ Knows("build", disk.build) /\ Knows("elf", disk.elf)
        /\ disk.build.sound /\ disk.elf = disk.build.elf
    BY <2>1 DEF FirmwareQuiet
  <2>3. /\ DOMAIN values = {"target", "sections"} /\ values["target"] = disk.program.target
        /\ values["sections"] = disk.compare.ok
    OBVIOUS
  <2> HIDE DEF values
  <2>4. /\ Knows("archived", disk.build)' /\ Knows("build", disk.build)' /\ Knows("elf", disk.elf)'
        /\ Knows("target", disk.program.target)' /\ Knows("sections", disk.compare.ok)'
    BY <2>1, <2>2, <2>3, Remembers DEF Knows
  <2>5. mem.archived = disk.build /\ mem.elf = disk.elf
    BY <2>2 DEF Knows
  <2>6. QED
    BY <2>1, <2>2, <2>4, <2>5 DEF FirmwareQuiet, FirmwareReady
<1>5. CASE FirmwareBuildOutputs
  <2> DEFINE package == FirmwareMembers(mem.build, mem.archived, mem.elf)
             evidence == [fields |-> mem.build, build |-> mem.archived, elf |-> mem.elf,
                          package |-> package, target |-> mem.target,
                          program |-> disk.program, compare |-> disk.compare,
                          sections |-> mem.sections]
             values == [package |-> package, evidence |-> evidence]
  <2>1. disk' = disk /\ pc = "firmware_build" /\ pc' = "firmware_package" /\ Remember(values)
    BY <1>5 DEF FirmwareBuildOutputs
  <2>2. /\ Knows("archived", disk.build) /\ Knows("build", disk.build) /\ Knows("elf", disk.elf)
        /\ Knows("target", disk.program.target) /\ Knows("sections", disk.compare.ok)
        /\ FirmwareReady
    BY <2>1 DEF FirmwareQuiet
  <2>3. package = BuiltFirmware.package /\ evidence = BuiltFirmware
    BY <2>2 DEF Knows, BuiltFirmware
  <2>4. /\ DOMAIN values = {"package", "evidence"} /\ values["package"] = package
        /\ values["evidence"] = evidence
    OBVIOUS
  <2> HIDE DEF values, package, evidence
  <2>5. Knows("package", BuiltFirmware.package)' /\ Knows("evidence", BuiltFirmware)'
    BY <2>1, <2>3, <2>4, Remembers DEF Knows, BuiltFirmware
  <2>6. FirmwareReady'
    BY <2>1, <2>2 DEF FirmwareReady
  <2>7. QED
    BY <2>1, <2>5, <2>6 DEF FirmwareQuiet
<1>6. CASE FirmwareReplacePackage
  <2>1. /\ disk' = [disk EXCEPT !["firmware_package"] = mem.package] /\ mem' = mem
        /\ pc = "firmware_package" /\ pc' = "firmware_evidence"
    BY <1>6 DEF FirmwareReplacePackage, Replace
  <2>2. /\ Knows("package", BuiltFirmware.package) /\ Knows("evidence", BuiltFirmware)
        /\ FirmwareReady
    BY <2>1 DEF FirmwareQuiet
  <2>3. BuiltFirmware' = BuiltFirmware /\ (FirmwareReady' <=> FirmwareReady)
    BY <2>1 DEF Files, Paths, BuiltFirmware, FirmwareReady
  <2>4. disk'["firmware_package"] = BuiltFirmware.package
    BY <2>1, <2>2 DEF Files, Paths, firmware_outputs, Knows
  <2>5. QED
    BY <2>1, <2>2, <2>3, <2>4 DEF FirmwareQuiet, Knows
<1>7. CASE FirmwareReplaceEvidence
  <2>1. /\ disk' = [disk EXCEPT !["firmware_evidence"] = mem.evidence] /\ mem' = mem
        /\ pc = "firmware_evidence" /\ pc' = "firmware_done"
    BY <1>7 DEF FirmwareReplaceEvidence, Replace
  <2>2. /\ Knows("evidence", BuiltFirmware) /\ FirmwareReady
        /\ disk.firmware_package = BuiltFirmware.package
    BY <2>1 DEF FirmwareQuiet
  <2>3. BuiltFirmware' = BuiltFirmware /\ (FirmwareReady' <=> FirmwareReady)
    BY <2>1, InputsAssumption DEF Files, Paths, BuiltFirmware, FirmwareReady
  <2>4. /\ disk'["firmware_evidence"] = BuiltFirmware
        /\ disk'["firmware_package"] = disk["firmware_package"]
    BY <2>1, <2>2 DEF Files, Paths, firmware_outputs, Knows
  <2>5. QED
    BY <2>1, <2>2, <2>3, <2>4 DEF FirmwareQuiet
<1>8. QED
  BY <1>1, <1>2, <1>3, <1>4, <1>5, <1>6, <1>7 DEF FirmwarePackager

LEMMA BackpressureStepQuiet ==
  ASSUME Files, BackpressureQuiet, BackpressurePackager
  PROVE  BackpressureQuiet'
<1> USE DEF At, Go, Require
<1>1. CASE BackpressureReadRun
  <2> DEFINE values == [capture |-> disk.capture]
  <2>1. disk' = disk /\ pc' = "backpressure_recorded" /\ Remember(values)
    BY <1>1 DEF BackpressureReadRun
  <2>2. DOMAIN values = {"capture"} /\ values["capture"] = disk.capture
    OBVIOUS
  <2> HIDE DEF values
  <2>3. Knows("capture", disk.capture)'
    BY <2>1, <2>2, Remembers DEF Knows
  <2>4. QED
    BY <2>1, <2>3 DEF BackpressureQuiet
<1>2. CASE BackpressureReadRecorded
  <2> DEFINE values == [recorded |-> disk.recorded]
  <2>1. /\ disk' = disk /\ pc = "backpressure_recorded" /\ pc' = "backpressure_check"
        /\ Remember(values)
    BY <1>2 DEF BackpressureReadRecorded
  <2>2. Knows("capture", disk.capture)
    BY <2>1 DEF BackpressureQuiet
  <2>3. DOMAIN values = {"recorded"} /\ values["recorded"] = disk.recorded
    OBVIOUS
  <2> HIDE DEF values
  <2>4. Knows("capture", disk.capture)' /\ Knows("recorded", disk.recorded)'
    BY <2>1, <2>2, <2>3, Remembers DEF Knows
  <2>5. QED
    BY <2>1, <2>4 DEF BackpressureQuiet
<1>3. CASE BackpressureCheckRun
  <2>1. /\ disk' = disk /\ mem' = mem /\ pc = "backpressure_check"
        /\ IF /\ ~mem.capture.data.drops /\ mem.capture.paused
              /\ PartialReconciliation(mem.recorded) /\ SummaryAgrees(mem.capture, mem.recorded)
             THEN pc' = "backpressure_git" ELSE pc' = "failed"
    BY <1>3 DEF BackpressureCheckRun
  <2>2. Knows("capture", disk.capture) /\ Knows("recorded", disk.recorded)
    BY <2>1 DEF BackpressureQuiet
  <2>3. pc' = "backpressure_git" => BackpressureReady
    BY <2>1, <2>2 DEF Knows, BackpressureReady
  <2>4. /\ Knows("capture", disk.capture)' /\ Knows("recorded", disk.recorded)'
        /\ BackpressureReady' <=> BackpressureReady
    BY <2>1, <2>2 DEF Knows, BackpressureReady
  <2>5. QED
    BY <2>1, <2>3, <2>4 DEF BackpressureQuiet
<1>4. CASE BackpressureReadGit
  <2> DEFINE values == [git |-> disk.git]
  <2>1. /\ disk' = disk /\ pc = "backpressure_git" /\ pc' = "backpressure_tools"
        /\ Remember(values)
    BY <1>4 DEF BackpressureReadGit
  <2>2. /\ Knows("capture", disk.capture) /\ Knows("recorded", disk.recorded)
        /\ BackpressureReady
    BY <2>1 DEF BackpressureQuiet
  <2>3. DOMAIN values = {"git"} /\ values["git"] = disk.git
    OBVIOUS
  <2> HIDE DEF values
  <2>4. /\ Knows("capture", disk.capture)' /\ Knows("recorded", disk.recorded)'
        /\ Knows("git", disk.git)'
    BY <2>1, <2>2, <2>3, Remembers DEF Knows
  <2>5. BackpressureReady'
    BY <2>1, <2>2 DEF BackpressureReady
  <2>6. QED
    BY <2>1, <2>4, <2>5 DEF BackpressureQuiet
<1>5. CASE BackpressureReadTools
  <2> DEFINE package == [capture |-> mem.capture, recorded |-> mem.recorded, git |-> mem.git,
                         tool |-> disk.tool, reconciler |-> disk.reconciler,
                         firmware |-> disk.firmware_evidence]
             values == [package |-> package]
  <2>1. /\ disk' = disk /\ pc = "backpressure_tools" /\ pc' = "backpressure_package"
        /\ Remember(values)
    BY <1>5 DEF BackpressureReadTools
  <2>2. /\ Knows("capture", disk.capture) /\ Knows("recorded", disk.recorded)
        /\ Knows("git", disk.git) /\ BackpressureReady
    BY <2>1 DEF BackpressureQuiet
  <2>3. package = BuiltBackpressure
    BY <2>2 DEF Knows, BuiltBackpressure
  <2>4. DOMAIN values = {"package"} /\ values["package"] = package
    OBVIOUS
  <2> HIDE DEF values, package
  <2>5. Knows("package", BuiltBackpressure)'
    BY <2>1, <2>3, <2>4, Remembers DEF Knows, BuiltBackpressure
  <2>6. BackpressureReady'
    BY <2>1, <2>2 DEF BackpressureReady
  <2>7. QED
    BY <2>1, <2>5, <2>6 DEF BackpressureQuiet
<1>6. CASE BackpressureWritePackage
  <2>1. /\ disk' = [disk EXCEPT !["backpressure_package"] = mem.package] /\ mem' = mem
        /\ pc = "backpressure_package" /\ pc' = "backpressure_evidence"
    BY <1>6 DEF BackpressureWritePackage, Replace
  <2>2. Knows("package", BuiltBackpressure) /\ BackpressureReady
    BY <2>1 DEF BackpressureQuiet
  <2>3. BuiltBackpressure' = BuiltBackpressure /\ (BackpressureReady' <=> BackpressureReady)
    BY <2>1 DEF Files, Paths, BuiltBackpressure, BackpressureReady
  <2>4. disk'["backpressure_package"] = BuiltBackpressure
    BY <2>1, <2>2 DEF Files, Paths, backpressure_outputs, Knows
  <2>5. QED
    BY <2>1, <2>2, <2>3, <2>4 DEF BackpressureQuiet, Knows
<1>7. CASE BackpressureWriteEvidence
  <2> DEFINE evidence == [package |-> disk.backpressure_package, manifest |-> mem.package]
  <2>1. /\ disk' = [disk EXCEPT !["backpressure_evidence"] = evidence]
        /\ pc = "backpressure_evidence" /\ pc' = "backpressure_hotplug"
    BY <1>7 DEF BackpressureWriteEvidence, Replace
  <2>2. /\ Knows("package", BuiltBackpressure) /\ BackpressureReady
        /\ disk.backpressure_package = BuiltBackpressure
    BY <2>1 DEF BackpressureQuiet
  <2>3. BuiltBackpressure' = BuiltBackpressure /\ (BackpressureReady' <=> BackpressureReady)
    BY <2>1 DEF Files, Paths, BuiltBackpressure, BackpressureReady
  <2>4. /\ disk'["backpressure_evidence"]
             = [package |-> BuiltBackpressure, manifest |-> BuiltBackpressure]
        /\ disk'["backpressure_package"] = disk["backpressure_package"]
    BY <2>1, <2>2 DEF Files, Paths, backpressure_outputs, Knows
  <2>5. QED
    BY <2>1, <2>2, <2>3, <2>4 DEF BackpressureQuiet
<1>8. CASE NormalizeHotplug
  <2> DEFINE values == [artifact |-> disk.hotplug_artifact]
  <2>1. /\ disk' = disk /\ pc = "backpressure_hotplug" /\ Remember(values)
        /\ pc' \in {"backpressure_normalized", "failed"}
    BY <1>8 DEF NormalizeHotplug
  <2>2. /\ BackpressureReady /\ disk.backpressure_package = BuiltBackpressure
        /\ disk.backpressure_evidence
             = [package |-> BuiltBackpressure, manifest |-> BuiltBackpressure]
    BY <2>1 DEF BackpressureQuiet
  <2>3. DOMAIN values = {"artifact"} /\ values["artifact"] = disk.hotplug_artifact
    OBVIOUS
  <2> HIDE DEF values
  <2>4. Knows("artifact", disk.hotplug_artifact)'
    BY <2>1, <2>3, Remembers DEF Knows
  <2>5. BuiltBackpressure' = BuiltBackpressure /\ (BackpressureReady' <=> BackpressureReady)
    BY <2>1 DEF BuiltBackpressure, BackpressureReady
  <2>6. QED
    BY <2>1, <2>2, <2>4, <2>5 DEF BackpressureQuiet
<1>9. CASE WriteHotplugEvidence
  <2> DEFINE evidence == [record |-> mem.artifact, source |-> disk.hotplug_artifact]
  <2>1. /\ disk' = [disk EXCEPT !["hotplug_evidence"] = evidence]
        /\ pc = "backpressure_normalized" /\ pc' = "backpressure_done"
    BY <1>9 DEF WriteHotplugEvidence, Replace
  <2>2. /\ BackpressureReady /\ disk.backpressure_package = BuiltBackpressure
        /\ disk.backpressure_evidence
             = [package |-> BuiltBackpressure, manifest |-> BuiltBackpressure]
        /\ Knows("artifact", disk.hotplug_artifact)
    BY <2>1 DEF BackpressureQuiet
  <2>3. BuiltBackpressure' = BuiltBackpressure /\ (BackpressureReady' <=> BackpressureReady)
    BY <2>1 DEF Files, Paths, BuiltBackpressure, BackpressureReady
  <2>4. /\ disk'["hotplug_evidence"]
             = [record |-> disk.hotplug_artifact, source |-> disk.hotplug_artifact]
        /\ disk'["hotplug_artifact"] = disk["hotplug_artifact"]
        /\ disk'["backpressure_package"] = disk["backpressure_package"]
        /\ disk'["backpressure_evidence"] = disk["backpressure_evidence"]
    BY <2>1, <2>2, InputsAssumption DEF Files, Paths, backpressure_outputs, Knows
  <2>5. QED
    BY <2>1, <2>2, <2>3, <2>4 DEF BackpressureQuiet
<1>10. QED
  BY <1>1, <1>2, <1>3, <1>4, <1>5, <1>6, <1>7, <1>8, <1>9 DEF BackpressurePackager

(* What a load packager has built does not depend on the packages or the    *)
(* status.                                                                  *)
LEMMA SameBuilt ==
  ASSUME \A path \in DOMAIN Inputs \cup {"firmware_evidence"} : disk'[path] = disk[path]
  PROVE  /\ \A kind \in Kinds : BuiltManifest(kind)' = BuiltManifest(kind)
         /\ \A kind \in Kinds : BuiltRun(kind)' = BuiltRun(kind)
         /\ \A kind \in Kinds : RunReady(kind)' <=> RunReady(kind)
<1>1. /\ disk'["runs"] = disk["runs"] /\ disk'["firmware_evidence"] = disk["firmware_evidence"]
      /\ disk'["anchor"] = disk["anchor"] /\ disk'["tool"] = disk["tool"]
      /\ disk'["documents"] = disk["documents"]
  BY InputsAssumption
<1>2. \A kind \in Kinds : BuiltManifest(kind)' = BuiltManifest(kind)
  BY <1>1 DEF BuiltManifest
<1>3. \A kind \in Kinds : BuiltRun(kind)' = BuiltRun(kind)
  BY <1>1, <1>2 DEF BuiltRun
<1>4. \A kind \in Kinds : RunReady(kind)' <=> RunReady(kind)
  BY <1>1 DEF RunReady
<1>5. QED
  BY <1>2, <1>3, <1>4

LEMMA LoadInputsQuiet ==
  ASSUME Files, LoadInputs
  PROVE  LoadQuiet'
<1> DEFINE values == [firmware |-> disk.firmware_evidence, anchor |-> disk.anchor,
                      manifests |-> [kind \in {} |-> NoFile], next |-> 1]
<1>1. /\ disk' = disk /\ Remember(values)
      /\ pc' = "failed" \/ (pc' = "load_run" /\ disk.anchor = disk.tool)
  BY DEF LoadInputs, Require, Go
<1>2. /\ DOMAIN values = {"firmware", "anchor", "manifests", "next"} /\ values["next"] = 1
      /\ values["firmware"] = disk.firmware_evidence /\ values["anchor"] = disk.anchor
  OBVIOUS
<1> HIDE DEF values
<1>3. /\ Knows("firmware", disk.firmware_evidence)' /\ Knows("anchor", disk.anchor)'
      /\ mem'["next"] = 1
  BY <1>1, <1>2, Remembers DEF Knows
<1>4. QED
  BY <1>1, <1>3 DEF LoadQuiet

LEMMA LoadReadRunQuiet ==
  ASSUME Files, OneFirmware, LoadQuiet, LoadReadRun
  PROVE  LoadQuiet'
<1> DEFINE run == disk.runs[Kind]
           frames == analyze_frames(run.frames)
           values == [manifest |-> make_run_manifest(run, frames)]
<1>1. /\ disk' = disk /\ pc = "load_run" /\ Remember(values)
      /\ pc' = "failed" \/ (pc' = "load_package" /\ LoadRun(run, frames) /\ ValidRun(Kind, run.summary))
  BY DEF LoadReadRun, Require, Go, At
<1>2. /\ {"firmware", "manifests", "next"} \subseteq DOMAIN mem /\ mem.next \in 1..3
      /\ Knows("firmware", disk.firmware_evidence) /\ Knows("anchor", disk.anchor)
      /\ disk.anchor = disk.tool /\ \A k \in 1..mem.next - 1 : Packed(RunOrder[k])
  BY <1>1 DEF OneFirmware, LoadQuiet
<1>3. DOMAIN values = {"manifest"} /\ values["manifest"] = BuiltManifest(Kind)
  BY <1>2 DEF make_run_manifest, BuiltManifest, Knows
<1> HIDE DEF values
<1>4. /\ mem'["next"] = mem["next"] /\ mem'["manifests"] = mem["manifests"]
      /\ Knows("firmware", disk.firmware_evidence)' /\ Knows("anchor", disk.anchor)'
      /\ "manifest" \in DOMAIN mem' /\ mem'["manifest"] = BuiltManifest(Kind)
  BY <1>1, <1>2, <1>3, Remembers DEF Knows
<1>5. Kind' = Kind /\ Kind \in Kinds
  BY <1>2, <1>4, Ordered DEF Kind
<1>6. /\ \A kind \in Kinds : BuiltManifest(kind)' = BuiltManifest(kind)
      /\ \A kind \in Kinds : BuiltRun(kind)' = BuiltRun(kind)
      /\ \A kind \in Kinds : RunReady(kind)' <=> RunReady(kind)
  BY <1>1, SameBuilt
<1>7. Knows("manifest", BuiltManifest(Kind))'
  BY <1>4, <1>5, <1>6 DEF Knows
<1>8. pc' = "load_package" => RunReady(Kind)'
  BY <1>1, <1>5, <1>6 DEF RunReady
<1>9. \A k \in 1..mem.next - 1 : RunOrder[k] \in Kinds
  BY <1>2, Ordered
<1>10. \A k \in 1..mem.next - 1 : Packed(RunOrder[k])'
  BY <1>1, <1>2, <1>4, <1>6, <1>9 DEF Packed
<1>11. QED
  BY <1>1, <1>2, <1>4, <1>7, <1>8, <1>10 DEF LoadQuiet

LEMMA LoadWritePackageQuiet ==
  ASSUME Files, OneFirmware, LoadQuiet, LoadWritePackage
  PROVE  LoadQuiet'
<1> DEFINE manifests == Overlay([kind \in {Kind} |-> mem.manifest], mem.manifests)
           values == [manifests |-> manifests, next |-> mem.next + 1]
<1>1. /\ pc = "load_package" /\ pc' \in {"load_run", "load_status"} /\ Remember(values)
      /\ disk' = [disk EXCEPT !.packages[Kind] = LoadMembers(Kind)]
  BY DEF LoadWritePackage, Go, At
<1>2. /\ {"firmware", "manifests", "next"} \subseteq DOMAIN mem /\ mem.next \in 1..3
      /\ Knows("firmware", disk.firmware_evidence) /\ Knows("anchor", disk.anchor)
      /\ disk.anchor = disk.tool /\ \A k \in 1..mem.next - 1 : Packed(RunOrder[k])
      /\ Knows("manifest", BuiltManifest(Kind)) /\ RunReady(Kind)
  BY <1>1 DEF OneFirmware, LoadQuiet
<1>3. Kind \in Kinds /\ Kind = RunOrder[mem.next]
  BY <1>2, Ordered DEF Kind
<1>4. LoadMembers(Kind) = BuiltRun(Kind)
  BY <1>2 DEF LoadMembers, BuiltRun, QualifiedMembers, Knows, BuiltManifest
<1>5. /\ DOMAIN values = {"manifests", "next"} /\ values["next"] = mem.next + 1
      /\ values["manifests"] = manifests
  OBVIOUS
<1>6. /\ manifests[Kind] = BuiltManifest(Kind) /\ DOMAIN manifests = {Kind} \cup DOMAIN mem.manifests
      /\ \A kind \in DOMAIN mem.manifests \ {Kind} : manifests[kind] = mem.manifests[kind]
  BY <1>2 DEF Overlay, Knows
<1> HIDE DEF values, manifests
<1>7. /\ mem'["next"] = mem.next + 1 /\ mem'["manifests"] = manifests
      /\ Knows("firmware", disk.firmware_evidence)
      /\ "firmware" \in DOMAIN mem' /\ mem'["firmware"] = disk.firmware_evidence
      /\ "anchor" \in DOMAIN mem' /\ mem'["anchor"] = disk.anchor
  BY <1>1, <1>2, <1>5, Remembers DEF Knows
<1>8. \A path \in Paths \ {"packages"} : disk'[path] = disk[path]
  BY <1>1 DEF Files
<1>9. \A path \in DOMAIN Inputs \cup {"firmware_evidence"} : disk'[path] = disk[path]
  BY <1>8, InputsAssumption DEF Paths, firmware_outputs
<1>10. /\ \A kind \in Kinds : BuiltManifest(kind)' = BuiltManifest(kind)
       /\ \A kind \in Kinds : BuiltRun(kind)' = BuiltRun(kind)
       /\ \A kind \in Kinds : RunReady(kind)' <=> RunReady(kind)
  BY <1>9, SameBuilt
<1>11. /\ disk'["packages"] = [disk.packages EXCEPT ![Kind] = LoadMembers(Kind)]
       /\ disk'["anchor"] = disk["anchor"] /\ disk'["tool"] = disk["tool"]
       /\ disk'["firmware_evidence"] = disk["firmware_evidence"]
  BY <1>1, <1>9, InputsAssumption DEF Files, Paths
<1>12. ASSUME NEW k \in 1..mem.next PROVE Packed(RunOrder[k])'
  <2>1. RunOrder[k] \in Kinds
    BY <1>2, Ordered
  <2>2. CASE RunOrder[k] = Kind
    <3>1. disk'["packages"][Kind] = BuiltRun(Kind)
      BY <1>3, <1>4, <1>11 DEF Files
    <3>2. QED
      BY <1>2, <1>3, <1>6, <1>7, <1>10, <2>2, <3>1 DEF Packed
  <2>3. CASE RunOrder[k] # Kind
    <3>1. k \in 1..mem.next - 1
      BY <1>2, <1>3, <2>3
    <3>2. Packed(RunOrder[k])
      BY <1>2, <3>1
    <3>3. disk'["packages"][RunOrder[k]] = disk["packages"][RunOrder[k]]
      BY <1>11, <2>1, <2>3 DEF Files
    <3>4. QED
      BY <3>2, <3>3, <1>6, <1>7, <1>10, <2>1, <2>3 DEF Packed
  <2>4. QED
    BY <2>2, <2>3
<1>13. \A k \in 1..mem'["next"] - 1 : Packed(RunOrder[k])'
  BY <1>2, <1>7, <1>12
<1>14. QED
  BY <1>1, <1>2, <1>7, <1>11, <1>13 DEF LoadQuiet, Knows

LEMMA LoadWriteStatusQuiet ==
  ASSUME Files, OneFirmware, LoadQuiet, LoadWriteStatus
  PROVE  LoadQuiet'
<1>1. pc = "load_status" /\ pc' = "load_done" /\ disk' = [disk EXCEPT !["status"] = LoadStatus]
  BY DEF LoadWriteStatus, At, Go, Replace
<1>2. \A path \in Paths \ {"status"} : disk'[path] = disk[path]
  BY <1>1 DEF Files
<1>3. \A path \in DOMAIN Inputs \cup {"firmware_evidence"} : disk'[path] = disk[path]
  BY <1>2, InputsAssumption DEF Paths, firmware_outputs
<1>4. /\ \A kind \in Kinds : BuiltManifest(kind)' = BuiltManifest(kind)
      /\ \A kind \in Kinds : BuiltRun(kind)' = BuiltRun(kind)
      /\ \A kind \in Kinds : RunReady(kind)' <=> RunReady(kind)
  BY <1>3, SameBuilt
<1>5. /\ disk'["status"] = LoadStatus /\ disk'["packages"] = disk["packages"]
      /\ disk'["anchor"] = disk["anchor"] /\ disk'["tool"] = disk["tool"]
      /\ disk'["documents"] = disk["documents"]
      /\ disk'["firmware_evidence"] = disk["firmware_evidence"]
      /\ disk'["backpressure_evidence"] = disk["backpressure_evidence"]
      /\ disk'["hotplug_evidence"] = disk["hotplug_evidence"]
  BY <1>1, InputsAssumption DEF Files, Paths, firmware_outputs, backpressure_outputs
<1>6. mem.firmware = disk.firmware_evidence /\ disk.anchor = disk.tool
  BY <1>1 DEF LoadQuiet, Knows
<1>7. ASSUME NEW kind \in Kinds PROVE Packed(kind)
  <2>1. PICK k \in 1..3 : RunOrder[k] = kind
    BY Ordered
  <2>2. QED
    BY <1>1, <2>1 DEF OneFirmware, LoadQuiet
<1>8. ASSUME NEW kind \in Kinds
      PROVE  LoadStatus.runs[kind] = [package |-> BuiltRun(kind), manifest |-> BuiltManifest(kind)]
  BY <1>7 DEF LoadStatus, Packed
<1>9. StatusBuilt'
  <2>1. LoadStatus.documents = [name \in PackagedDocuments |-> disk.documents[name]]
    BY DEF LoadStatus
  <2>2. LoadStatus.firmware = mem.firmware /\ LoadStatus.backpressure = disk.backpressure_evidence
          /\ LoadStatus.hotplug = disk.hotplug_evidence
    BY DEF LoadStatus
  <2>3. \A kind \in Kinds :
          LoadStatus.runs[kind] = [package |-> BuiltRun(kind)', manifest |-> BuiltManifest(kind)']
    BY <1>4, <1>8
  <2> HIDE DEF LoadStatus
  <2>4. QED
    BY <1>5, <1>6, <2>1, <2>2, <2>3 DEF StatusBuilt
<1>10. \A kind \in Kinds : RunReady(kind)' /\ disk'["packages"][kind] = BuiltRun(kind)'
  BY <1>4, <1>5, <1>7 DEF Packed
<1>11. QED
  BY <1>1, <1>5, <1>6, <1>9, <1>10 DEF LoadQuiet

(* Between two packagers the files of the last one stay as it left them,    *)
(* except for what a checkout removes and what an amendment adds.           *)
LEMMA QuietBetween ==
  ASSUME Files, FirmwareQuiet, BackpressureQuiet, LoadQuiet, pc \in Ended, pc' = pc,
         \A path \in Paths \ {"packages", "backpressure_package", "status", "index"} :
           disk'[path] = disk[path],
         disk'["backpressure_package"] \in {disk["backpressure_package"], NoFile},
         \A kind \in Kinds : disk'["packages"][kind] \in {disk["packages"][kind], NoFile},
         disk'["status"] = disk["status"] \/ Amend
  PROVE  FirmwareQuiet' /\ BackpressureQuiet' /\ LoadQuiet'
<1>1. \A path \in DOMAIN Inputs \cup {"firmware_evidence"} : disk'[path] = disk[path]
  BY InputsAssumption DEF Paths, firmware_outputs
<1>2. /\ disk'["build"] = disk["build"] /\ disk'["elf"] = disk["elf"]
      /\ disk'["program"] = disk["program"] /\ disk'["compare"] = disk["compare"]
      /\ disk'["firmware_package"] = disk["firmware_package"]
      /\ disk'["firmware_evidence"] = disk["firmware_evidence"]
  BY <1>1, InputsAssumption DEF Paths, firmware_outputs
<1>3. FirmwareQuiet'
  <2>1. BuiltFirmware' = BuiltFirmware /\ (FirmwareReady' <=> FirmwareReady)
    BY <1>2 DEF BuiltFirmware, FirmwareReady
  <2>2. QED
    BY <1>2, <2>1 DEF FirmwareQuiet, Ended
<1>4. /\ disk'["capture"] = disk["capture"] /\ disk'["recorded"] = disk["recorded"]
      /\ disk'["git"] = disk["git"] /\ disk'["tool"] = disk["tool"]
      /\ disk'["reconciler"] = disk["reconciler"] /\ disk'["anchor"] = disk["anchor"]
      /\ disk'["hotplug_artifact"] = disk["hotplug_artifact"]
      /\ disk'["documents"] = disk["documents"]
      /\ disk'["hotplug_evidence"] = disk["hotplug_evidence"]
      /\ disk'["backpressure_evidence"] = disk["backpressure_evidence"]
  BY <1>1, InputsAssumption DEF Paths, backpressure_outputs
<1>5. BackpressureQuiet'
  <2>1. BuiltBackpressure' = BuiltBackpressure /\ (BackpressureReady' <=> BackpressureReady)
    BY <1>2, <1>4 DEF BuiltBackpressure, BackpressureReady
  <2>2. QED
    BY <1>4, <2>1 DEF BackpressureQuiet, Ended
<1>6. ASSUME pc = "load_done" PROVE StatusBuilt'
  <2>1. StatusBuilt
    BY <1>6 DEF LoadQuiet
  <2>2. /\ \A kind \in Kinds : BuiltManifest(kind)' = BuiltManifest(kind)
        /\ \A kind \in Kinds : BuiltRun(kind)' = BuiltRun(kind)
    BY <1>1, SameBuilt
  <2>3. CASE disk'["status"] = disk["status"]
    BY <1>2, <1>4, <2>1, <2>2, <2>3 DEF StatusBuilt
  <2>4. CASE AmendDocuments
    <3> DEFINE added == [name \in AmendedDocuments |-> disk.documents[name]]
               documents == Overlay(added, disk.status.documents)
    <3>1. disk'["status"] = [disk.status EXCEPT !.documents = documents]
      BY <2>4 DEF AmendDocuments, Files, Paths
    <3>2. /\ DOMAIN documents = AmendedDocuments \cup DOMAIN disk.status.documents
          /\ \A name \in AmendedDocuments : documents[name] = disk.documents[name]
          /\ \A name \in DOMAIN disk.status.documents \ AmendedDocuments :
               documents[name] = disk.status.documents[name]
      BY DEF Overlay
    <3> HIDE DEF documents, added
    <3>3. /\ disk'["status"].documents = documents
          /\ disk'["status"].firmware = disk.status.firmware
          /\ disk'["status"].backpressure = disk.status.backpressure
          /\ disk'["status"].hotplug = disk.status.hotplug
          /\ disk'["status"].runs = disk.status.runs
      BY <3>1 DEF Files
    <3>4. \A name \in Documents \cap DOMAIN documents : documents[name] = disk.documents[name]
      BY <2>1, <3>2 DEF StatusBuilt
    <3>5. PackagedDocuments \subseteq DOMAIN documents
      BY <2>1, <3>2 DEF StatusBuilt
    <3>6. QED
      BY <1>2, <1>4, <2>1, <2>2, <3>3, <3>4, <3>5 DEF StatusBuilt
  <2>5. CASE AmendTexts
    <3>1. disk'["status"] = [disk.status EXCEPT !.texts = AmendedTexts]
      BY <2>5 DEF AmendTexts, Files, Paths
    <3>2. /\ disk'["status"].documents = disk.status.documents
          /\ disk'["status"].firmware = disk.status.firmware
          /\ disk'["status"].backpressure = disk.status.backpressure
          /\ disk'["status"].hotplug = disk.status.hotplug
          /\ disk'["status"].runs = disk.status.runs
      BY <3>1 DEF Files
    <3>3. QED
      BY <1>2, <1>4, <2>1, <2>2, <3>2 DEF StatusBuilt
  <2>6. QED
    BY <2>3, <2>4, <2>5 DEF Amend
<1>7. LoadQuiet'
  <2>1. ASSUME pc = "load_done", NEW kind \in Kinds
        PROVE  RunReady(kind)' /\ disk'["packages"][kind] \in {BuiltRun(kind)', NoFile}
    <3>1. RunReady(kind) /\ disk["packages"][kind] \in {BuiltRun(kind), NoFile}
      BY <2>1 DEF LoadQuiet
    <3>2. BuiltRun(kind)' = BuiltRun(kind) /\ (RunReady(kind)' <=> RunReady(kind))
      BY <1>1, SameBuilt
    <3>3. QED
      BY <3>1, <3>2
  <2>2. QED
    BY <1>4, <1>6, <2>1 DEF LoadQuiet, Ended
<1>8. QED
  BY <1>3, <1>5, <1>7

LEMMA QuietKept ==
  ASSUME Files, OneFirmware, Quiet, [Next]_vars
  PROVE  Quiet'
<1> SUFFICES ASSUME ~touched' PROVE FirmwareQuiet' /\ BackpressureQuiet' /\ LoadQuiet'
  BY DEF Quiet
<1>1. CASE UNCHANGED vars
  BY <1>1 DEF vars, Quiet, FirmwareQuiet, BackpressureQuiet, LoadQuiet, Knows, BuiltFirmware,
              BuiltBackpressure, BuiltManifest, BuiltRun, FirmwareReady, BackpressureReady,
              RunReady, Packed, StatusBuilt, Kind
<1>2. ASSUME NEW program \in {"firmware_start", "backpressure_start", "load_start"}, Start(program)
      PROVE  FirmwareQuiet' /\ BackpressureQuiet' /\ LoadQuiet'
  <2>1. pc' \in {"firmware_start", "backpressure_start", "load_start"}
    BY <1>2 DEF Start, Go
  <2>2. QED
    BY <2>1 DEF FirmwareQuiet, BackpressureQuiet, LoadQuiet
<1>3. ASSUME Packager PROVE FirmwareQuiet /\ BackpressureQuiet /\ LoadQuiet
  BY <1>3 DEF Packager, counters, Quiet
<1>4. /\ pc' \notin FirmwareSteps => FirmwareQuiet'
      /\ pc' \notin BackpressureSteps => BackpressureQuiet'
      /\ pc' \notin LoadSteps => LoadQuiet'
  BY DEF FirmwareSteps, BackpressureSteps, LoadSteps, FirmwareQuiet, BackpressureQuiet, LoadQuiet
<1>5. CASE Packager /\ FirmwarePackager
  <2>1. FirmwareQuiet'
    BY <1>3, <1>5, FirmwareStepQuiet
  <2>2. pc' \notin BackpressureSteps /\ pc' \notin LoadSteps
    BY <1>5, StepsMove DEF FirmwareSteps, BackpressureSteps, LoadSteps
  <2>3. QED
    BY <1>4, <2>1, <2>2
<1>6. CASE Packager /\ BackpressurePackager
  <2>1. BackpressureQuiet'
    BY <1>3, <1>6, BackpressureStepQuiet
  <2>2. pc' \notin FirmwareSteps /\ pc' \notin LoadSteps
    BY <1>6, StepsMove DEF FirmwareSteps, BackpressureSteps, LoadSteps
  <2>3. QED
    BY <1>4, <2>1, <2>2
<1>7. CASE Packager /\ LoadPackager
  <2>1. LoadQuiet'
    BY <1>3, <1>7, LoadInputsQuiet, LoadReadRunQuiet, LoadWritePackageQuiet, LoadWriteStatusQuiet
       DEF LoadPackager
  <2>2. pc' \notin FirmwareSteps /\ pc' \notin BackpressureSteps
    BY <1>7, StepsMove DEF FirmwareSteps, BackpressureSteps, LoadSteps
  <2>3. QED
    BY <1>4, <2>1, <2>2
<1>8. CASE Crash
  BY <1>4, <1>8 DEF Crash, Go, FirmwareSteps, BackpressureSteps, LoadSteps
<1>9. CASE Amend
  <2>1. \A path \in Paths \ {"status"} : disk'[path] = disk[path]
    BY <1>9 DEF Amend, AmendDocuments, AmendTexts, Files
  <2>2. disk'["packages"] = disk["packages"]
          /\ disk'["backpressure_package"] = disk["backpressure_package"]
    BY <2>1 DEF Paths, backpressure_outputs
  <2>3. pc \in Ended /\ pc' = pc /\ FirmwareQuiet /\ BackpressureQuiet /\ LoadQuiet
    BY <1>9 DEF Amend, AmendDocuments, AmendTexts, counters, Quiet
  <2>4. QED
    BY <1>9, <2>1, <2>2, <2>3, QuietBetween
<1>10. CASE Checkout
  <2>1. \A path \in Paths \ {"packages", "backpressure_package"} : disk'[path] = disk[path]
    BY <1>10 DEF Checkout, Files
  <2>2. /\ disk'["packages"] = [kind \in Kinds |-> NoFile]
        /\ disk'["backpressure_package"] = NoFile
    BY <1>10 DEF Checkout, Files, Paths, backpressure_outputs
  <2>3. pc \in Ended /\ pc' = pc /\ FirmwareQuiet /\ BackpressureQuiet /\ LoadQuiet
    BY <1>10 DEF Checkout, counters, Quiet
  <2>4. disk'["status"] = disk["status"]
    BY <2>1 DEF Paths
  <2>5. QED
    BY <2>1, <2>2, <2>3, <2>4, QuietBetween
<1>11. CASE ArchiveAny
  <2>1. /\ \A path \in Paths \ {"index"} : disk'[path] = disk[path]
        /\ pc \in Ended /\ pc' = pc /\ FirmwareQuiet /\ BackpressureQuiet /\ LoadQuiet
    BY <1>11 DEF ArchiveAny, Archive, ArchiveBeside, Files, counters, Quiet
  <2>2. /\ disk'["packages"] = disk["packages"] /\ disk'["status"] = disk["status"]
        /\ disk'["backpressure_package"] = disk["backpressure_package"]
    BY <2>1 DEF Paths, backpressure_outputs
  <2>3. QED
    BY <2>1, <2>2, QuietBetween
<1>12. ASSUME NEW files \in Edits, Edit(files) PROVE FALSE
  BY <1>12 DEF Edit
<1>13. QED
  BY <1>1, <1>2, <1>5, <1>6, <1>7, <1>8, <1>9, <1>10, <1>11, <1>12 DEF Next, Packager

-----------------------------------------------------------------------------
(* What the packagers write is accepted.                                    *)

LEMMA WrittenExists ==
  /\ BuiltFirmware # NoFile /\ BuiltFirmware.package # NoFile /\ BuiltBackpressure # NoFile
  /\ [package |-> BuiltBackpressure, manifest |-> BuiltBackpressure] # NoFile
  /\ \A kind \in Kinds : BuiltRun(kind) # NoFile
<1> DEFINE paired == [package |-> BuiltBackpressure, manifest |-> BuiltBackpressure]
<1>1. DOMAIN NoFile = {"absent"}
  BY DEF NoFile
<1>2. "fields" \in DOMAIN BuiltFirmware /\ "absent" \notin DOMAIN BuiltFirmware
  BY DEF BuiltFirmware
<1>3. "absent" \notin DOMAIN BuiltFirmware.package
  BY DEF BuiltFirmware, FirmwareMembers
<1>4. "absent" \notin DOMAIN BuiltBackpressure
  BY DEF BuiltBackpressure
<1>5. "absent" \notin DOMAIN paired
  OBVIOUS
<1>6. \A kind \in Kinds : "absent" \notin DOMAIN BuiltRun(kind)
  BY DEF BuiltRun
<1>7. QED
  BY <1>1, <1>2, <1>3, <1>4, <1>5, <1>6

LEMMA BuiltFirmwareAccepted ==
  ASSUME FirmwareReady, disk.firmware_evidence = BuiltFirmware,
         disk.firmware_package = BuiltFirmware.package, disk.program.target = KnownTarget
  PROVE  FirmwareAccepted
<1> DEFINE evidence == disk.firmware_evidence
<1>1. /\ evidence.fields = disk.build /\ evidence.build = disk.build /\ evidence.elf = disk.elf
      /\ evidence.package = disk.firmware_package /\ evidence.target = KnownTarget
      /\ evidence.program = disk.program /\ evidence.compare = disk.compare
      /\ evidence.sections = disk.compare.ok
  BY DEF BuiltFirmware
<1>2. /\ disk.firmware_package.fields = disk.build /\ disk.firmware_package.build = disk.build
      /\ disk.firmware_package.elf = disk.elf
  BY DEF BuiltFirmware, FirmwareMembers
<1>3. /\ disk.build.sound /\ disk.elf = disk.build.elf
      /\ disk.program.build = disk.build /\ disk.program.elf = disk.elf /\ disk.program.ok
      /\ disk.compare.target = disk.program.target /\ disk.compare.elf = disk.elf /\ disk.compare.ok
  BY DEF FirmwareReady, TranscriptsAgree
<1>4. Exists("firmware_evidence") /\ Exists("firmware_package")
  BY WrittenExists DEF Exists
<1>5. FirmwarePackageBound(evidence) /\ FirmwareBuildAgrees(evidence)
  BY <1>1, <1>2, <1>3, <1>4 DEF FirmwarePackageBound, FirmwareBuildAgrees
<1>6. FirmwareArtifactsAgree(evidence) /\ FirmwareTarget(evidence)
  BY <1>1, <1>2, <1>3 DEF FirmwareArtifactsAgree, FirmwareTarget
<1>7. FirmwareProgram(evidence) /\ FirmwareReadback(evidence)
  BY <1>1, <1>2, <1>3 DEF FirmwareProgram, FirmwareReadback
<1>8. QED
  BY <1>4, <1>5, <1>6, <1>7 DEF FirmwareAccepted

LEMMA BuiltBackpressureAccepted ==
  ASSUME BackpressureReady, disk.backpressure_package = BuiltBackpressure,
         disk.backpressure_evidence = [package |-> BuiltBackpressure, manifest |-> BuiltBackpressure],
         disk.git.dirty, disk.capture.failed, disk.recorded = reconcile(disk.capture.data)
  PROVE  BackpressureAccepted
<1> DEFINE package == disk.backpressure_package
<1>1. /\ package.capture = disk.capture /\ package.recorded = disk.recorded
      /\ package.git = disk.git /\ package.reconciler = disk.reconciler
  BY DEF BuiltBackpressure
<1>2. Exists("backpressure_evidence") /\ Exists("backpressure_package")
  BY WrittenExists DEF Exists
<1>3. /\ package = disk.backpressure_evidence.package
      /\ package = disk.backpressure_evidence.manifest
  OBVIOUS
<1>4. BackpressureTools(package) /\ BackpressureControl(package) /\ BackpressureReplay(package)
  BY <1>1 DEF BackpressureTools, BackpressureControl, BackpressureReplay, BackpressureReady
<1>5. QED
  BY <1>2, <1>3, <1>4 DEF BackpressureAccepted

(* A run as it was pinned is accepted while its package is there.           *)
LEMMA BuiltRunAccepted ==
  ASSUME NEW kind \in Kinds, disk.packages[kind] = BuiltRun(kind), disk.runs = PinnedRuns,
         disk.anchor = PinnedTool, disk.tool = PinnedTool, disk.documents.attestation = "good"
  PROVE  RunAccepted(kind, [package |-> BuiltRun(kind), manifest |-> BuiltManifest(kind)])
<1> DEFINE run == [package |-> BuiltRun(kind), manifest |-> BuiltManifest(kind)]
           package == disk.packages[kind]
           pinned == PinnedRuns[kind]
<1>1. /\ package.manifest = BuiltManifest(kind) /\ package.summary = pinned.summary
      /\ package.frames = pinned.frames
  BY DEF BuiltRun
<1>2. /\ BuiltManifest(kind).frames = analyze_frames(pinned.frames)
      /\ BuiltManifest(kind).summary = pinned.summary
  BY DEF BuiltManifest
<1>3. LoadRun(pinned, analyze_frames(pinned.frames)) /\ ValidRun(kind, pinned.summary)
  BY PinnedAssumption
<1>4. PackageBound(kind, run) /\ package # NoFile
  BY WrittenExists DEF PackageBound
<1>5. ReplayedRun(kind, run)
  BY <1>1, <1>2, <1>3 DEF ReplayedRun, LoadRun
<1>6. PinnedSources(kind)
  BY <1>1 DEF PinnedSources
<1>7. kind = "initial_failure" => InitialFailureRun(package.summary)
  BY <1>1, <1>3, PinnedAssumption DEF InitialFailureRun, ValidRun
<1>8. kind = "diagnostic" => DiagnosticRun(package.summary)
  BY <1>1, <1>3, PinnedAssumption DEF DiagnosticRun, ValidRun
<1>9. kind = "qualified" => QualifiedRun(package)
  <2>1. ASSUME kind = "qualified"
        PROVE  /\ package.capture.anchor = PinnedTool /\ package.capture.tool = PinnedTool
               /\ package.capture.attestation = "good"
    BY <2>1 DEF BuiltRun
  <2>2. kind = "qualified" => validate_qualified_long_run(package.summary)
    BY <1>1, <1>3 DEF ValidRun
  <2>3. QED
    BY <2>1, <2>2 DEF QualifiedRun
<1>10. QED
  BY <1>4, <1>5, <1>6, <1>7, <1>8, <1>9 DEF RunAccepted, Kinds

LEMMA QuietIsAccepted ==
  ASSUME Files, Quiet
  PROVE  PackagedIsAccepted
<1> SUFFICES ASSUME ~touched, FirmwareQuiet, BackpressureQuiet, LoadQuiet
             PROVE  PackagedIsAccepted
  BY DEF Quiet, PackagedIsAccepted
<1>1. ASSUME pc = "firmware_done", disk.program.target = KnownTarget PROVE FirmwareAccepted
  BY <1>1, BuiltFirmwareAccepted DEF FirmwareQuiet
<1>2. ASSUME pc = "backpressure_done", disk.git.dirty, disk.capture.failed,
             disk.recorded = reconcile(disk.capture.data)
      PROVE  BackpressureAccepted \/ ~Exists("backpressure_package")
  BY <1>2, BuiltBackpressureAccepted DEF BackpressureQuiet, Exists
<1>3. ASSUME pc = "load_done", AmendedDocuments \subseteq DOMAIN disk.status.documents,
             AmendedTexts \subseteq disk.status.texts, FirmwareAccepted, BackpressureAccepted, HotplugBound(disk.status),
             disk.tool = PinnedTool, disk.runs = PinnedRuns,
             \A name \in Documents : disk.documents[name] = "good",
             \A kind \in Kinds : disk.packages[kind] # NoFile
      PROVE  LoadAccepted
  <2>1. /\ StatusBuilt /\ disk.anchor = disk.tool
        /\ \A kind \in Kinds : disk.packages[kind] = BuiltRun(kind)
    BY <1>3 DEF LoadQuiet
  <2>2. Exists("status")
    <3>1. "absent" \notin DOMAIN disk.status
      BY DEF Files
    <3>2. QED
      BY <3>1 DEF Exists, NoFile
  <2>3. FirmwareBound(disk.status) /\ BackpressureBound(disk.status)
    BY <1>3, <2>1 DEF FirmwareBound, BackpressureBound, StatusBuilt
  <2>4. DocumentsBound(disk.status)
    <3>1. Documents \subseteq DOMAIN disk.status.documents
      BY <1>3, <2>1 DEF StatusBuilt, Documents
    <3>2. QED
      BY <1>3, <2>1, <3>1 DEF DocumentsBound, StatusBuilt
  <2>5. disk.documents.attestation = "good"
    BY <1>3 DEF Documents, PackagedDocuments
  <2>6. ASSUME NEW kind \in Kinds PROVE RunAccepted(kind, disk.status.runs[kind])
    BY <1>3, <2>1, <2>5, BuiltRunAccepted DEF StatusBuilt
  <2>7. QED
    BY <1>3, <2>2, <2>3, <2>4, <2>6 DEF LoadAccepted, TextsCurrent
<1>4. QED
  BY <1>1, <1>2, <1>3 DEF PackagedIsAccepted

-----------------------------------------------------------------------------
(* Until the first edit everything is as committed, save that packages may  *)
(* be out of the checkout and the status may have been written anew.        *)
AsCommitted ==
  /\ ~touched /\ \A path \in DOMAIN Inputs : disk[path] = Inputs[path]
  /\ disk.firmware_package = CommittedFirmware.package
  /\ disk.firmware_evidence = CommittedFirmware
  /\ disk.backpressure_package \in {CommittedBackpressure, NoFile}
  /\ disk.backpressure_evidence = CommittedStatus.backpressure
  /\ disk.hotplug_evidence = CommittedHotplug
  /\ \A kind \in Kinds : disk.packages[kind] \in {CommittedPackages[kind], NoFile}
  /\ disk.index = CommittedIndex

(* The committed index has one record of each package.                      *)
CommittedPackage(path) ==
  IF path \in Kinds THEN CommittedPackages[path] ELSE CommittedBackpressure

LEMMA IndexedOnce ==
  /\ \A i \in 1..4 : CommittedIndex[i].package = CommittedPackage(CommittedIndex[i].path)
  /\ \A i \in 1..4 : CommittedIndex[i]
                       = [path |-> CommittedIndex[i].path, package |-> CommittedIndex[i].package]
  /\ \A path \in {"backpressure_package"} \cup Kinds :
       \E i \in 1..4 : {j \in 1..4 : CommittedIndex[j].path = path} = {i}
<1>1. /\ CommittedIndex[1] = [path |-> "initial_failure",
                               package |-> CommittedPackage("initial_failure")]
      /\ CommittedIndex[2] = [path |-> "qualified", package |-> CommittedPackage("qualified")]
      /\ CommittedIndex[3] = [path |-> "diagnostic", package |-> CommittedPackage("diagnostic")]
      /\ CommittedIndex[4] = [path |-> "backpressure_package",
                               package |-> CommittedPackage("backpressure_package")]
  BY DEF CommittedIndex, CommittedPackage, RunOrder, Kinds
<1>2. \A i \in 1..4 : i \in {1, 2, 3, 4}
  OBVIOUS
<1>3. /\ {j \in 1..4 : CommittedIndex[j].path = "initial_failure"} = {1}
      /\ {j \in 1..4 : CommittedIndex[j].path = "qualified"} = {2}
      /\ {j \in 1..4 : CommittedIndex[j].path = "diagnostic"} = {3}
      /\ {j \in 1..4 : CommittedIndex[j].path = "backpressure_package"} = {4}
  BY <1>1, <1>2
<1>4. QED
  BY <1>1, <1>2, <1>3 DEF Kinds

Untouched == edits \in Nat /\ (edits = 0 => AsCommitted)

(* Of the committed inputs the packagers make the committed documents.      *)
LEMMA BuiltAsCommitted ==
  ASSUME \A path \in DOMAIN Inputs : disk[path] = Inputs[path],
         disk.firmware_evidence = CommittedFirmware
  PROVE  /\ BuiltFirmware = CommittedFirmware /\ BuiltBackpressure = CommittedBackpressure
         /\ \A kind \in Kinds : BuiltRun(kind) = CommittedPackages[kind]
         /\ \A kind \in Kinds : BuiltManifest(kind) = CommittedPackages[kind].manifest
<1>1. /\ disk["build"] = Inputs["build"] /\ disk["elf"] = Inputs["elf"]
      /\ disk["program"] = Inputs["program"] /\ disk["compare"] = Inputs["compare"]
      /\ disk["capture"] = Inputs["capture"] /\ disk["recorded"] = Inputs["recorded"]
      /\ disk["git"] = Inputs["git"] /\ disk["tool"] = Inputs["tool"]
      /\ disk["reconciler"] = Inputs["reconciler"] /\ disk["anchor"] = Inputs["anchor"]
      /\ disk["runs"] = Inputs["runs"] /\ disk["documents"] = Inputs["documents"]
  BY InputsAssumption
<1>2. BuiltFirmware = CommittedFirmware
  BY <1>1 DEF BuiltFirmware, CommittedFirmware
<1>3. BuiltBackpressure = CommittedBackpressure
  BY <1>1 DEF BuiltBackpressure, CommittedBackpressure
<1>4. \A kind \in Kinds : BuiltManifest(kind) = CommittedPackages[kind].manifest
  BY <1>1 DEF BuiltManifest, CommittedPackages
<1>5. \A kind \in Kinds : BuiltRun(kind) = CommittedPackages[kind]
  BY <1>1 DEF BuiltManifest, BuiltRun, CommittedPackages
<1>6. QED
  BY <1>2, <1>3, <1>4, <1>5

(* Nothing that AsCommitted speaks of changes but for what is removed.      *)
LEMMA CommittedStays ==
  ASSUME AsCommitted, ~touched',
         \A path \in Paths \ {"packages", "backpressure_package", "status", "index"} :
           disk'[path] = disk[path],
         disk'["backpressure_package"] \in {CommittedBackpressure, NoFile},
         \A kind \in Kinds : disk'["packages"][kind] \in {CommittedPackages[kind], NoFile},
         disk'["index"] = disk["index"]
  PROVE  AsCommitted'
<1>1. \A path \in DOMAIN Inputs : disk'[path] = Inputs[path]
  BY InputsAssumption DEF AsCommitted, Paths
<1>2. /\ disk'["firmware_package"] = disk["firmware_package"]
      /\ disk'["firmware_evidence"] = disk["firmware_evidence"]
      /\ disk'["backpressure_evidence"] = disk["backpressure_evidence"]
      /\ disk'["hotplug_evidence"] = disk["hotplug_evidence"]
  BY DEF Paths, firmware_outputs, backpressure_outputs
<1>3. QED
  BY <1>1, <1>2 DEF AsCommitted

LEMMA CommittedKept ==
  ASSUME Files, Quiet, OneFirmware, AsCommitted, [Next]_vars, edits' = 0, edits = 0
  PROVE  AsCommitted'
<1>1. CASE disk' = disk /\ ~touched'
  BY <1>1, CommittedStays DEF AsCommitted
<1>2. CASE UNCHANGED vars
  BY <1>1, <1>2 DEF vars, AsCommitted
<1>3. ASSUME NEW program, Start(program) PROVE AsCommitted'
  BY <1>1, <1>3 DEF Start
<1>4. /\ \A path \in DOMAIN Inputs : disk[path] = Inputs[path]
      /\ disk["firmware_evidence"] = CommittedFirmware /\ ~touched
  BY DEF AsCommitted
<1>5. FirmwareQuiet /\ BackpressureQuiet /\ LoadQuiet
  BY <1>4 DEF Quiet
<1>6. /\ BuiltFirmware = CommittedFirmware /\ BuiltBackpressure = CommittedBackpressure
      /\ \A kind \in Kinds : BuiltRun(kind) = CommittedPackages[kind]
  BY <1>4, BuiltAsCommitted
<1>7. ASSUME \A path \in Paths : disk'[path] = disk[path], Packager PROVE AsCommitted'
  <2>1. /\ disk'["packages"] = disk["packages"] /\ disk'["index"] = disk["index"]
        /\ disk'["backpressure_package"] = disk["backpressure_package"] /\ ~touched'
    BY <1>4, <1>7 DEF Paths, backpressure_outputs, Packager, counters
  <2>2. QED
    BY <1>7, <2>1, CommittedStays DEF AsCommitted
<1>8. CASE Packager /\ FirmwareReplacePackage
  <2>1. /\ disk' = [disk EXCEPT !["firmware_package"] = mem.package] /\ ~touched'
        /\ pc = "firmware_package"
    BY <1>4, <1>8 DEF FirmwareReplacePackage, Replace, Packager, counters, At
  <2>2. mem.package = CommittedFirmware.package
    BY <1>5, <1>6, <2>1 DEF FirmwareQuiet, Knows
  <2>3. \A path \in Paths : disk'[path] = disk[path]
    BY <2>1, <2>2 DEF AsCommitted, Files
  <2>4. QED
    BY <1>7, <1>8, <2>3
<1>9. CASE Packager /\ FirmwareReplaceEvidence
  <2>1. /\ disk' = [disk EXCEPT !["firmware_evidence"] = mem.evidence]
        /\ pc = "firmware_evidence"
    BY <1>9 DEF FirmwareReplaceEvidence, Replace, At
  <2>2. mem.evidence = CommittedFirmware
    BY <1>5, <1>6, <2>1 DEF FirmwareQuiet, Knows
  <2>3. \A path \in Paths : disk'[path] = disk[path]
    BY <2>1, <2>2 DEF AsCommitted, Files
  <2>4. QED
    BY <1>7, <1>9, <2>3
<1>10. CASE Packager /\ BackpressureWritePackage
  <2>1. /\ disk' = [disk EXCEPT !["backpressure_package"] = mem.package] /\ ~touched'
        /\ pc = "backpressure_package"
    BY <1>4, <1>10 DEF BackpressureWritePackage, Replace, Packager, counters, At
  <2>2. mem.package = CommittedBackpressure
    BY <1>5, <1>6, <2>1 DEF BackpressureQuiet, Knows
  <2>3. /\ \A path \in Paths \ {"backpressure_package"} : disk'[path] = disk[path]
        /\ disk'["backpressure_package"] = CommittedBackpressure
    BY <2>1, <2>2 DEF Files, Paths, backpressure_outputs
  <2>4. /\ disk'["packages"] = disk["packages"] /\ disk'["index"] = disk["index"]
    BY <2>3 DEF Paths
  <2>5. QED
    BY <2>1, <2>3, <2>4, CommittedStays DEF AsCommitted
<1>11. CASE Packager /\ BackpressureWriteEvidence
  <2>1. /\ disk' = [disk EXCEPT !["backpressure_evidence"] =
                      [package |-> disk.backpressure_package, manifest |-> mem.package]]
        /\ pc = "backpressure_evidence"
    BY <1>11 DEF BackpressureWriteEvidence, Replace, At
  <2>2. mem.package = CommittedBackpressure /\ disk.backpressure_package = CommittedBackpressure
    BY <1>5, <1>6, <2>1 DEF BackpressureQuiet, Knows
  <2>3. disk["backpressure_evidence"]
          = [package |-> disk.backpressure_package, manifest |-> mem.package]
    BY <2>2 DEF AsCommitted, CommittedStatus
  <2>4. \A path \in Paths : disk'[path] = disk[path]
    BY <2>1, <2>3 DEF Files
  <2>5. QED
    BY <1>7, <1>11, <2>4
<1>12. CASE Packager /\ WriteHotplugEvidence
  <2>1. /\ disk' = [disk EXCEPT !["hotplug_evidence"] =
                      [record |-> mem.artifact, source |-> disk.hotplug_artifact]]
        /\ pc = "backpressure_normalized"
    BY <1>12 DEF WriteHotplugEvidence, Replace, At
  <2>2. mem.artifact = Inputs["hotplug_artifact"]
          /\ disk["hotplug_artifact"] = Inputs["hotplug_artifact"]
    BY <1>4, <1>5, <2>1, InputsAssumption DEF BackpressureQuiet, Knows
  <2>3. disk["hotplug_evidence"] = [record |-> mem.artifact, source |-> disk.hotplug_artifact]
    BY <2>2 DEF AsCommitted, CommittedHotplug
  <2>4. \A path \in Paths : disk'[path] = disk[path]
    BY <2>1, <2>3 DEF Files
  <2>5. QED
    BY <1>7, <1>12, <2>4
<1>13. CASE Packager /\ LoadWritePackage
  <2>1. /\ disk' = [disk EXCEPT !.packages[Kind] = LoadMembers(Kind)] /\ ~touched'
        /\ pc = "load_package"
    BY <1>4, <1>13 DEF LoadWritePackage, Packager, counters, At
  <2>2. /\ Knows("firmware", disk.firmware_evidence) /\ Knows("anchor", disk.anchor)
        /\ Knows("manifest", BuiltManifest(Kind)) /\ mem.next \in 1..3
    BY <1>5, <2>1 DEF LoadQuiet, OneFirmware
  <2>3. Kind \in Kinds
    BY <2>2, Ordered DEF Kind
  <2>4. LoadMembers(Kind) = CommittedPackages[Kind]
    <3>1. LoadMembers(Kind) = BuiltRun(Kind)
      BY <2>2 DEF LoadMembers, BuiltRun, QualifiedMembers, Knows, BuiltManifest
    <3>2. QED
      BY <1>6, <2>3, <3>1
  <2>5. /\ \A path \in Paths \ {"packages"} : disk'[path] = disk[path]
        /\ disk'["packages"] = [disk.packages EXCEPT ![Kind] = CommittedPackages[Kind]]
    BY <2>1, <2>4 DEF Files, Paths
  <2>6. \A kind \in Kinds : disk'["packages"][kind] \in {CommittedPackages[kind], NoFile}
    BY <2>3, <2>5 DEF AsCommitted, Files
  <2>7. /\ disk'["index"] = disk["index"]
        /\ disk'["backpressure_package"] = disk["backpressure_package"]
    BY <2>5 DEF Paths, backpressure_outputs
  <2>8. QED
    BY <2>1, <2>5, <2>6, <2>7, CommittedStays DEF AsCommitted
<1>14. ASSUME ~touched', \A path \in Paths \ {"status"} : disk'[path] = disk[path]
       PROVE  AsCommitted'
  <2>1. /\ disk'["packages"] = disk["packages"] /\ disk'["index"] = disk["index"]
        /\ disk'["backpressure_package"] = disk["backpressure_package"]
    BY <1>14 DEF Paths, backpressure_outputs
  <2>2. QED
    BY <1>14, <2>1, CommittedStays DEF AsCommitted
<1>15. CASE Packager /\ LoadWriteStatus
  BY <1>4, <1>14, <1>15 DEF LoadWriteStatus, Replace, Packager, counters, Files
<1>16. CASE Packager
  <2>1. \/ disk' = disk \/ FirmwareReplacePackage \/ FirmwareReplaceEvidence
        \/ BackpressureWritePackage \/ BackpressureWriteEvidence \/ WriteHotplugEvidence
        \/ LoadWritePackage \/ LoadWriteStatus
    BY <1>16 DEF Packager, FirmwarePackager, FirmwareReadManifest, FirmwareParseManifest,
         FirmwareReadArtifacts, FirmwareReadTranscripts, FirmwareBuildOutputs,
         BackpressurePackager, BackpressureReadRun, BackpressureReadRecorded,
         BackpressureCheckRun, BackpressureReadGit, BackpressureReadTools, NormalizeHotplug,
         LoadPackager, LoadInputs, LoadReadRun
  <2>2. QED
    BY <1>7, <1>8, <1>9, <1>10, <1>11, <1>12, <1>13, <1>15, <1>16, <2>1
<1>17. CASE Crash
  BY <1>1, <1>4, <1>17 DEF Crash
<1>18. CASE Amend
  BY <1>4, <1>14, <1>18 DEF Amend, AmendDocuments, AmendTexts, counters, Files
<1>19. CASE Checkout
  <2>1. /\ \A path \in Paths \ {"packages", "backpressure_package"} : disk'[path] = disk[path]
        /\ disk'["packages"] = [kind \in Kinds |-> NoFile] /\ disk'["backpressure_package"] = NoFile
        /\ ~touched'
    BY <1>4, <1>19 DEF Checkout, Files, Paths, backpressure_outputs, counters
  <2>2. disk'["index"] = disk["index"]
    BY <2>1 DEF Paths
  <2>3. QED
    BY <2>1, <2>2, CommittedStays
<1>20. CASE ArchiveAny
  <2>1. PICK path \in {"backpressure_package"} \cup Kinds : Archive(path, Staged[path])
                                                           /\ Staged[path] # NoFile
    BY <1>20 DEF ArchiveAny, ArchiveBeside, Staged
  <2>2. PICK i \in 1..4 :
          /\ disk.index[i].path = path
          /\ disk' = [disk EXCEPT !["index"] =
                        [disk.index EXCEPT ![i] = [disk.index[i] EXCEPT !.package = Staged[path]]]]
    BY <2>1 DEF Archive, AsCommitted, CommittedIndex
  <2>3. Staged[path] = CommittedPackage(path)
    BY <2>1 DEF Staged, AsCommitted, CommittedPackage, Kinds
  <2>4. disk.index[i] = [path |-> path, package |-> CommittedPackage(path)]
    BY <2>2, IndexedOnce DEF AsCommitted
  <2>5. [disk.index EXCEPT ![i] = [disk.index[i] EXCEPT !.package = Staged[path]]] = disk.index
    BY <2>3, <2>4 DEF AsCommitted, CommittedIndex
  <2>6. \A file \in Paths : disk'[file] = disk[file]
    BY <2>2, <2>5 DEF Files, Paths
  <2>7. ~touched'
    BY <1>4, <2>1 DEF Archive, counters
  <2>8. QED
    BY <1>14, <2>6, <2>7
<1>21. ASSUME NEW files \in Edits, Edit(files) PROVE FALSE
  BY <1>21 DEF Edit
<1>22. QED
  BY <1>2, <1>3, <1>16, <1>17, <1>18, <1>19, <1>20, <1>21 DEF Next, Packager

LEMMA Untouches ==
  ASSUME Files, Quiet, OneFirmware, Untouched, [Next]_vars
  PROVE  Untouched'
<1>1. CASE edits' = edits
  BY <1>1, CommittedKept DEF Untouched
<1>2. CASE edits' = edits + 1
  BY <1>2 DEF Untouched
<1>3. edits' \in {edits, edits + 1}
  BY DEF Next, Packager, Start, Crash, Amend, AmendDocuments, AmendTexts, Checkout, ArchiveAny, Archive,
         ArchiveBeside, Edit, counters, vars
<1>4. QED
  BY <1>1, <1>2, <1>3

LEMMA InitUntouched ==
  ASSUME Init
  PROVE  Untouched
<1>1. edits = 0 /\ ~touched
  BY DEF Init
<1>2. QED
  BY <1>1, CommittedFiles DEF Untouched, AsCommitted

(* Whatever was packed again, the committed documents hold of it.           *)
LEMMA DetachedRecord ==
  ASSUME AsCommitted, NEW path \in {"backpressure_package"} \cup Kinds
  PROVE  DetachedReference(path, CommittedPackage(path))
<1> DEFINE matches == {i \in DOMAIN disk.index : disk.index[i].path = path}
<1>1. disk.index = CommittedIndex /\ DOMAIN CommittedIndex = 1..4
  BY DEF AsCommitted, CommittedIndex
<1>2. PICK i \in 1..4 : {j \in 1..4 : CommittedIndex[j].path = path} = {i}
  BY IndexedOnce
<1>3. matches = {i} /\ CommittedIndex[i].path = path
  BY <1>1, <1>2
<1>4. CommittedIndex[i].package = CommittedPackage(path)
  BY <1>3, IndexedOnce
<1>5. Cardinality(matches) = 1
  BY <1>3, FS_Singleton
<1>6. QED
  BY <1>1, <1>3, <1>4, <1>5 DEF DetachedReference

LEMMA CommittedInputs ==
  ASSUME AsCommitted
  PROVE  /\ disk.build = Inputs.build /\ disk.elf = Inputs.elf /\ disk.program = Inputs.program
         /\ disk.compare = Inputs.compare /\ disk.capture = Inputs.capture
         /\ disk.recorded = Inputs.recorded /\ disk.git = Inputs.git /\ disk.tool = Inputs.tool
         /\ disk.anchor = Inputs.anchor /\ disk.runs = Inputs.runs
         /\ disk.hotplug_artifact = Inputs.hotplug_artifact /\ disk.documents = Inputs.documents
BY InputsAssumption DEF AsCommitted

LEMMA CommittedFirmwareAccepted ==
  ASSUME AsCommitted
  PROVE  FirmwareAccepted
<1>1. BuiltFirmware = CommittedFirmware
  BY BuiltAsCommitted DEF AsCommitted
<1>2. FirmwareReady /\ disk.program.target = KnownTarget
  BY CommittedInputs, CommittedAssumption DEF FirmwareReady
<1>3. QED
  BY <1>1, <1>2, BuiltFirmwareAccepted DEF AsCommitted

LEMMA CommittedBackpressureAccepted ==
  ASSUME AsCommitted
  PROVE  BackpressureAccepted
<1>1. BuiltBackpressure = CommittedBackpressure
  BY BuiltAsCommitted DEF AsCommitted
<1>2. disk.backpressure_evidence = [package |-> BuiltBackpressure, manifest |-> BuiltBackpressure]
  BY <1>1 DEF AsCommitted, CommittedStatus
<1>3. /\ BackpressureReady /\ disk.git.dirty /\ disk.capture.failed
      /\ disk.recorded = reconcile(disk.capture.data)
  BY CommittedInputs, CommittedAssumption DEF BackpressureReady
<1>4. CASE disk.backpressure_package = CommittedBackpressure
  BY <1>1, <1>2, <1>3, <1>4, BuiltBackpressureAccepted
<1>5. CASE disk.backpressure_package = NoFile
  <2>1. DetachedReference("backpressure_package", disk.backpressure_evidence.package)
    BY <1>1, <1>2, DetachedRecord DEF CommittedPackage, Kinds
  <2>2. Exists("backpressure_evidence") /\ ~Exists("backpressure_package")
    BY <1>2, <1>5, WrittenExists DEF Exists
  <2>3. QED
    BY <2>1, <2>2 DEF BackpressureAccepted
<1>6. QED
  BY <1>4, <1>5 DEF AsCommitted

LEMMA CommittedLoadAccepted ==
  ASSUME Files, AsCommitted, disk.status = CommittedStatus
  PROVE  LoadAccepted
<1>1. /\ disk.status.firmware = CommittedFirmware /\ disk.status.documents = Inputs.documents
      /\ disk.status.texts = AmendedTexts /\ disk.status.backpressure = CommittedStatus.backpressure
      /\ disk.status.hotplug = CommittedHotplug
      /\ \A kind \in Kinds : disk.status.runs[kind]
                               = [package |-> CommittedPackages[kind],
                                  manifest |-> CommittedPackages[kind].manifest]
  BY DEF CommittedStatus
<1>2. FirmwareBound(disk.status) /\ BackpressureBound(disk.status)
  BY <1>1, CommittedFirmwareAccepted, CommittedBackpressureAccepted
     DEF FirmwareBound, BackpressureBound, AsCommitted
<1>3. disk.documents = Inputs.documents /\ \A name \in Documents : disk.documents[name] = "good"
  BY CommittedInputs, CommittedAssumption
<1>4. DocumentsBound(disk.status)
  BY <1>1, <1>3 DEF DocumentsBound, Files
<1>5. HotplugBound(disk.status)
  BY <1>1, CommittedAssumption DEF HotplugBound, CommittedHotplug, AsCommitted
<1>6. disk.runs = PinnedRuns /\ disk.anchor = PinnedTool /\ disk.tool = PinnedTool
  BY CommittedInputs, CommittedAssumption
<1>7. Exists("status")
  <2>1. "absent" \notin DOMAIN disk.status
    BY DEF Files
  <2>2. QED
    BY <2>1 DEF Exists, NoFile
<1>8. \A kind \in Kinds : /\ BuiltRun(kind) = CommittedPackages[kind]
                          /\ BuiltManifest(kind) = CommittedPackages[kind].manifest
  BY BuiltAsCommitted DEF AsCommitted
<1>9. ASSUME NEW kind \in Kinds PROVE RunAccepted(kind, disk.status.runs[kind])
  <2>1. CASE disk.packages[kind] = NoFile
    <3>1. DetachedReference(kind, CommittedPackages[kind])
      BY DetachedRecord DEF CommittedPackage
    <3>2. CommittedPackages[kind].manifest.frames.sha = PinnedRuns[kind].frames
      BY CommittedAssumption DEF CommittedPackages, analyze_frames
    <3>3. disk.status.runs[kind] = [package |-> CommittedPackages[kind],
                                    manifest |-> CommittedPackages[kind].manifest]
      BY <1>1, <1>9
    <3>4. DetachedRun(kind, disk.status.runs[kind])
      BY <3>1, <3>2, <3>3 DEF DetachedRun
    <3>5. QED
      BY <2>1, <3>4 DEF RunAccepted
  <2>2. CASE disk.packages[kind] = CommittedPackages[kind]
    <3>1. disk.documents.attestation = "good"
      BY <1>3 DEF Documents, PackagedDocuments
    <3>2. QED
      BY <1>1, <1>6, <1>8, <2>2, <3>1, BuiltRunAccepted
  <2>3. QED
    BY <2>1, <2>2 DEF AsCommitted
<1>10. QED
  BY <1>1, <1>2, <1>4, <1>5, <1>7, <1>9 DEF LoadAccepted, TextsCurrent

-----------------------------------------------------------------------------
IInv == Files /\ OneFirmware /\ Quiet /\ Untouched

LEMMA InitIInv == Init => IInv
<1> SUFFICES ASSUME Init PROVE IInv
  OBVIOUS
<1>1. Quiet
  BY DEF Init, Quiet, FirmwareQuiet, BackpressureQuiet, LoadQuiet
<1>2. QED
  BY <1>1, InitFiles, InitOneFirmware, InitUntouched DEF IInv

LEMMA KeptIInv == IInv /\ [Next]_vars => IInv'
BY FilesKept, OneFirmwareKept, QuietKept, Untouches DEF IInv

LEMMA Invariance == Spec => []IInv
BY InitIInv, KeptIInv, PTL DEF Spec

(* A packager that finished on inputs nobody edited meanwhile wrote what    *)
(* its validator accepts: no check of a packager is laxer than the one of   *)
(* the validator, but for those the premises of the property list.          *)
THEOREM PackagersAccepted == Spec => []PackagedIsAccepted
<1>1. IInv => PackagedIsAccepted
  BY QuietIsAccepted DEF IInv
<1>2. QED
  BY <1>1, Invariance, PTL

(* While no input was edited, every committed document stays accepted, in   *)
(* whatever order the packagers run again and wherever they are killed.     *)
THEOREM RerunAccepted == Spec => []RerunReproduces
<1>1. IInv => RerunReproduces
  BY CommittedFirmwareAccepted, CommittedBackpressureAccepted, CommittedLoadAccepted
     DEF IInv, Untouched, RerunReproduces
<1>2. QED
  BY <1>1, Invariance, PTL

(* A firmware or load document that its validator accepts says something    *)
(* true, whatever was edited, killed or packed again: the first and the     *)
(* third conjunct of AcceptedSound.                                         *)
THEOREM AcceptedFirmwareAndLoad ==
  Spec => []((FirmwareAccepted => FirmwareSound) /\ (LoadAccepted => LoadSound))
<1>1. IInv => (FirmwareAccepted => FirmwareSound) /\ (LoadAccepted => LoadSound)
  BY FirmwareIsSound, LoadIsSound DEF IInv
<1>2. QED
  BY <1>1, Invariance, PTL
=============================================================================
