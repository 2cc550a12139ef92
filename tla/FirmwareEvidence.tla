-------------------------- MODULE FirmwareEvidence --------------------------
(***************************************************************************)
(* The evidence that a named ELF was programmed and read back:             *)
(* package_hil_firmware_evidence.py writes a package of the build and a    *)
(* document about it, validate_hil_firmware_evidence.py accepts them.      *)
(* The build, J-Link and GDB write the inputs and are external.            *)
(*                                                                         *)
(*   build    build-manifest.json: its source revision, the ELF and BIN it *)
(*            declares (one version stands for both), and `sound' for the  *)
(*            fields with one admissible value (clean tree, SDK lock,      *)
(*            compiler, preset, bitrate)                                   *)
(*   elf      output/demo.elf and demo.bin                                 *)
(*   program  the J-Link transcript: its markers, ok if Program + Verify   *)
(*   compare  the GDB transcript: its markers, ok if all sections matched  *)
(*                                                                         *)
(* A transcript's target is its two markers P3B_HIL_PROBE_SERIAL and       *)
(* P3B_HIL_TARGET, the J-Link and the device it is connected to.           *)
(***************************************************************************)
EXTENDS EvidenceStore

CONSTANT KnownTarget  \* the probe's serial and the device that the validator knows

firmware_outputs == {"firmware_package", "firmware_evidence"}
-----------------------------------------------------------------------------
(* The manifest is read as bytes, which are archived and hashed ...         *)
FirmwareReadManifest ==
  /\ At("firmware_start")
  /\ Remember([archived |-> disk.build]) /\ Go("firmware_parse") /\ UNCHANGED disk

(* ... and read again to be parsed and checked.                             *)
FirmwareParseManifest ==
  /\ At("firmware_parse")
  /\ Remember([build |-> disk.build]) /\ Require(disk.build.sound, "firmware_artifacts")
  /\ UNCHANGED disk

FirmwareReadArtifacts ==
  /\ At("firmware_artifacts")
  /\ Remember([elf |-> disk.elf]) /\ Require(disk.elf = mem.build.elf, "firmware_transcripts")
  /\ UNCHANGED disk

(* Mutant: the result of the comparison is not looked at.                   *)
TranscriptsNamed(program, compare, archived, elf) ==
  /\ program.build = archived /\ program.elf = elf /\ program.ok
  /\ compare.target = program.target /\ compare.elf = elf

(* The markers of the program transcript agree with the build, those of     *)
(* the compare transcript with the program transcript.                      *)
TranscriptsAgree(program, compare, archived, elf) ==
  /\ program.build = archived /\ program.elf = elf /\ program.ok
  /\ compare.target = program.target /\ compare.elf = elf /\ compare.ok

FirmwareReadTranscripts ==
  /\ At("firmware_transcripts")
  /\ Remember([target |-> disk.program.target, sections |-> disk.compare.ok])
  /\ Require(TranscriptsAgree(disk.program, disk.compare, mem.archived, mem.elf), "firmware_build")
  /\ UNCHANGED disk

FirmwareMembers(build, archived, elf) == [fields |-> build, build |-> archived, elf |-> elf]

(* Both outputs in temporary files; the transcripts are hashed only now.    *)
FirmwareBuildOutputs ==
  /\ At("firmware_build")
  /\ LET package == FirmwareMembers(mem.build, mem.archived, mem.elf)
     IN Remember([package |-> package,
                  evidence |-> [fields |-> mem.build, build |-> mem.archived, elf |-> mem.elf,
                                package |-> package, target |-> mem.target,
                                program |-> disk.program, compare |-> disk.compare,
                                sections |-> mem.sections]])
  /\ Go("firmware_package") /\ UNCHANGED disk

FirmwareReplacePackage ==
  /\ At("firmware_package")
  /\ Replace("firmware_package", mem.package) /\ Go("firmware_evidence") /\ UNCHANGED mem

FirmwareReplaceEvidence ==
  /\ At("firmware_evidence")
  /\ Replace("firmware_evidence", mem.evidence) /\ Go("firmware_done") /\ UNCHANGED mem

FirmwarePackager ==
  \/ FirmwareReadManifest \/ FirmwareParseManifest \/ FirmwareReadArtifacts
  \/ FirmwareReadTranscripts \/ FirmwareBuildOutputs
  \/ FirmwareReplacePackage \/ FirmwareReplaceEvidence
-----------------------------------------------------------------------------
(* validate: the package on disk is the one the evidence names.             *)
FirmwarePackageBound(evidence) ==
  Exists("firmware_package") /\ disk.firmware_package = evidence.package

(* The package manifest, the archived build manifest and the evidence       *)
(* describe one build.                                                      *)
FirmwareBuildAgrees(evidence) ==
  LET package == disk.firmware_package
  IN /\ evidence.fields.sound
     /\ package.fields = evidence.fields
     /\ package.build = evidence.fields
     /\ evidence.build = package.build

FirmwareArtifactsAgree(evidence) ==
  LET package == disk.firmware_package
  IN evidence.elf = package.elf /\ package.build.elf = package.elf

FirmwareTarget(evidence) == evidence.target = KnownTarget

FirmwareProgram(evidence) ==
  /\ evidence.program = disk.program
  /\ disk.program.target = evidence.target
  /\ disk.program.build = disk.firmware_package.build /\ disk.program.elf = evidence.elf
  /\ disk.program.ok

FirmwareReadback(evidence) ==
  /\ evidence.compare = disk.compare
  /\ disk.compare.target = evidence.target /\ disk.compare.elf = evidence.elf
  /\ evidence.sections = disk.compare.ok /\ disk.compare.ok

FirmwareAccepted ==
  /\ Exists("firmware_evidence")
  /\ LET evidence == disk.firmware_evidence
     IN /\ FirmwarePackageBound(evidence) /\ FirmwareBuildAgrees(evidence)
        /\ FirmwareArtifactsAgree(evidence) /\ FirmwareTarget(evidence)
        /\ FirmwareProgram(evidence) /\ FirmwareReadback(evidence)
-----------------------------------------------------------------------------
(* What acceptance is worth: the ELF in the package is the one its build    *)
(* manifest declares, and the one that was programmed into the known target *)
(* and read back from it according to the transcripts on disk.              *)
FirmwareSound ==
  LET elf == disk.firmware_package.elf
  IN /\ disk.firmware_package.build.elf = elf /\ disk.firmware_package.build.sound
     /\ \A log \in {disk.program, disk.compare} :
          log.elf = elf /\ log.target = KnownTarget /\ log.ok
=============================================================================
