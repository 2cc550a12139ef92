------------------------ MODULE BackpressureEvidence ------------------------
(***************************************************************************)
(* The evidence that every EVENT lost under USB backpressure was declared: *)
(* package_p3b_backpressure_evidence.py and its validator, with the        *)
(* external artifact index that stands in for a package kept outside Git.  *)
(* The same packager normalises the hot-plug artifact.  External inputs:   *)
(*                                                                         *)
(*   capture     the run directory: data (module Reconcile), and from its  *)
(*               control log and summary paused (for 15 s), failed (the    *)
(*               zero-loss acceptance), lost (event_missing_sequences)     *)
(*   recorded    backpressure-reconciliation.json in the same directory    *)
(*   tool        can_hil_capture, source and binary                        *)
(*   reconciler  the version of reconcile_p3b_backpressure.py in the tree  *)
(*   git         HEAD, and whether the tree is dirty                       *)
(*   hotplug_artifact  what collect_usb_hotplug.py wrote (module Hotplug)  *)
(*   index       P3B-external-artifacts.json: a list of [path, package]    *)
(***************************************************************************)
EXTENDS EvidenceStore, Reconcile

backpressure_outputs == {"backpressure_package", "backpressure_evidence", "hotplug_evidence"}
-----------------------------------------------------------------------------
(* Every file of the run directory, the recorded reconciliation last.       *)
BackpressureReadRun ==
  /\ At("backpressure_start")
  /\ Remember([capture |-> disk.capture]) /\ Go("backpressure_recorded") /\ UNCHANGED disk

BackpressureReadRecorded ==
  /\ At("backpressure_recorded")
  /\ Remember([recorded |-> disk.recorded]) /\ Go("backpressure_check") /\ UNCHANGED disk

(* The recorded reconciliation must be PARTIAL (only channel attribution    *)
(* open) and agree with the summary; it is not recomputed.                  *)
PartialReconciliation(recorded) ==
  /\ recorded.status = "PARTIAL" /\ recorded.recovery /\ recorded.event /\ ~recorded.channel
  /\ recorded.observed = recorded.declared

SummaryAgrees(capture, recorded) == recorded.observed = capture.lost

BackpressureCheckRun ==
  /\ At("backpressure_check")
  /\ Require(/\ ~mem.capture.data.drops /\ mem.capture.paused
             /\ PartialReconciliation(mem.recorded) /\ SummaryAgrees(mem.capture, mem.recorded),
             "backpressure_git")
  /\ UNCHANGED <<disk, mem>>

BackpressureReadGit ==
  /\ At("backpressure_git")
  /\ Remember([git |-> disk.git]) /\ Go("backpressure_tools") /\ UNCHANGED disk

BackpressureReadTools ==
  /\ At("backpressure_tools")
  /\ Remember([package |-> [capture |-> mem.capture, recorded |-> mem.recorded, git |-> mem.git,
                            tool |-> disk.tool, reconciler |-> disk.reconciler,
                            firmware |-> disk.firmware_evidence]])
  /\ Go("backpressure_package") /\ UNCHANGED disk

BackpressureWritePackage ==
  /\ At("backpressure_package")
  /\ Replace("backpressure_package", mem.package) /\ Go("backpressure_evidence") /\ UNCHANGED mem

(* The package is hashed from disk.                                         *)
BackpressureWriteEvidence ==
  /\ At("backpressure_evidence")
  /\ Replace("backpressure_evidence",
             [package |-> disk.backpressure_package, manifest |-> mem.package])
  /\ Go("backpressure_hotplug") /\ UNCHANGED mem

(* normalize_hotplug; fail() leaves the two files written before it.        *)
CompletedPhysical(artifact) == artifact.status = "PASS" /\ artifact.physical

NormalizeHotplug ==
  /\ At("backpressure_hotplug")
  /\ Remember([artifact |-> disk.hotplug_artifact])
  /\ Require(CompletedPhysical(disk.hotplug_artifact), "backpressure_normalized")
  /\ UNCHANGED disk

(* The source hash is taken by a second read of the artifact.               *)
WriteHotplugEvidence ==
  /\ At("backpressure_normalized")
  /\ Replace("hotplug_evidence", [record |-> mem.artifact, source |-> disk.hotplug_artifact])
  /\ Go("backpressure_done") /\ UNCHANGED mem

BackpressurePackager ==
  \/ BackpressureReadRun \/ BackpressureReadRecorded \/ BackpressureCheckRun
  \/ BackpressureReadGit \/ BackpressureReadTools \/ BackpressureWritePackage
  \/ BackpressureWriteEvidence \/ NormalizeHotplug \/ WriteHotplugEvidence
-----------------------------------------------------------------------------
(* validate_detached_reference: exactly one record of the path in the       *)
(* index (two equal ones are refused), and of the same package.             *)
DetachedReference(path, package) ==
  LET matches == {i \in DOMAIN disk.index : disk.index[i].path = path}
  IN Cardinality(matches) = 1 /\ \A i \in matches : disk.index[i].package = package

(* The archived inputs are those the manifest names; the tree was dirty.    *)
BackpressureTools(package) ==
  /\ package.git.dirty
  /\ disk.reconciler = package.reconciler

BackpressureControl(package) ==
  /\ package.capture.paused /\ ~package.capture.data.drops /\ package.capture.failed

(* Mutant: the recorded reconciliation is believed.                         *)
BackpressureRecorded(package) == PartialReconciliation(package.recorded)

(* The current reconciler replays the archived capture.                     *)
BackpressureReplay(package) ==
  /\ reconcile(package.capture.data) = package.recorded
  /\ PartialReconciliation(package.recorded)

BackpressureAccepted ==
  /\ Exists("backpressure_evidence")
  /\ LET evidence == disk.backpressure_evidence
         package == disk.backpressure_package
     IN IF Exists("backpressure_package")
          THEN /\ package = evidence.package /\ package = evidence.manifest
               /\ BackpressureTools(package) /\ BackpressureControl(package)
               /\ BackpressureReplay(package)
          ELSE DetachedReference("backpressure_package", evidence.package)
-----------------------------------------------------------------------------
(* What acceptance is worth when the package is there: measured against the *)
(* reference, every lost EVENT was declared once, nothing else was, and     *)
(* frames followed the last loss (unless the sequence wrapped, see the      *)
(* README).                                                                 *)
BackpressureSound ==
  Exists("backpressure_package") =>
    LET data == disk.backpressure_package.capture.data
    IN Exact(data) /\ (~Wraps(data) => Recovered(data))
=============================================================================
