--------------------------- MODULE EvidenceStore ---------------------------
(***************************************************************************)
(* What the packagers and validators of scripts/phase3 share: the files of *)
(* the repository, and the one packager process an operator runs at a      *)
(* time.  A file is its content; a SHA-256 recorded in a document is the   *)
(* content it was taken of, so two are equal only for equal contents.  A   *)
(* packager reads its inputs one after another, while anybody may edit     *)
(* them, and replaces each of its outputs atomically.                      *)
(***************************************************************************)
EXTENDS Integers, Sequences, FiniteSets

VARIABLES
  disk,   \* path |-> content
  pc,     \* what the packager does next, or how the last one ended
  mem     \* what it holds in memory: name |-> value

NoFile == [absent |-> TRUE]

Exists(path) == disk[path] # NoFile

Ended == {"none", "failed", "crashed", "firmware_done", "backpressure_done", "load_done"}

At(step) == pc = step

Go(step) == pc' = step

(* A function with the values of another in place of its own.               *)
Overlay(new, old) ==
  [name \in DOMAIN new \cup DOMAIN old |-> IF name \in DOMAIN new THEN new[name] ELSE old[name]]

Remember(values) == mem' = Overlay(values, mem)

(* A check of the packager: fail() ends the process.                        *)
Require(condition, step) == IF condition THEN Go(step) ELSE Go("failed")

(* NamedTemporaryFile in the same directory, then Path.replace.             *)
Replace(path, content) == disk' = [disk EXCEPT ![path] = content]
=============================================================================
