---------------------------- MODULE EventStream -----------------------------
(***************************************************************************)
(* What the asynchronous side of a session promises a host, without rings, *)
(* accumulators, retries or priorities: event sequences are allocated, some*)
(* of them to frames that are queued at once, and the oldest queued frame  *)
(* of all is delivered next.  A queued frame is never lost, and what the   *)
(* host misses it has really missed.                                       *)
(***************************************************************************)
EXTENDS Integers

VARIABLES
  allocated,  \* the last event sequence allocated
  queued,     \* the sequences of the frames that wait
  last,       \* the last sequence delivered
  missing     \* the sequences skipped and not yet explained

vars == <<allocated, queued, last, missing>>

Init == allocated = 0 /\ queued = {} /\ last = 0 /\ missing = {}

(* Frames come to wait, under sequences allocated in the same step.         *)
Admit(fresh) ==
  /\ queued' = queued \cup fresh
  /\ UNCHANGED <<last, missing>>

(* The oldest of all goes; what lies between it and the one before is       *)
(* missing from now on, and any of the missing may now be explained.        *)
Deliver(fresh) ==
  \E s \in queued \cup fresh :
    /\ \A other \in queued \cup fresh : s <= other
    /\ queued' = (queued \cup fresh) \ {s}
    /\ last' = s
    /\ missing' \in SUBSET (missing \cup (last + 1 .. s - 1))

Next ==
  /\ allocated' \in Nat /\ allocated <= allocated'
  /\ \E fresh \in SUBSET (allocated + 1 .. allocated') : Admit(fresh) \/ Deliver(fresh)

Spec == Init /\ [][Next]_vars
=============================================================================
