------------------------------ MODULE Hotplug -------------------------------
(***************************************************************************)
(* The collector of physical USB disconnect and reconnect cycles,          *)
(* scripts/phase3/collect_usb_hotplug.py.  It sees the cable only when it  *)
(* polls sysfs, runs a smoke executable after every reconnect and leaves   *)
(* its verdict in a file.  Time is discrete and advances while the         *)
(* collector sleeps or waits for the smoke process; the operator's hand on *)
(* the cable, the device and the smoke process are external.               *)
(***************************************************************************)
EXTENDS Integers, Sequences, FiniteSets

CONSTANTS
  Cycles,     \* required_cycles
  Poll,       \* poll_ms and smoke_retry_ms
  MinAbsent,  \* minimum_disconnect_ms
  Recovery,   \* recovery_timeout_seconds
  Overall,    \* overall_timeout_seconds
  SmokeTimes, \* how long the smoke process may take
  Identities, \* what usb_identity can return
  FaultKinds, \* what may go wrong beside the cable
  MaxFaults,  \* bound: how many kinds go wrong in one run
  MaxOutages  \* bound: how often the cable is pulled

ASSUME HotplugAssumption ==
  /\ {Cycles, Poll, Recovery, Overall, MaxOutages} \subseteq Nat \ {0}
  /\ MinAbsent \in Nat /\ MaxFaults \in Nat
  /\ SmokeTimes \subseteq Nat \ {0} /\ SmokeTimes # {}
  /\ Identities # {}
  /\ FaultKinds \subseteq {"executable", "second", "serial", "node", "smoke", "hang", "swap",
                           "disk", "interrupt"}

VARIABLES
  now,      \* time.monotonic()
  pc,       \* what the collector does next
  wake,     \* when its sleep or its smoke process ends
  watch,    \* [state, at, cycle, seen]: state, disconnected_at, cycle_number, reconnection seen
  smoke,    \* [deadline, began, passed]: the retry deadline, the last attempt, its exit code
  identity, \* usb_identity of the first connection
  evidence, \* the dictionary in memory
  file,     \* the document at --output
  cable,    \* external: [present, identity, since]
  outages,  \* every physical absence that has ended, as [from, to]
  faults    \* what went wrong so far

vars == <<now, pc, wake, watch, smoke, identity, evidence, file, cable, outages, faults>>
-----------------------------------------------------------------------------
Status == {"RUNNING", "PASS", "FAIL"}
Cycle == [left: Nat, back: Nat, identity: Identities \cup {"none"}, smoke: BOOLEAN]
Document == [run: {0, 1}, status: Status, completed: Nat, cycles: Seq(Cycle)]

Steps == {"start", "wait", "identify", "smoke", "smoking", "smoked", "retry", "poll", "sleep",
          "conclude", "exited", "crashed"}

TypeOK ==
  /\ now \in Nat /\ wake \in Nat /\ pc \in Steps
  /\ watch \in [state: {"initial", "present", "absent"}, at: Nat, cycle: 1..Cycles + 1, seen: Nat]
  /\ smoke \in [deadline: Nat, began: Nat, passed: BOOLEAN]
  /\ identity \in Identities \cup {"none"}
  /\ evidence \in Document /\ file \in Document
  /\ evidence.completed \in {Len(evidence.cycles), Len(evidence.cycles) - 1}
  /\ watch.state # "initial" /\ "disk" \notin faults => watch.cycle = evidence.completed + 1
  /\ cable \in [present: BOOLEAN, identity: Identities, since: Nat]
  /\ outages \in Seq([from: Nat, to: Nat])
  /\ faults \subseteq FaultKinds

Init ==
  /\ now = 0 /\ wake = 0 /\ pc = "start"
  /\ watch = [state |-> "initial", at |-> 0, cycle |-> 1, seen |-> 0]
  /\ smoke = [deadline |-> 0, began |-> 0, passed |-> FALSE]
  /\ identity = "none"
  /\ evidence = [run |-> 1, status |-> "RUNNING", completed |-> 0, cycles |-> <<>>]
  /\ file \in [run: {0}, status: {"PASS", "FAIL"}, completed: {0}, cycles: {<<>>}]
  /\ cable \in [present: BOOLEAN, identity: {CHOOSE i \in Identities : TRUE}, since: {0}]
  /\ outages = <<>> /\ faults = {}
-----------------------------------------------------------------------------
Fault(kind) ==
  /\ kind \in FaultKinds
  /\ faults' = faults \cup {kind}
  /\ Cardinality(faults') <= MaxFaults

NoFault == UNCHANGED faults

external == <<now, cable, outages>>

(* The except clause of collect.                                            *)
RaiseWith(document) ==
  /\ evidence' = [document EXCEPT !.status = "FAIL"]
  /\ pc' = "conclude"

Raise == RaiseWith(evidence) /\ UNCHANGED <<wake, watch, smoke, identity, file>>

(* _write_evidence replaces the file or raises OSError.                     *)
WriteEvidence(document, next) ==
  \/ file' = document /\ evidence' = document /\ pc' = next /\ NoFault
  \/ Fault("disk") /\ RaiseWith(document) /\ UNCHANGED file

(* The executable, its hash, the repository and the firmware manifest.      *)
Start ==
  /\ pc = "start"
  /\ \/ pc' = "wait" /\ NoFault /\ UNCHANGED <<wake, watch, smoke, identity, evidence, file>>
     \/ Fault("executable") /\ Raise
  /\ UNCHANGED external

(* find_usb_devices: none, the device, or one too many.                     *)
WaitForDevice ==
  /\ pc = "wait"
  /\ \/ /\ now < Overall /\ cable.present
        /\ pc' = "identify" /\ NoFault
        /\ UNCHANGED <<wake, watch, smoke, identity, evidence, file>>
     \/ /\ now < Overall /\ ~cable.present
        /\ pc' = "sleep" /\ wake' = now + Poll /\ NoFault
        /\ UNCHANGED <<watch, smoke, identity, evidence, file>>
     \/ now >= Overall /\ NoFault /\ Raise
     \/ now < Overall /\ Fault("second") /\ Raise
  /\ UNCHANGED external

(* _run_smoke_with_retry                                                    *)
BeginSmoke ==
  /\ smoke' = [deadline |-> now + Recovery, began |-> now, passed |-> FALSE]
  /\ pc' = "smoke"

(* The serial number and the device node of the first connection.  They are *)
(* read after find_usb_devices: the cable may be gone by now, and then      *)
(* they are empty.                                                          *)
Identify ==
  /\ pc = "identify"
  /\ \/ /\ cable.present
        /\ identity' = cable.identity
        /\ BeginSmoke /\ NoFault /\ UNCHANGED <<wake, watch, evidence, file>>
     \/ ~cable.present /\ NoFault /\ Raise
     \/ (Fault("serial") \/ Fault("node")) /\ Raise
  /\ UNCHANGED external

(* _run_smoke: the process has no timeout of its own.                       *)
RunSmoke ==
  /\ pc = "smoke"
  /\ pc' = "smoking"
  /\ \E time \in SmokeTimes : wake' = now + time
  /\ smoke' = [smoke EXCEPT !.began = now]
  /\ UNCHANGED <<watch, identity, evidence, file, faults, external>>

(* Mutant: retries know no deadline.                                        *)
SmokeRetriesForever ==
  /\ pc = "smoking" /\ now >= wake /\ "hang" \notin faults
  /\ \/ NoFault /\ smoke' = [smoke EXCEPT !.passed = cable.present /\ cable.since <= smoke.began]
     \/ Fault("smoke") /\ smoke' = [smoke EXCEPT !.passed = FALSE]
  /\ IF smoke'.passed
     THEN pc' = "smoked" /\ UNCHANGED wake
     ELSE pc' = "retry" /\ wake' = now + Poll
  /\ UNCHANGED <<watch, identity, evidence, file, external>>

(* It succeeds when the device is there and was there all the time.         *)
SmokeEnds ==
  /\ pc = "smoking" /\ now >= wake /\ "hang" \notin faults
  /\ \/ NoFault /\ smoke' = [smoke EXCEPT !.passed = cable.present /\ cable.since <= smoke.began]
     \/ Fault("smoke") /\ smoke' = [smoke EXCEPT !.passed = FALSE]
  /\ IF smoke'.passed \/ now >= smoke.deadline
     THEN pc' = "smoked" /\ UNCHANGED wake
     ELSE pc' = "retry" /\ wake' = now + Poll
  /\ UNCHANGED <<watch, identity, evidence, file, external>>

SmokeHangs ==
  /\ pc = "smoking" /\ "hang" \notin faults /\ Fault("hang")
  /\ UNCHANGED <<pc, wake, watch, smoke, identity, evidence, file, external>>

Retry ==
  /\ pc = "retry" /\ now >= wake
  /\ pc' = "smoke"
  /\ UNCHANGED <<wake, watch, smoke, identity, evidence, file, faults, external>>

InitialSmoke ==
  /\ pc = "smoked" /\ watch.state = "initial"
  /\ \/ /\ smoke.passed
        /\ WriteEvidence(evidence, "poll")
        /\ watch' = [watch EXCEPT !.state = IF pc' = "poll" THEN "present" ELSE @]
        /\ UNCHANGED <<wake, smoke, identity>>
     \/ ~smoke.passed /\ NoFault /\ Raise
  /\ UNCHANGED external
-----------------------------------------------------------------------------
SleepAfter(new) ==
  /\ watch' = new
  /\ pc' = "sleep" /\ wake' = now + Poll
  /\ NoFault /\ UNCHANGED <<smoke, identity, evidence, file>>

More == watch.cycle <= Cycles /\ now < Overall

Looking == pc = "poll" /\ More /\ UNCHANGED external

(* One iteration of the polling loop, by what it sees.                      *)
SeesNoChange ==
  /\ Looking
  /\ cable.present <=> watch.state = "present"
  /\ SleepAfter(watch)

SeesDisconnect ==
  /\ Looking
  /\ watch.state = "present" /\ ~cable.present
  /\ SleepAfter([watch EXCEPT !.state = "absent", !.at = now])

(* Mutant: a contact bounce counts as a disconnect.                         *)
SeesBounce ==
  /\ Looking
  /\ watch.state = "absent" /\ cable.present
  /\ NoFault
  /\ watch' = [watch EXCEPT !.seen = now]
  /\ BeginSmoke /\ UNCHANGED <<wake, identity, evidence, file>>

SeesReconnect ==
  /\ Looking
  /\ watch.state = "absent" /\ cable.present
  /\ NoFault
  /\ IF now - watch.at < MinAbsent
     THEN Raise
     ELSE /\ watch' = [watch EXCEPT !.seen = now]
          /\ BeginSmoke /\ UNCHANGED <<wake, identity, evidence, file>>

SeesTwo == Looking /\ Fault("second") /\ Raise

(* Mutant: the cycle is counted before it is judged.                        *)
RecordedAndCounted ==
  [evidence EXCEPT !.completed = watch.cycle, !.cycles = Append(@,
     [left |-> watch.at, back |-> watch.seen, smoke |-> smoke.passed,
      identity |-> IF cable.present THEN cable.identity ELSE "none"])]

(* Mutant: any device will do.                                              *)
AnyDevice == cable.present

(* The device is looked up again after the smoke; the cycle is recorded     *)
(* before it is judged, and counted only when it is good.                   *)
Recorded ==
  [evidence EXCEPT !.cycles = Append(@,
     [left |-> watch.at, back |-> watch.seen, smoke |-> smoke.passed,
      identity |-> IF cable.present THEN cable.identity ELSE "none"])]

SameDevice == cable.present /\ cable.identity = identity

CycleEnds ==
  /\ pc = "smoked" /\ watch.state = "absent"
  /\ \/ /\ SameDevice /\ smoke.passed
        /\ WriteEvidence([Recorded EXCEPT !.completed = watch.cycle], "sleep")
        /\ watch' = IF pc' = "sleep" THEN [watch EXCEPT !.cycle = @ + 1, !.state = "present"]
                                      ELSE watch
        /\ wake' = now + Poll /\ UNCHANGED <<smoke, identity>>
     \/ /\ ~(SameDevice /\ smoke.passed)
        /\ RaiseWith(Recorded) /\ NoFault /\ UNCHANGED <<wake, watch, smoke, identity, file>>
     \/ /\ Fault("node") /\ RaiseWith(Recorded)
        /\ UNCHANGED <<wake, watch, smoke, identity, file>>
  /\ UNCHANGED external

WakesUp ==
  /\ pc = "sleep" /\ now >= wake
  /\ pc' = IF watch.state = "initial" THEN "wait" ELSE "poll"
  /\ UNCHANGED <<wake, watch, smoke, identity, evidence, file, faults, external>>

LoopEnds ==
  /\ pc = "poll" /\ ~More
  /\ IF watch.cycle <= Cycles
     THEN Raise
     ELSE /\ evidence' = [evidence EXCEPT !.status = "PASS"] /\ pc' = "conclude"
          /\ UNCHANGED <<wake, watch, smoke, identity, file>>
  /\ NoFault /\ UNCHANGED external

(* The last _write_evidence; an OSError fails a passed run and ends a       *)
(* failed one.                                                              *)
Conclude ==
  /\ pc = "conclude"
  /\ \/ file' = evidence /\ pc' = "exited" /\ NoFault /\ UNCHANGED evidence
     \/ /\ Fault("disk") /\ UNCHANGED file
        /\ IF evidence.status = "PASS" THEN RaiseWith(evidence)
           ELSE pc' = "crashed" /\ UNCHANGED evidence
  /\ UNCHANGED <<wake, watch, smoke, identity, external>>

Interrupt ==
  /\ pc \notin {"exited", "crashed"}
  /\ Fault("interrupt")
  /\ pc' = "crashed"
  /\ UNCHANGED <<wake, watch, smoke, identity, evidence, file, external>>
-----------------------------------------------------------------------------
collector == <<now, pc, wake, watch, smoke, identity, evidence, file>>

(* External: the operator pulls the cable and puts it back, perhaps into    *)
(* another device; both may happen between two polls.                       *)
Pull ==
  /\ cable.present /\ Len(outages) < MaxOutages
  /\ cable' = [cable EXCEPT !.present = FALSE, !.since = now]
  /\ UNCHANGED <<collector, outages, faults>>

Plug ==
  /\ ~cable.present /\ cable.since < now
  /\ \E id \in Identities :
       /\ cable' = [present |-> TRUE, identity |-> id, since |-> now]
       /\ IF id = cable.identity THEN NoFault ELSE Fault("swap")
  /\ outages' = Append(outages, [from |-> cable.since, to |-> now])
  /\ UNCHANGED collector

(* Time passes only while the collector waits.                              *)
Tick ==
  /\ pc \in {"sleep", "retry", "smoking"} /\ now < wake
  /\ now' = now + 1
  /\ UNCHANGED <<pc, wake, watch, smoke, identity, evidence, file, cable, outages, faults>>

Collector ==
  \/ Start \/ WaitForDevice \/ Identify \/ RunSmoke \/ SmokeEnds \/ Retry \/ InitialSmoke
  \/ SeesNoChange \/ SeesDisconnect \/ SeesReconnect \/ SeesTwo \/ CycleEnds \/ WakesUp
  \/ LoopEnds \/ Conclude

Next == Collector \/ SmokeHangs \/ Interrupt \/ Pull \/ Plug \/ Tick

(* An ordinary process on a machine whose clock runs.                       *)
Fairness == WF_vars(Collector) /\ WF_vars(Tick)

Spec == Init /\ [][Next]_vars /\ Fairness
-----------------------------------------------------------------------------
Passed == file.run = 1 /\ file.status = "PASS"

(* Every counted cycle is an outage of its own, seen while it lasted, and   *)
(* over before the reconnection was; when the cable moved only once in      *)
(* between, it was really out for the minimum, less one polling interval.   *)
(* Polling sees neither a short outage nor a short contact within a long    *)
(* one.                                                                     *)
Seen(c, o) == o.from <= c.left /\ c.left <= o.to /\ o.to <= c.back

CyclesAreOutages ==
  \A n \in 1..evidence.completed :
    LET c     == evidence.cycles[n]
        moved == {i \in DOMAIN outages : outages[i].from <= c.back /\ outages[i].to >= c.left}
    IN  /\ n > 1 => evidence.cycles[n - 1].back < c.left
        /\ \E i \in moved :
             /\ Seen(c, outages[i])
             /\ moved = {i} => outages[i].to - outages[i].from >= MinAbsent - Poll

(* A PASS stands on all required cycles, each with the identity of the      *)
(* first connection and a smoke that succeeded after it.                    *)
PassMeansRecovered ==
  Passed => /\ file.completed = Cycles /\ Len(file.cycles) = Cycles
            /\ \A n \in 1..Cycles : file.cycles[n].smoke /\ file.cycles[n].identity = identity

(* Every run ends unless the smoke process hangs; its own verdict is then   *)
(* in the file unless the disk or an interrupt prevented it.  The overall   *)
(* timeout bounds the polling but not the smoke under way: a run may pass   *)
(* after it, by no more than one recovery, one attempt and two polls.       *)
LongestSmoke == CHOOSE t \in SmokeTimes : \A u \in SmokeTimes : u <= t

Concludes ==
  /\ <>(pc \in {"exited", "crashed"} \/ "hang" \in faults)
  /\ [](pc = "exited" => file = evidence /\ file.status # "RUNNING")
  /\ [](pc = "crashed" => faults \cap {"disk", "interrupt"} # {})
  /\ [](now < Overall + Recovery + LongestSmoke + 2 * Poll - 1)
=============================================================================
