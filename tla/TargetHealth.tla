---------------------------- MODULE TargetHealth ----------------------------
(***************************************************************************)
(* Health evidence through J-Link: the heartbeat collector of              *)
(* scripts/phase2/collect_heartbeat.py ("rtos003" and "rtos005") and the   *)
(* snapshot after a USB run of scripts/phase3/collect_post_hil_health.py   *)
(* ("post_hil"), with the part of the firmware they look at: the heartbeat *)
(* handler of app_health.c, which writes its record in several stores, and *)
(* app_watchdog_evaluate.  The debugger may halt it between any two.       *)
(* J-Link, GDB, the disk and the operator are external.                    *)
(***************************************************************************)
EXTENDS Integers, Sequences, FiniteSets

CONSTANTS
  Runs,       \* the invocations: [program, duration, interval]
  Qualifying, \* QUALIFICATION_SECONDS
  MaxAge,     \* maximum_hil_age_seconds
  Period,     \* APP_HEALTH_HEARTBEAT_MS
  FaultKinds, \* what may go wrong
  MaxFaults,  \* bound: how many kinds go wrong in one run
  MaxTime,    \* bound: the host's clock before it samples
  MaxBusy,    \* bound: how long all sessions, writes and prints of one run take
  MaxHil      \* bound: USB runs

ASSUME HealthAssumption ==
  /\ Runs \subseteq [program: {"rtos003", "rtos005", "post_hil"}, duration: Nat,
                     interval: Nat \ {0}]
  /\ {Qualifying, Period} \subseteq Nat \ {0}
  /\ {MaxAge, MaxFaults, MaxTime, MaxBusy, MaxHil} \subseteq Nat
  /\ FaultKinds \subseteq {"elf", "server", "gdb", "reset", "voter", "health", "traffic", "rerun",
                           "device", "disk", "interrupt"}

VARIABLES
  args,     \* the command line
  now,      \* the host's clock
  busy,     \* history: ticks since sampling began in which no sleep was due
  pc,       \* what the collector does next
  wake,     \* when its sleep ends
  started,  \* the monotonic time at which sampling started
  elapsed,  \* the local of that name: the time since, after the last sample
  server,   \* the GDB server process: "none", "up" or "gone"
  reading,  \* what GDB printed in the halt under way
  read_at,  \* history: when the core was read
  samples,  \* the valid samples, `at' being elapsed_seconds
  linked,   \* post_hil: the HIL document it parsed, and the version it hashed
  evidence, \* the dictionary in memory
  file,     \* the document at --output
  target,   \* the firmware: [ram, step, running, timer, uptime]
  hil,      \* the HIL evidence on disk: [version, status, at, boot]
  faults    \* what went wrong so far

vars == <<args, now, busy, pc, wake, started, elapsed, server, reading, read_at, samples, linked,
          evidence, file, target, hil, faults>>
-----------------------------------------------------------------------------
(* The global records a session prints: boot (a ghost: which boot it is),   *)
(* boot_tick, reset flags, the counters, and `clean' for the fields with    *)
(* one admissible value (fault record, queue drops, stack, allocations and  *)
(* the MCAN0 and USB owner's counters).                                     *)
Ram == [boot: Nat, boot_tick: {0, 1}, reset: {"por", "other"}, heartbeat: Nat, tick: Nat,
        evaluations: Nat, healthy: Nat, missing: BOOLEAN, clean: BOOLEAN, rx: Nat, tx: Nat]

Failures == {"none", "elf", "hil", "server", "gdb", "clean", "voter", "advance", "reset", "disk"}
Document == [run: {0, 1}, status: {"RUNNING", "PASS", "FAIL", "ABORTED"},
             qualified: BOOLEAN, failure: Failures, samples: Nat]

NoRam == [boot |-> 0, boot_tick |-> 0, reset |-> "por", heartbeat |-> 0, tick |-> 0,
          evaluations |-> 0, healthy |-> 0, missing |-> TRUE, clean |-> TRUE, rx |-> 0, tx |-> 0]

(* A sample, when it was read and accepted, and how much of the time until   *)
(* then went into work.                                                     *)
Sample == [ram: Ram, read: Nat, at: Nat, busy: Nat]

Handler == {"idle", "beat", "stamp", "vote", "count", "healthy"}

TypeOK ==
  /\ args \in Runs /\ {now, busy, wake, started, elapsed, read_at} \subseteq Nat
  /\ pc \in {"start", "load", "hash", "create", "spawn", "halt", "read", "go", "judge", "record",
             "wait", "decide", "sleep", "conclude", "cleanup", "exited", "crashed"}
  /\ server \in {"none", "up", "gone"}
  /\ reading \in Ram /\ samples \in Seq(Sample)
  /\ linked.hashed \in Nat /\ linked.version \in Nat
  /\ evidence \in Document /\ file \in Document
  /\ target.ram \in Ram /\ target.step \in Handler /\ target.running \in BOOLEAN
  /\ target.ram.healthy <= target.ram.evaluations
  /\ target.ram.evaluations <= target.ram.heartbeat
  /\ hil.status \in {"PASS", "FAIL"} /\ faults \subseteq FaultKinds

NoHil == [version |-> 0, status |-> "FAIL", at |-> 0, boot |-> 0, hashed |-> 0]

Init ==
  /\ args \in Runs
  /\ now = 0 /\ busy = 0 /\ wake = 0 /\ started = 0 /\ elapsed = 0 /\ read_at = 0
  /\ pc = "start" /\ server = "none"
  /\ reading = NoRam /\ samples = <<>> /\ linked = NoHil
  /\ evidence = [run |-> 1, status |-> "RUNNING", qualified |-> FALSE, failure |-> "none",
                 samples |-> 0]
  /\ file \in [run: {0}, status: {"PASS", "FAIL"}, qualified: {FALSE}, failure: {"none"},
               samples: {0}]
  /\ target = [ram |-> [NoRam EXCEPT !.boot = 1, !.heartbeat = 1, !.tick = 1, !.evaluations = 1,
                                     !.healthy = 1, !.missing = FALSE],
               step |-> "idle", running |-> TRUE, timer |-> 0, uptime |-> 1]
  /\ hil = NoHil
  /\ faults = {}
-----------------------------------------------------------------------------
Fault(kind) ==
  /\ kind \in FaultKinds
  /\ faults' = faults \cup {kind}
  /\ Cardinality(faults') <= MaxFaults

NoFault == UNCHANGED faults

Heartbeats == args.program # "post_hil"

(* An exception: FAIL with its reason.  post_hil takes its verdict back;    *)
(* the qualification_status of a heartbeat run stays as it was.             *)
RaiseWith(document, why) ==
  /\ evidence' = [document EXCEPT !.status = "FAIL", !.failure = why,
                                  !.qualified = @ /\ Heartbeats]
  /\ pc' = "conclude"

Raise(why) == RaiseWith(evidence, why)

(* _write_evidence replaces the file or raises OSError.                     *)
WriteEvidence(document, next) ==
  \/ file' = document /\ evidence' = document /\ pc' = next /\ NoFault
  \/ Fault("disk") /\ RaiseWith(document, "disk") /\ UNCHANGED file

external == <<args, now, busy, hil>>
sampling == <<wake, started, elapsed, reading, read_at, samples>>

(* The ELF, its expected hash and, for post_hil, verified_firmware_manifest *)
(* and repository_state.                                                    *)
Start ==
  /\ pc = "start"
  /\ \/ NoFault /\ pc' = (IF Heartbeats THEN "spawn" ELSE "load") /\ UNCHANGED evidence
     \/ Fault("elf") /\ Raise("elf")
  /\ UNCHANGED <<server, linked, file, target, sampling, external>>

(* load_hil_evidence parses the document, judges it, and hashes the file    *)
(* in a second read; the device it names must be the one that is there.     *)
LoadHil ==
  /\ pc = "load"
  /\ IF hil.status = "PASS" /\ now - hil.at <= MaxAge
     THEN linked' = hil /\ pc' = "hash" /\ UNCHANGED evidence
     ELSE Raise("hil") /\ UNCHANGED linked
  /\ UNCHANGED <<server, file, target, faults, sampling, external>>

HashHil ==
  /\ pc = "hash"
  /\ linked' = [linked EXCEPT !.hashed = hil.version]
  /\ \/ NoFault /\ pc' = "create" /\ UNCHANGED evidence
     \/ Fault("device") /\ Raise("hil")
  /\ UNCHANGED <<server, file, target, sampling, external>>

Create ==
  /\ pc = "create"
  /\ WriteEvidence(evidence, "spawn")
  /\ UNCHANGED <<server, linked, target, sampling, external>>

(* Popen, and the poll after server_start_seconds.                          *)
SpawnServer ==
  /\ pc = "spawn"
  /\ \/ /\ NoFault /\ server' = "up" /\ pc' = "halt" /\ started' = now /\ UNCHANGED evidence
     \/ /\ Fault("server") /\ server' = "gone" /\ Raise("server") /\ UNCHANGED started
  /\ UNCHANGED <<linked, file, target, wake, elapsed, reading, read_at, samples, external>>
-----------------------------------------------------------------------------
(* _sample_target: GDB halts the core, prints the records, lets it go and   *)
(* detaches.  A GDB that fails, or is killed after 20 s, may leave the core *)
(* as it was.                                                               *)
GdbFails ==
  /\ pc \in {"halt", "read", "go"}
  /\ Fault("gdb") /\ Raise("gdb")
  /\ target' \in {target, [target EXCEPT !.running = TRUE]}
  /\ UNCHANGED <<server, linked, file, sampling, external>>

Halt ==
  /\ pc = "halt" /\ pc' = "read"
  /\ target' = [target EXCEPT !.running = FALSE]
  /\ UNCHANGED <<server, linked, evidence, file, faults, sampling, external>>

ReadTarget ==
  /\ pc = "read" /\ pc' = "go"
  /\ reading' = target.ram /\ read_at' = now
  /\ UNCHANGED <<server, linked, evidence, file, target, faults, wake, started, elapsed, samples,
                 external>>

Go ==
  /\ pc = "go" /\ pc' = "judge"
  /\ target' = [target EXCEPT !.running = TRUE]
  /\ UNCHANGED <<server, linked, evidence, file, faults, sampling, external>>

(* Mutant: the healthy evaluations are compared with the heartbeats.        *)
VoterEveryBeat(ram) == ~ram.missing /\ ram.healthy = ram.heartbeat

(* validate_sample: the fixed fields, the voter, then the comparison with   *)
(* the previous sample.                                                     *)
Clean(ram) == ram.clean
VoterHealthy(ram) == ~ram.missing /\ ram.healthy = ram.evaluations
SameBoot(ram, previous) == ram.boot_tick = previous.boot_tick /\ ram.reset = previous.reset
Advanced(ram, previous) ==
  /\ ram.heartbeat > previous.heartbeat /\ ram.tick > previous.tick
  /\ ram.evaluations > previous.evaluations

Previous == samples[Len(samples)].ram

Taken == [ram |-> reading, read |-> read_at, at |-> now, busy |-> busy]

ValidateSample ==
  /\ pc = "judge" /\ Heartbeats
  /\ CASE ~Clean(reading)        -> Raise("clean") /\ UNCHANGED samples
       [] Clean(reading) /\ ~VoterHealthy(reading) -> Raise("voter") /\ UNCHANGED samples
       [] OTHER ->
            IF samples # <<>> => SameBoot(reading, Previous) /\ Advanced(reading, Previous)
            THEN /\ samples' = Append(samples, Taken)
                 /\ pc' = "record" /\ UNCHANGED evidence
            ELSE /\ Raise(IF SameBoot(reading, Previous) THEN "advance" ELSE "reset")
                 /\ UNCHANGED samples
  /\ UNCHANGED <<server, linked, file, target, faults, wake, started, elapsed, reading, read_at,
                 external>>

(* validate_snapshot: the USB traffic of this boot must reconcile too.      *)
ValidSnapshot(ram) ==
  /\ Clean(ram) /\ VoterHealthy(ram)
  /\ ram.rx > 0 /\ ram.rx = ram.tx
  /\ ram.heartbeat > 0 /\ ram.evaluations > 0

ValidateSnapshot ==
  /\ pc = "judge" /\ ~Heartbeats
  /\ IF ValidSnapshot(reading)
     THEN /\ samples' = <<Taken>>
          /\ evidence' = [evidence EXCEPT !.status = "PASS", !.qualified = TRUE, !.samples = 1]
          /\ pc' = "conclude"
     ELSE Raise("clean") /\ UNCHANGED samples
  /\ UNCHANGED <<server, linked, file, target, faults, wake, started, elapsed, reading, read_at,
                 external>>

Record ==
  /\ pc = "record"
  /\ WriteEvidence([evidence EXCEPT !.samples = Len(samples)], "wait")
  /\ UNCHANGED <<server, linked, target, sampling, external>>

Smaller(a, b) == IF a < b THEN a ELSE b

(* The clock is read once the sample is written and printed.                *)
ReadClock ==
  /\ pc = "wait" /\ pc' = "decide"
  /\ elapsed' = now - started
  /\ UNCHANGED <<server, linked, evidence, file, target, faults, wake, started, reading, read_at,
                 samples, external>>

Left == IF args.duration > elapsed THEN args.duration - elapsed ELSE 0

(* Mutant: a run that sleeps to its end passes with the samples it has.     *)
WaitOrPassEarly ==
  /\ pc = "decide"
  /\ IF elapsed + args.interval >= args.duration /\ Len(samples) >= 2
     THEN /\ evidence' = [evidence EXCEPT !.status = "PASS",
                            !.qualified = args.program = "rtos005" \/ now - started >= Qualifying]
          /\ pc' = "conclude" /\ UNCHANGED wake
     ELSE pc' = "sleep" /\ wake' = now + Smaller(args.interval, Left) /\ UNCHANGED evidence
  /\ UNCHANGED <<server, linked, file, target, faults, started, elapsed, reading, read_at, samples,
                 external>>

(* Enough time and two samples, or a sleep that is to end with the duration.*)
(* actual_duration_seconds, which qualifies, is another look at the clock.  *)
WaitOrPass ==
  /\ pc = "decide"
  /\ IF elapsed >= args.duration /\ Len(samples) >= 2
     THEN /\ evidence' = [evidence EXCEPT !.status = "PASS",
                            !.qualified = args.program = "rtos005" \/ now - started >= Qualifying]
          /\ pc' = "conclude" /\ UNCHANGED wake
     ELSE pc' = "sleep" /\ wake' = now + Smaller(args.interval, Left) /\ UNCHANGED evidence
  /\ UNCHANGED <<server, linked, file, target, faults, started, elapsed, reading, read_at, samples,
                 external>>

WakesUp ==
  /\ pc = "sleep" /\ now >= wake
  /\ pc' = "halt"
  /\ UNCHANGED <<server, linked, evidence, file, target, faults, sampling, external>>
-----------------------------------------------------------------------------
(* The last _write_evidence.  An OSError fails a passed run; in the handler *)
(* of a failed or aborted one it leaves the program, after the finally.     *)
Conclude ==
  /\ pc = "conclude"
  /\ \/ file' = evidence /\ pc' = "cleanup" /\ NoFault /\ UNCHANGED evidence
     \/ /\ Fault("disk") /\ UNCHANGED file
        /\ IF evidence.status = "PASS" THEN Raise("disk")
           ELSE pc' = "cleanup" /\ UNCHANGED evidence
  /\ UNCHANGED <<server, linked, target, sampling, external>>

(* Mutant: the server is left running.                                      *)
CleanupKeepsServer ==
  /\ pc = "cleanup"
  /\ pc' = IF file = evidence /\ evidence.status # "RUNNING" THEN "exited" ELSE "crashed"
  /\ UNCHANGED <<server, linked, evidence, file, target, faults, sampling, external>>

(* The finally clause: terminate, and kill when that takes too long.        *)
Cleanup ==
  /\ pc = "cleanup"
  /\ server' = IF server = "up" THEN "gone" ELSE server
  /\ pc' = IF file = evidence /\ evidence.status # "RUNNING" THEN "exited" ELSE "crashed"
  /\ UNCHANGED <<linked, evidence, file, target, faults, sampling, external>>

(* KeyboardInterrupt: the heartbeat collector records ABORTED, whatever the *)
(* evidence said; post_hil does not catch it, and no handler catches one    *)
(* that comes while it is at work.                                          *)
Interrupt ==
  /\ pc \notin {"start", "cleanup", "exited", "crashed"}
  /\ Fault("interrupt")
  /\ IF Heartbeats /\ evidence.status \in {"RUNNING", "PASS"}
     THEN evidence' = [evidence EXCEPT !.status = "ABORTED"] /\ pc' = "conclude"
     ELSE pc' = "cleanup" /\ UNCHANGED evidence
  /\ UNCHANGED <<server, linked, file, target, sampling, external>>
-----------------------------------------------------------------------------
collector == <<args, pc, server, linked, evidence, file, sampling>>

Executing(step) == target.running /\ target.step = step

Store(field, value, next) ==
  target' = [target EXCEPT !.ram[field] = value, !.step = next]

(* The heartbeat handler of health_task, store by store: heartbeat_count,   *)
(* last_heartbeat_tick, then app_watchdog_evaluate with missing_mask,       *)
(* evaluation_count and healthy_evaluation_count.                           *)
HealthTask ==
  /\ \/ Executing("beat")  /\ Store("heartbeat", target.ram.heartbeat + 1, "stamp") /\ NoFault
     \/ Executing("stamp") /\ Store("tick", target.uptime, "vote") /\ NoFault
  /\ UNCHANGED <<collector, now, busy, hil>>

(* Mutant: a healthy evaluation is counted before the evaluation.           *)
EvaluateHealthyFirst ==
  /\ NoFault
  /\ \/ Executing("vote") /\ Store("missing", FALSE, "count")
     \/ Executing("count") /\ Store("healthy", target.ram.healthy + 1, "healthy")
     \/ Executing("healthy") /\ Store("evaluations", target.ram.evaluations + 1, "idle")
  /\ UNCHANGED <<collector, now, busy, hil>>

Evaluate ==
  /\ \/ Executing("vote") /\ Store("missing", FALSE, "count") /\ NoFault
     \/ Executing("vote") /\ Store("missing", TRUE, "count") /\ Fault("voter")
     \/ Executing("count") /\ Store("evaluations", target.ram.evaluations + 1, "healthy") /\ NoFault
     \/ /\ Executing("healthy") /\ NoFault
        /\ Store("healthy", target.ram.healthy + (IF target.ram.missing THEN 0 ELSE 1), "idle")
  /\ UNCHANGED <<collector, now, busy, hil>>

Preparing == pc \in {"start", "load", "hash", "create", "spawn"}

(* Time: the host's clock, whatever the collector is doing until its verdict*)
(* (afterwards nothing looks at a clock), and the target's timer while its  *)
(* core runs.  A sleep may last longer than it should, as may a session, a  *)
(* write or a print.  The handler is done long before the next tick.        *)
Tick ==
  /\ pc \notin {"conclude", "cleanup", "exited", "crashed"}
  /\ \/ Preparing /\ now < MaxTime /\ UNCHANGED busy
     \/ pc = "sleep" /\ now < wake /\ UNCHANGED busy
     \/ /\ ~Preparing /\ ~(pc = "sleep" /\ now < wake)
        /\ busy < MaxBusy /\ busy' = busy + 1
  /\ (target.running => target.step = "idle")
  /\ now' = now + 1
  /\ target' = IF ~target.running THEN target
               ELSE [target EXCEPT !.uptime = @ + 1, !.timer = (@ + 1) % Period,
                                   !.step = IF (target.timer + 1) % Period = 0 THEN "beat" ELSE @]
  /\ UNCHANGED <<collector, hil, faults>>

(* A fault of the target: a field loses its one admissible value.           *)
Degrade ==
  /\ target.ram.clean /\ Fault("health")
  /\ target' = [target EXCEPT !.ram.clean = FALSE]
  /\ UNCHANGED <<collector, now, busy, hil>>

(* A reset; boot timestamp and cause may or may not be those of before.     *)
Reset ==
  /\ "reset" \notin faults /\ Fault("reset")
  /\ \E at \in {0, 1}, cause \in {"por", "other"} :
       target' = [ram |-> [NoRam EXCEPT !.boot = target.ram.boot + 1, !.boot_tick = at,
                                        !.reset = cause],
                  step |-> "idle", running |-> TRUE, timer |-> 0, uptime |-> 0]
  /\ UNCHANGED <<collector, now, busy, hil>>

(* A USB run by scripts/phase3/run_usb_hil.py, as its evidence file and the *)
(* target's USB counters show it; one that starts while post_hil is at work *)
(* is a mistake of the operator.                                            *)
HilRuns ==
  /\ target.running /\ hil.version < MaxHil /\ ~Heartbeats
  /\ IF pc = "start" THEN NoFault ELSE Fault("rerun")
  /\ \E status \in {"PASS", "FAIL"} :
       hil' = [version |-> hil.version + 1, status |-> status, at |-> now, hashed |-> 0,
               boot |-> target.ram.boot]
  /\ target' = [target EXCEPT !.ram.rx = @ + 1, !.ram.tx = @ + 1]
  /\ UNCHANGED <<collector, now, busy>>

(* Other USB traffic.                                                       *)
Traffic ==
  /\ target.running /\ target.ram.rx = 0 /\ ~Heartbeats /\ Fault("traffic")
  /\ target' = [target EXCEPT !.ram.rx = 1, !.ram.tx = 1]
  /\ UNCHANGED <<collector, now, busy, hil>>

Collector ==
  \/ Start \/ LoadHil \/ HashHil \/ Create \/ SpawnServer \/ Halt \/ ReadTarget \/ Go
  \/ ValidateSample \/ ValidateSnapshot \/ Record \/ ReadClock \/ WaitOrPass \/ WakesUp
  \/ Conclude \/ Cleanup

Firmware == HealthTask \/ Evaluate

Next ==
  \/ Collector \/ Firmware \/ GdbFails \/ Interrupt \/ Tick \/ Degrade \/ Reset \/ HilRuns
  \/ Traffic

(* GDB calls end within 20 s, the clock runs, the target's task is not      *)
(* starved: it alone feeds the watchdog.                                    *)
Fairness == WF_vars(Collector) /\ WF_vars(Firmware) /\ WF_vars(Tick)

Spec == Init /\ [][Next]_vars /\ Fairness
-----------------------------------------------------------------------------
Passed == file.run = 1 /\ file.status = "PASS"

(* A PASS of the heartbeat collector covers the time it claims, but for the *)
(* collector's own work: from its start to the end of the duration, and of  *)
(* the qualifying time, the samples are no further apart than the interval  *)
(* and the work in between.  The target did not restart meanwhile, save for *)
(* a restart that repeats boot time and cause and has since counted past the*)
(* sample before.                                                           *)
PassCoversDuration ==
  Passed /\ Heartbeats =>
    LET last == samples[Len(samples)]
        covered == last.at - started + (busy - last.busy)
    IN  /\ Len(samples) >= 2 /\ samples[1].at - started <= samples[1].busy
        /\ covered >= args.duration
        /\ file.qualified => args.program = "rtos005" \/ covered >= Qualifying
        /\ \A i \in 1..Len(samples) - 1 :
             LET one == samples[i]
                 next == samples[i + 1]
             IN  /\ next.at - one.at <= args.interval + (next.busy - one.busy)
                 /\ \/ one.ram.boot = next.ram.boot
                    \/ one.ram.heartbeat * Period < next.read - one.read

(* A PASS of post_hil shows the boot in which the USB run took place: a     *)
(* target that restarted after it has moved no bytes and is refused, unless *)
(* other traffic or another run came in between.                            *)
SnapshotOfHilBoot ==
  Passed /\ ~Heartbeats =>
    \/ samples[1].ram.boot = linked.boot /\ linked.hashed = linked.version
    \/ faults \cap {"traffic", "rerun"} # {}

(* A PASS of either collector.                                              *)
PassMeansMeasured == PassCoversDuration /\ SnapshotOfHilBoot

(* A healthy target fails only for the instant at which it was halted:      *)
(* between two stores of the heartbeat handler, or before its next heartbeat*)
(* when the sleep was no longer than one.  The last sleep may be of any     *)
(* length: it lasts from the last look at the clock to the duration's end.  *)
HealthyFailures ==
  evidence.failure \in {"clean", "voter", "advance", "reset"} /\ Heartbeats =>
    \/ faults \cap {"reset", "voter", "health"} # {}
    \/ evidence.failure = "voter" /\ reading.evaluations = reading.healthy + 1
    \/ /\ evidence.failure = "advance"
       /\ args.interval <= Period \/ args.duration <= elapsed + Period

(* Every run ends with the server gone, and with the core running unless    *)
(* GDB failed.                                                              *)
Concludes ==
  /\ <>(pc \in {"exited", "crashed"})
  /\ [](pc \in {"exited", "crashed"} =>
          server # "up" /\ (target.running \/ faults \cap {"gdb", "interrupt"} # {}))

(* What collect_heartbeat.py:134 reports of a run it fails.                 *)
MissingVoter == evidence.failure = "voter" => faults \cap {"voter", "reset"} # {}
=============================================================================
