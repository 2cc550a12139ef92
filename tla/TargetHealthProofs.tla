------------------------- MODULE TargetHealthProofs -------------------------
(***************************************************************************)
(* Proofs about TargetHealth for all command lines, periods and limits, any*)
(* number of USB runs and every combination of faults.                     *)
(***************************************************************************)
EXTENDS TargetHealth, SequenceTheorems, TLAPS

-----------------------------------------------------------------------------
(* The inductive invariant.                                                 *)
Sampling == {"halt", "read", "go", "judge", "record", "wait", "decide", "sleep"}
Undecided == {"start", "load", "hash", "create", "spawn"} \cup Sampling
Decided == {"conclude", "cleanup", "exited", "crashed"}

Hil == [version: Nat, status: {"PASS", "FAIL"}, at: Nat, boot: Nat, hashed: Nat]
Target == [ram: Ram, step: Handler, running: BOOLEAN, timer: 0..Period - 1, uptime: Nat]

Types ==
  /\ args \in Runs /\ now \in Nat /\ busy \in Nat /\ wake \in Nat
  /\ started \in Nat /\ started <= now /\ elapsed \in Nat /\ read_at \in Nat
  /\ pc \in Undecided \cup Decided /\ server \in {"none", "up", "gone"}
  /\ reading \in Ram /\ samples \in Seq(Sample)
  /\ linked \in Hil /\ hil \in Hil /\ evidence \in Document /\ file \in Document
  /\ target \in Target /\ faults \subseteq FaultKinds

(* The handler: where it is, the counters it writes are apart.              *)
Counting == {"stamp", "vote", "count"}
Beats == target.ram.heartbeat + (IF target.step = "beat" THEN 1 ELSE 0)

Handling ==
  LET ram == target.ram
      late == IF target.step = "healthy" THEN 1 ELSE 0
  IN /\ ram.evaluations + (IF target.step \in Counting THEN 1 ELSE 0) = ram.heartbeat
     /\ ram.healthy + late <= ram.evaluations
     /\ faults \cap {"reset", "voter"} = {} => ~ram.missing /\ ram.healthy + late = ram.evaluations
     /\ target.step # "idle" => target.timer = 0
     /\ ram.tick <= target.uptime /\ (target.step \in {"beat", "stamp"} => ram.tick < target.uptime)
     /\ ram.boot > 0 /\ (ram.boot > 1 => Beats * Period + target.timer <= target.uptime)

(* What a record shows of a target that was not reset.                      *)
FirstBoot(ram) == ram.boot <= 1 /\ ram.boot_tick = 0 /\ ram.reset = "por"

Faultless ==
  /\ "reset" \notin faults => FirstBoot(target.ram) /\ FirstBoot(reading)
  /\ "reset" \notin faults => \A i \in 1..Len(samples) : FirstBoot(samples[i].ram)
  /\ "health" \notin faults => target.ram.clean /\ reading.clean
  /\ faults \cap {"reset", "voter"} = {} /\ reading.boot > 0 =>
       ~reading.missing /\ reading.evaluations \in {reading.healthy, reading.healthy + 1}
  /\ pc \in {"go", "judge"} => reading.boot > 0
  /\ pc \in Undecided \ {"read", "go"} => target.running

(* The schedule of the samples.  Rested is the time that did not go into    *)
(* work: it moves only in a sleep, up to the moment that was to end it.     *)
Last == samples[Len(samples)]
Rested == now - busy
RestedAt(sample) == sample.at - sample.busy
Due == RestedAt(Last) + Smaller(args.interval, Left)

OnTime ==
  /\ pc \in {"record", "wait", "decide"} => Rested = RestedAt(Last)
  /\ pc = "decide" => started + elapsed <= now
  /\ pc = "sleep" => Rested + (IF now < wake THEN wake - now ELSE 0) = Due
  /\ pc \in {"halt", "read", "go", "judge"} => Rested = Due

Schedule ==
  /\ pc \in Undecided \ Sampling => samples = <<>> /\ busy = 0
  /\ pc \in Sampling /\ Heartbeats /\ samples = <<>> => Rested = started
  /\ pc \in Sampling /\ Heartbeats /\ samples # <<>> => OnTime
  /\ pc \in {"record", "wait", "decide", "sleep"} => Heartbeats /\ samples # <<>>

(* The target since a record was read: counters of one boot only grow, and  *)
(* after a rest of more than a period each has grown; those of a later boot *)
(* are younger than the record.                                             *)
After(ram, read, rested) ==
  /\ read <= now /\ rested <= Rested /\ 0 < ram.boot /\ ram.boot <= target.ram.boot
  /\ target.ram.boot # ram.boot => target.uptime <= now - read
  /\ target.ram.boot = ram.boot =>
       /\ ram.heartbeat <= target.ram.heartbeat /\ ram.tick <= target.ram.tick
       /\ ram.evaluations <= target.ram.evaluations
       /\ ram.heartbeat = target.ram.heartbeat =>
            Rested - rested <= (IF target.step = "beat" THEN Period ELSE target.timer)
       /\ ram.tick = target.ram.tick =>
            Rested - rested <= (IF target.step \in {"beat", "stamp"} THEN Period ELSE target.timer)
       /\ ram.evaluations = target.ram.evaluations =>
            Rested - rested <= (IF target.step \in {"beat"} \cup Counting THEN Period
                                ELSE target.timer)

(* The same of two records.                                                 *)
Follows(ram, previous, span, rest) ==
  /\ previous.boot <= ram.boot
  /\ previous.boot # ram.boot => ram.heartbeat * Period <= span
  /\ previous.boot = ram.boot /\ rest > Period => Advanced(ram, previous)

Recent ==
  /\ pc \in Sampling /\ samples # <<>> => After(Last.ram, Last.read, RestedAt(Last))
  /\ pc \in {"go", "judge"} => After(reading, read_at, Rested)
  /\ pc \in {"go", "judge"} /\ samples # <<>> =>
       Follows(reading, Last.ram, read_at - Last.read, Rested - RestedAt(Last))

(* Accepted samples, one after the other.                                   *)
Spaced(sample, next) ==
  /\ next.at - sample.at <= args.interval + (next.busy - sample.busy)
  /\ sample.ram.boot = next.ram.boot \/ sample.ram.heartbeat * Period < next.read - sample.read

AllSpaced ==
  Heartbeats =>
    /\ samples # <<>> => samples[1].at - started <= samples[1].busy
    /\ \A i \in 1..Len(samples) - 1 : Spaced(samples[i], samples[i + 1])

(* The USB run.                                                             *)
Unmixed == ~Heartbeats /\ faults \cap {"traffic", "rerun"} = {}

Linked ==
  /\ pc = "start" => reading.rx = 0
  /\ Unmixed /\ target.ram.rx > 0 => hil.boot = target.ram.boot
  /\ Unmixed /\ reading.rx > 0 => hil.boot = reading.boot
  /\ Unmixed /\ pc \in Undecided \ {"start", "load"} =>
       linked.boot = hil.boot /\ linked.version = hil.version
  /\ Unmixed /\ pc \in Undecided \ {"start", "load", "hash"} => linked.hashed = linked.version

(* The documents.                                                           *)
Covered == Last.at - started + (busy - Last.busy)

Claim(document) ==
  IF Heartbeats
    THEN /\ Len(samples) >= 2 /\ Covered >= args.duration
         /\ document.qualified => args.program = "rtos005" \/ Covered >= Qualifying
    ELSE \/ samples[1].ram.boot = linked.boot /\ linked.hashed = linked.version
         \/ faults \cap {"traffic", "rerun"} # {}

Verdicts ==
  /\ pc \in Undecided => evidence.status = "RUNNING" /\ evidence.failure = "none"
  /\ pc \in Undecided /\ file.run = 1 => file.status = "RUNNING"
  /\ evidence.status = "PASS" => Claim(evidence)
  /\ Passed => Claim(file)
  /\ HealthyFailures

IInv ==
  Types /\ Handling /\ Faultless /\ Schedule /\ Recent /\ AllSpaced /\ Linked /\ Verdicts

-----------------------------------------------------------------------------
(* How a step moves the target, and what it leaves alone.                   *)
LEMMA Unfaulted ==
  ASSUME NEW kind, Fault(kind)
  PROVE  /\ faults \subseteq faults' /\ kind \in faults'
         /\ (faults \subseteq FaultKinds => faults' \subseteq FaultKinds)
BY DEF Fault

LEMMA Constant ==
  ASSUME [Next]_vars
  PROVE  /\ args' = args /\ faults \subseteq faults'
         /\ (faults \subseteq FaultKinds => faults' \subseteq FaultKinds)
<1> USE DEF external, sampling, collector, NoFault
<1>1. CASE Collector
  BY <1>1, Unfaulted DEF Collector, Start, LoadHil, HashHil, Create, SpawnServer, Halt,
     ReadTarget, Go, ValidateSample, ValidateSnapshot, Record, ReadClock, WaitOrPass, WakesUp,
     Conclude, Cleanup, WriteEvidence
<1>2. CASE Firmware
  BY <1>2, Unfaulted DEF Firmware, HealthTask, Evaluate
<1>3. CASE GdbFails \/ Interrupt
  BY <1>3, Unfaulted DEF GdbFails, Interrupt
<1>4. CASE Tick \/ Degrade \/ Reset \/ HilRuns \/ Traffic
  BY <1>4, Unfaulted DEF Tick, Degrade, Reset, HilRuns, Traffic
<1>5. CASE UNCHANGED vars
  BY <1>5 DEF vars
<1>6. QED
  BY <1>1, <1>2, <1>3, <1>4, <1>5 DEF Next

(* A step of the firmware, of time or of the outside leaves the collector   *)
(* alone, one of the collector the firmware's records.                      *)
TargetSteps == HealthTask \/ Evaluate \/ Tick \/ Degrade \/ Reset \/ HilRuns \/ Traffic

Switched == \E on \in BOOLEAN : target' = [target EXCEPT !.running = on]

LEMMA Sides ==
  ASSUME Types, [Next]_vars
  PROVE  \/ TargetSteps /\ UNCHANGED collector
         \/ (target' = target \/ Switched) /\ UNCHANGED <<args, now, busy, hil>>
<1> USE DEF external, sampling, collector
<1>1. CASE Collector
  BY <1>1 DEF Collector, Start, LoadHil, HashHil, Create, SpawnServer, Halt, ReadTarget, Go,
     ValidateSample, ValidateSnapshot, Record, ReadClock, WaitOrPass, WakesUp, Conclude, Cleanup,
     Switched
<1>2. CASE Firmware
  BY <1>2 DEF Firmware, HealthTask, Evaluate, TargetSteps
<1>3. CASE GdbFails \/ Interrupt
  BY <1>3 DEF GdbFails, Interrupt, Switched
<1>4. CASE Tick \/ Degrade \/ Reset \/ HilRuns \/ Traffic
  BY <1>4 DEF Tick, Degrade, Reset, HilRuns, Traffic, TargetSteps
<1>5. CASE UNCHANGED vars
  BY <1>5 DEF vars
<1>6. QED
  BY <1>1, <1>2, <1>3, <1>4, <1>5 DEF Next

-----------------------------------------------------------------------------
(* Types.                                                                   *)
LEMMA TickedTimer ==
  ASSUME NEW timer \in 0..Period - 1
  PROVE  /\ (timer + 1) % Period = IF timer + 1 = Period THEN 0 ELSE timer + 1
         /\ (timer + 1) % Period \in 0..Period - 1 /\ Period \in Nat /\ Period > 0
BY HealthAssumption

LEMMA TargetTyped ==
  ASSUME target \in Target, hil \in Hil, now \in Nat, busy \in Nat, TargetSteps
  PROVE  target' \in Target /\ hil' \in Hil /\ now' \in {now, now + 1} /\ busy' \in {busy, busy + 1}
<1> USE DEF Target
<1>1. ASSUME NEW field \in DOMAIN target.ram, NEW value, NEW next \in Handler,
             Store(field, value, next), [target.ram EXCEPT ![field] = value] \in Ram
      PROVE  target' \in Target
  BY <1>1 DEF Store
<1>2. CASE HealthTask
  <2>1. [target.ram EXCEPT !["heartbeat"] = target.ram.heartbeat + 1] \in Ram
    BY DEF Ram
  <2>2. [target.ram EXCEPT !["tick"] = target.uptime] \in Ram
    BY DEF Ram
  <2>3. QED
    BY <1>1, <1>2, <2>1, <2>2 DEF HealthTask, Handler, Ram
<1>3. CASE Evaluate
  <2>1. /\ [target.ram EXCEPT !["missing"] = FALSE] \in Ram
        /\ [target.ram EXCEPT !["missing"] = TRUE] \in Ram
    BY DEF Ram
  <2>2. /\ [target.ram EXCEPT !["evaluations"] = target.ram.evaluations + 1] \in Ram
        /\ [target.ram EXCEPT !["healthy"] = target.ram.healthy + 1] \in Ram
        /\ [target.ram EXCEPT !["healthy"] = target.ram.healthy + 0] \in Ram
    BY DEF Ram
  <2>3. QED
    BY <1>1, <1>3, <2>1, <2>2 DEF Evaluate, Handler, Ram
<1>4. ASSUME Tick PROVE target' \in Target
  <2>1. (target.timer + 1) % Period \in 0..Period - 1
    BY TickedTimer
  <2>2. CASE target' = target
    BY <2>2
  <2>3. CASE target.running
    <3>1. PICK step \in Handler :
            target' = [target EXCEPT !.uptime = target.uptime + 1,
                                     !.timer = (target.timer + 1) % Period, !.step = step]
      BY <1>4, <2>3 DEF Tick, Handler
    <3>2. target.uptime + 1 \in Nat /\ target.ram \in Ram
      OBVIOUS
    <3>3. QED
      BY <2>1, <3>1, <3>2
  <2>4. QED
    BY <1>4, <2>2, <2>3 DEF Tick
<1>5. CASE Degrade
  BY <1>5 DEF Degrade, Ram
<1>6. ASSUME Reset PROVE target' \in Target
  <2>1. 0 \in 0..Period - 1
    BY HealthAssumption
  <2>2. PICK at \in {0, 1}, cause \in {"por", "other"} :
          target' = [ram |-> [NoRam EXCEPT !.boot = target.ram.boot + 1, !.boot_tick = at,
                                           !.reset = cause],
                     step |-> "idle", running |-> TRUE, timer |-> 0, uptime |-> 0]
    BY <1>6 DEF Reset
  <2>3. target.ram.boot + 1 \in Nat
    BY DEF Ram
  <2>4. [NoRam EXCEPT !.boot = target.ram.boot + 1, !.boot_tick = at, !.reset = cause] \in Ram
    BY <2>3 DEF Ram, NoRam
  <2>5. QED
    BY <2>1, <2>2, <2>4 DEF Handler
<1>7. ASSUME HilRuns PROVE target' \in Target /\ hil' \in Hil
  <2>1. target' \in Target
    <3>1. target.ram.rx + 1 \in Nat /\ target.ram.tx + 1 \in Nat
      BY DEF Ram
    <3>2. [target.ram EXCEPT !.rx = target.ram.rx + 1, !.tx = target.ram.tx + 1] \in Ram
      BY <3>1 DEF Ram
    <3>3. target' = [target EXCEPT !.ram = [target.ram EXCEPT !.rx = target.ram.rx + 1,
                                                              !.tx = target.ram.tx + 1]]
      BY <1>7 DEF HilRuns
    <3>4. QED
      BY <3>2, <3>3
  <2>2. target.ram.boot \in Nat
    BY DEF Ram
  <2>3. PICK status \in {"PASS", "FAIL"} :
          hil' = [version |-> hil.version + 1, status |-> status, at |-> now, hashed |-> 0,
                  boot |-> target.ram.boot]
    BY <1>7 DEF HilRuns
  <2>4. hil' \in Hil
    BY <2>2, <2>3 DEF Hil
  <2>5. QED
    BY <2>1, <2>4
<1>8. CASE Traffic
  BY <1>8 DEF Traffic, Ram
<1>9. UNCHANGED hil \/ HilRuns
  BY DEF TargetSteps, HealthTask, Evaluate, Tick, Degrade, Reset, Traffic
<1>10. now' \in {now, now + 1} /\ busy' \in {busy, busy + 1}
  <2>1. CASE Tick
    BY <2>1 DEF Tick
  <2>2. CASE HealthTask \/ Evaluate \/ Degrade \/ Reset \/ HilRuns \/ Traffic
    BY <2>2 DEF HealthTask, Evaluate, Degrade, Reset, Traffic, HilRuns
  <2>3. QED
    BY <2>1, <2>2 DEF TargetSteps
<1>11. QED
  BY <1>2, <1>3, <1>4, <1>5, <1>6, <1>7, <1>8, <1>9, <1>10 DEF TargetSteps

LEMMA DocumentTyped ==
  ASSUME NEW document \in Document, NEW why \in Failures, RaiseWith(document, why)
  PROVE  evidence' \in Document /\ pc' = "conclude"
BY DEF RaiseWith, Document

LEMMA WrittenTyped ==
  ASSUME file \in Document, NEW document \in Document, NEW next, WriteEvidence(document, next)
  PROVE  evidence' \in Document /\ file' \in Document /\ pc' \in {next, "conclude"}
BY DocumentTyped DEF WriteEvidence, Failures

LEMMA SampleTyped ==
  ASSUME NEW S, NEW sample \in S, NEW taken \in Seq(S)
  PROVE  Append(taken, sample) \in Seq(S) /\ <<sample>> \in Seq(S)
BY AppendProperties

LEMMA TypesKept ==
  ASSUME Types, [Next]_vars
  PROVE  Types'
<1> USE DEF Types, Undecided, Decided, Sampling, external, sampling
<1>1. args' = args /\ args' \in Runs /\ faults' \subseteq FaultKinds
  BY Constant
<1>2. CASE TargetSteps /\ UNCHANGED collector
  BY <1>1, <1>2, TargetTyped DEF collector
<1>3. ASSUME target' = target \/ Switched PROVE target' \in Target
  BY <1>3 DEF Target, Switched
<1>4. \A why : Raise(why) /\ why \in Failures => evidence' \in Document /\ pc' = "conclude"
  BY DocumentTyped DEF Raise
<1>5. args.duration \in Nat /\ args.interval \in Nat
  BY HealthAssumption
<1>6. CASE Start
  BY <1>1, <1>3, <1>4, <1>6 DEF Start, Failures
<1>7. CASE LoadHil
  BY <1>1, <1>3, <1>4, <1>7 DEF LoadHil, Failures
<1>8. CASE HashHil
  <2>1. linked' \in Hil
    BY <1>8 DEF HashHil, Hil
  <2>2. QED
    BY <1>1, <1>3, <1>4, <1>8, <2>1 DEF HashHil, Failures
<1>9. CASE Create
  BY <1>1, <1>3, <1>9, WrittenTyped DEF Create
<1>10. CASE SpawnServer
  BY <1>1, <1>3, <1>4, <1>10 DEF SpawnServer, Failures
<1>11. CASE GdbFails
  BY <1>1, <1>3, <1>4, <1>11 DEF GdbFails, Failures, Switched
<1>12. CASE Halt \/ Go
  BY <1>1, <1>3, <1>12 DEF Halt, Go, Switched
<1>13. CASE ReadTarget
  BY <1>1, <1>3, <1>13 DEF ReadTarget, Target
<1>14. CASE ValidateSample
  <2> DEFINE record == Taken
  <2>1. samples' = samples \/ samples' = Append(samples, record)
    BY <1>14 DEF ValidateSample
  <2>2. record \in Sample /\ samples \in Seq(Sample)
    BY DEF Taken, Sample
  <2>3. samples' \in Seq(Sample)
    <3> HIDE DEF record
    <3>1. Append(samples, record) \in Seq(Sample)
      BY <2>2, SampleTyped
    <3>2. QED
      BY <2>1, <2>2, <3>1
  <2>4. (UNCHANGED evidence /\ pc' = "record") \/ \E why \in Failures : Raise(why)
    BY <1>14 DEF ValidateSample, Failures
  <2>5. QED
    BY <1>1, <1>3, <1>4, <1>14, <2>3, <2>4 DEF ValidateSample
<1>15. CASE ValidateSnapshot
  <2> DEFINE record == Taken
  <2>1. samples' = samples \/ samples' = <<record>>
    BY <1>15 DEF ValidateSnapshot
  <2>2. record \in Sample /\ samples \in Seq(Sample)
    BY DEF Taken, Sample
  <2>3. samples' \in Seq(Sample)
    <3> HIDE DEF record
    <3>1. <<record>> \in Seq(Sample)
      BY <2>2, SampleTyped
    <3>2. QED
      BY <2>1, <2>2, <3>1
  <2>4. \/ /\ evidence' = [evidence EXCEPT !.status = "PASS", !.qualified = TRUE, !.samples = 1]
           /\ pc' = "conclude"
        \/ Raise("clean")
    BY <1>15 DEF ValidateSnapshot
  <2>5. [evidence EXCEPT !.status = "PASS", !.qualified = TRUE, !.samples = 1] \in Document
    BY DEF Document
  <2>6. evidence' \in Document /\ pc' = "conclude"
    BY <1>4, <2>4, <2>5 DEF Failures
  <2>7. QED
    BY <1>1, <1>3, <1>15, <2>3, <2>6 DEF ValidateSnapshot
<1>16. CASE Record
  <2>1. [evidence EXCEPT !.samples = Len(samples)] \in Document
    BY LenProperties DEF Document
  <2>2. QED
    BY <1>1, <1>3, <1>16, <2>1, WrittenTyped DEF Record
<1>17. CASE WaitOrPass
  <2>1. wake' \in Nat
    BY <1>5, <1>17 DEF WaitOrPass, Smaller, Left
  <2>2. evidence' \in Document /\ pc' \in {"conclude", "sleep"}
    BY <1>17 DEF WaitOrPass, Document
  <2>3. QED
    BY <1>1, <1>3, <1>17, <2>1, <2>2 DEF WaitOrPass
<1>18. CASE WakesUp \/ ReadClock
  <2>1. CASE WakesUp
    BY <1>1, <1>3, <2>1 DEF WakesUp
  <2>2. CASE ReadClock
    <3>1. elapsed' \in Nat
      BY <2>2 DEF ReadClock
    <3>2. QED
      BY <1>1, <1>3, <2>2, <3>1 DEF ReadClock
  <2>3. QED
    BY <1>18, <2>1, <2>2
<1>19. CASE Conclude
  BY <1>1, <1>3, <1>4, <1>19 DEF Conclude, Failures
<1>20. CASE Cleanup
  BY <1>1, <1>3, <1>20 DEF Cleanup
<1>21. CASE Interrupt
  <2>1. evidence' \in Document
    BY <1>21 DEF Interrupt, Document
  <2>2. QED
    BY <1>1, <1>3, <1>21, <2>1 DEF Interrupt
<1>22. CASE UNCHANGED vars
  BY <1>1, <1>3, <1>22 DEF vars
<1>23. CASE Firmware \/ Tick \/ Degrade \/ Reset \/ HilRuns \/ Traffic
  BY <1>2, <1>23 DEF Firmware, TargetSteps, HealthTask, Evaluate, Tick, Degrade, Reset, HilRuns,
     Traffic
<1>24. QED
  BY <1>6, <1>7, <1>8, <1>9, <1>10, <1>11, <1>12, <1>13, <1>14, <1>15, <1>16, <1>17, <1>18, <1>19,
     <1>20, <1>21, <1>22, <1>23 DEF Next, Collector

-----------------------------------------------------------------------------
(* The handler.                                                             *)
LEMMA OneMorePeriod ==
  ASSUME NEW n \in Nat
  PROVE  (n + 1) * Period = n * Period + Period /\ n * Period \in Nat
BY HealthAssumption

LEMMA MorePeriods ==
  ASSUME NEW m \in Nat, NEW n \in Nat, m <= n
  PROVE  m * Period <= n * Period /\ m * Period \in Nat /\ n * Period \in Nat
BY HealthAssumption

LEMMA FewerPeriods ==
  ASSUME NEW m \in Nat, NEW n \in Nat, m < n
  PROVE  m * Period < n * Period /\ m * Period \in Nat /\ n * Period \in Nat
<1>1. m + 1 <= n /\ m + 1 \in Nat
  OBVIOUS
<1>2. (m + 1) * Period <= n * Period /\ n * Period \in Nat
  BY <1>1, MorePeriods
<1>3. (m + 1) * Period = m * Period + Period /\ m * Period \in Nat
  BY OneMorePeriod
<1>4. PICK a, b : a = m * Period /\ b = n * Period
  OBVIOUS
<1>5. a + Period <= b /\ a \in Nat /\ b \in Nat /\ Period \in Nat \ {0}
  BY <1>2, <1>3, <1>4, HealthAssumption
<1>6. QED
  BY <1>4, <1>5

(* The stores of the handler, with what they leave alone.                   *)
Stored(field, value, next) ==
  /\ target'.ram = [target.ram EXCEPT ![field] = value] /\ target'.step = next
  /\ UNCHANGED <<target.timer, target.uptime, now, busy>> /\ target.running /\ target'.running

LEMMA Stores ==
  ASSUME Types, HealthTask \/ Evaluate
  PROVE  \/ target.step = "beat" /\ Stored("heartbeat", target.ram.heartbeat + 1, "stamp")
         \/ target.step = "stamp" /\ Stored("tick", target.uptime, "vote")
         \/ target.step = "vote" /\ Stored("missing", FALSE, "count")
         \/ target.step = "vote" /\ Stored("missing", TRUE, "count") /\ "voter" \in faults'
         \/ target.step = "count" /\ Stored("evaluations", target.ram.evaluations + 1, "healthy")
         \/ /\ target.step = "healthy"
            /\ Stored("healthy", target.ram.healthy + (IF target.ram.missing THEN 0 ELSE 1), "idle")
<1>1. ASSUME NEW field, NEW value, NEW next, Store(field, value, next), target.running,
             UNCHANGED <<now, busy>>
      PROVE  Stored(field, value, next)
  BY <1>1 DEF Store, Stored, Types, Target
<1>2. CASE HealthTask
  BY <1>1, <1>2 DEF HealthTask, Executing
<1>3. CASE Evaluate
  BY <1>1, <1>3, Unfaulted DEF Evaluate, Executing
<1>4. QED
  BY <1>2, <1>3

LEMMA HandlingStored ==
  ASSUME Types, Handling, HealthTask \/ Evaluate, faults \subseteq faults'
  PROVE  Handling'
<1> USE DEF Handling, Counting, Beats, Stored
<1>1. /\ target.ram \in Ram /\ target.step \in Handler /\ target.timer \in Nat
      /\ target.uptime \in Nat /\ target \in Target
  BY HealthAssumption DEF Types, Target
<1>2. CASE target.step = "beat" /\ Stored("heartbeat", target.ram.heartbeat + 1, "stamp")
  BY <1>1, <1>2 DEF Ram
<1>3. CASE target.step = "stamp" /\ Stored("tick", target.uptime, "vote")
  BY <1>1, <1>3 DEF Ram
<1>4. CASE target.step = "vote" /\ Stored("missing", FALSE, "count")
  BY <1>1, <1>4 DEF Ram
<1>5. CASE target.step = "vote" /\ Stored("missing", TRUE, "count") /\ "voter" \in faults'
  BY <1>1, <1>5 DEF Ram
<1>6. CASE /\ target.step = "count"
           /\ Stored("evaluations", target.ram.evaluations + 1, "healthy")
  BY <1>1, <1>6 DEF Ram
<1>7. CASE /\ target.step = "healthy"
           /\ Stored("healthy", target.ram.healthy + (IF target.ram.missing THEN 0 ELSE 1), "idle")
  BY <1>1, <1>7 DEF Ram
<1>8. QED
  BY <1>2, <1>3, <1>4, <1>5, <1>6, <1>7, Stores

(* A tick of the clock, as the target sees it.                              *)
LEMMA Ticked ==
  ASSUME Types, Tick
  PROVE  /\ now' = now + 1 /\ target'.ram = target.ram /\ target'.running = target.running
         /\ pc \in Undecided
         /\ \/ busy' = busy /\ pc \in (Undecided \ Sampling) \cup {"sleep"}
               /\ (pc = "sleep" => now < wake)
            \/ busy' = busy + 1 /\ pc \in Sampling /\ ~(pc = "sleep" /\ now < wake)
         /\ target.running =>
              /\ target.step = "idle" /\ target'.uptime = target.uptime + 1
              /\ target'.step \in {"idle", "beat"}
              /\ target'.step = "beat" <=> target.timer + 1 = Period
              /\ target'.timer = (IF target.timer + 1 = Period THEN 0 ELSE target.timer + 1)
         /\ ~target.running => target' = target
<1>1. target \in Target /\ target.timer \in 0..Period - 1 /\ now \in Nat
  BY DEF Types, Target
<1>2. (target.timer + 1) % Period = IF target.timer + 1 = Period THEN 0 ELSE target.timer + 1
  BY <1>1, TickedTimer
<1>3. Period \in Nat /\ Period > 0
  BY HealthAssumption
<1>0. /\ pc \in Undecided
      /\ \/ busy' = busy /\ pc \in (Undecided \ Sampling) \cup {"sleep"}
            /\ (pc = "sleep" => now < wake)
         \/ busy' = busy + 1 /\ pc \in Sampling /\ ~(pc = "sleep" /\ now < wake)
  BY DEF Tick, Types, Undecided, Decided, Sampling, Preparing
<1>4. CASE target.running
  <2>1. target' = [target EXCEPT !.uptime = target.uptime + 1, !.timer = (target.timer + 1) % Period,
                                 !.step = IF (target.timer + 1) % Period = 0 THEN "beat"
                                          ELSE target.step]
    BY <1>4 DEF Tick
  <2>2. target.step = "idle"
    BY <1>4 DEF Tick
  <2>3. (target.timer + 1) % Period = 0 <=> target.timer + 1 = Period
    BY <1>1, <1>2, <1>3
  <2>4. /\ target'.ram = target.ram /\ target'.running = target.running
        /\ target'.uptime = target.uptime + 1 /\ target'.timer = (target.timer + 1) % Period
        /\ target'.step = IF (target.timer + 1) % Period = 0 THEN "beat" ELSE target.step
    BY <1>1, <2>1 DEF Target
  <2>5. now' = now + 1
    BY DEF Tick
  <2>6. QED
    BY <1>0, <1>2, <1>4, <2>2, <2>3, <2>4, <2>5
<1>5. CASE ~target.running
  <2>1. target' = target /\ now' = now + 1
    BY <1>5 DEF Tick
  <2>2. QED
    BY <1>0, <1>5, <2>1
<1>6. QED
  BY <1>1, <1>4, <1>5 DEF Target

LEMMA HandlingTicked ==
  ASSUME Types, Handling, Tick
  PROVE  Handling'
<1>1. /\ target.ram \in Ram /\ target.step \in Handler /\ target.timer \in Nat
      /\ target.uptime \in Nat /\ Period \in Nat /\ faults' = faults
  BY HealthAssumption DEF Types, Target, Tick
<1>2. target.ram.heartbeat \in Nat
  BY <1>1 DEF Ram
<1>3. /\ (target.ram.heartbeat + 1) * Period = target.ram.heartbeat * Period + Period
      /\ target.ram.heartbeat * Period \in Nat
  BY <1>2, OneMorePeriod
<1>4. CASE target.running
  <2>1. target.ram.boot > 1 => Beats' * Period + target'.timer <= target'.uptime
    <3>1. target.ram.boot > 1 => target.ram.heartbeat * Period + target.timer <= target.uptime
      BY <1>1, <1>2, <1>4, Ticked DEF Handling, Beats
    <3>2. CASE target'.step = "beat"
      <4>1. Beats' = target.ram.heartbeat + 1 /\ target'.timer = 0 /\ target.timer + 1 = Period
        BY <1>4, <3>2, Ticked DEF Beats
      <4>2. QED
        BY <1>1, <1>3, <1>4, <3>1, <4>1, Ticked
    <3>3. CASE target'.step = "idle"
      <4>1. Beats' = target.ram.heartbeat /\ target'.timer = target.timer + 1
        BY <1>1, <1>2, <1>4, <3>3, Ticked DEF Beats
      <4>2. QED
        BY <1>1, <1>3, <1>4, <3>1, <4>1, Ticked
    <3>4. QED
      BY <1>4, <3>2, <3>3, Ticked
  <2>2. target'.step # "idle" => target'.timer = 0
    BY <1>4, Ticked
  <2>3. target'.ram = target.ram /\ target'.uptime = target.uptime + 1
          /\ target.step = "idle" /\ target'.step \in {"idle", "beat"}
    BY <1>4, Ticked
  <2>4. QED
    BY <1>1, <2>1, <2>2, <2>3 DEF Handling, Counting, Ram
<1>5. CASE ~target.running
  BY <1>1, <1>5, Ticked DEF Handling, Beats
<1>6. QED
  BY <1>4, <1>5

LEMMA ResetTarget ==
  ASSUME Types, Reset
  PROVE  /\ target'.ram.boot = target.ram.boot + 1 /\ target'.step = "idle" /\ target'.running
         /\ target'.timer = 0 /\ target'.uptime = 0 /\ target'.ram.clean
         /\ target'.ram.heartbeat = 0 /\ target'.ram.tick = 0 /\ target'.ram.evaluations = 0
         /\ target'.ram.healthy = 0 /\ target'.ram.rx = 0 /\ "reset" \in faults'
         /\ UNCHANGED <<collector, now, busy, hil>>
<1>1. PICK at \in {0, 1}, cause \in {"por", "other"} :
        target' = [ram |-> [NoRam EXCEPT !.boot = target.ram.boot + 1, !.boot_tick = at,
                                         !.reset = cause],
                   step |-> "idle", running |-> TRUE, timer |-> 0, uptime |-> 0]
  BY DEF Reset
<1>2. "reset" \in faults' /\ UNCHANGED <<collector, now, busy, hil>>
  BY Unfaulted DEF Reset
<1>3. QED
  BY <1>1, <1>2 DEF NoRam

(* The other steps do not touch the handler.                                *)
Aside ==
  /\ target'.ram.boot = target.ram.boot /\ target'.step = target.step
  /\ target'.timer = target.timer /\ target'.uptime = target.uptime
  /\ target'.ram.heartbeat = target.ram.heartbeat /\ target'.ram.tick = target.ram.tick
  /\ target'.ram.evaluations = target.ram.evaluations
  /\ target'.ram.healthy = target.ram.healthy /\ target'.ram.missing = target.ram.missing
  /\ target'.ram.boot_tick = target.ram.boot_tick /\ target'.ram.reset = target.ram.reset

LEMMA Asides ==
  ASSUME Types, Degrade \/ HilRuns \/ Traffic \/ target' = target \/ Switched
  PROVE  Aside /\ target' \in Target
<1> USE DEF Aside
<1>1. target \in Target /\ target.ram \in Ram
  BY DEF Types, Target
<1>2. CASE Degrade
  BY <1>1, <1>2 DEF Degrade, Target, Ram
<1>3. CASE HilRuns
  <2>1. target' \in Target
    BY <1>1, <1>3, TargetTyped DEF Types, TargetSteps
  <2>2. QED
    BY <1>1, <1>3, <2>1 DEF HilRuns, Target, Ram
<1>4. CASE Traffic
  BY <1>1, <1>4 DEF Traffic, Target, Ram
<1>5. CASE target' = target \/ Switched
  BY <1>1, <1>5 DEF Switched, Target
<1>6. QED
  BY <1>2, <1>3, <1>4, <1>5

LEMMA HandlingKept ==
  ASSUME Types, Handling, [Next]_vars
  PROVE  Handling'
<1>1. faults \subseteq faults'
  BY Constant
<1>2. CASE Aside
  BY <1>1, <1>2 DEF Handling, Aside, Beats
<1>3. CASE Reset
  <2>1. target.ram.boot \in Nat
    BY DEF Types, Target, Ram
  <2>2. 0 * Period = 0
    BY HealthAssumption
  <2>3. QED
    BY <1>3, <2>1, <2>2, ResetTarget DEF Handling, Beats, Counting
<1>4. CASE HealthTask \/ Evaluate
  BY <1>1, <1>4, HandlingStored
<1>5. CASE Tick
  BY <1>5, HandlingTicked
<1>6. QED
  BY <1>2, <1>3, <1>4, <1>5, Sides, Asides DEF TargetSteps

-----------------------------------------------------------------------------
(* After a record was read.                                                 *)
LEMMA AfterStored ==
  ASSUME Types, Handling, HealthTask \/ Evaluate, NEW ram \in Ram, NEW read \in Nat,
         NEW rested \in Int, After(ram, read, rested)
  PROVE  After(ram, read, rested)'
<1> USE DEF After, Counting, Stored, Handling, Rested
<1>1. /\ target.ram \in Ram /\ target.step \in Handler /\ target.timer \in Nat
      /\ target.uptime \in Nat /\ now \in Nat /\ busy \in Nat /\ Period \in Nat
  BY HealthAssumption DEF Types, Target
<1>2. CASE target.step = "beat" /\ Stored("heartbeat", target.ram.heartbeat + 1, "stamp")
  BY <1>1, <1>2 DEF Ram
<1>3. CASE target.step = "stamp" /\ Stored("tick", target.uptime, "vote")
  BY <1>1, <1>3 DEF Ram
<1>4. ASSUME NEW value, target.step = "vote", Stored("missing", value, "count")
      PROVE  After(ram, read, rested)'
  BY <1>1, <1>4 DEF Ram
<1>5. CASE /\ target.step = "count"
           /\ Stored("evaluations", target.ram.evaluations + 1, "healthy")
  BY <1>1, <1>5 DEF Ram
<1>6. CASE /\ target.step = "healthy"
           /\ Stored("healthy", target.ram.healthy + (IF target.ram.missing THEN 0 ELSE 1), "idle")
  BY <1>1, <1>6 DEF Ram
<1>7. QED
  BY <1>2, <1>3, <1>4, <1>5, <1>6, Stores

(* Time that is rest passes with the core running, and moves its timer.     *)
LEMMA AfterTicked ==
  ASSUME Types, Handling, Tick, busy' = busy => target.running, NEW ram \in Ram,
         NEW read \in Nat, NEW rested \in Int, After(ram, read, rested)
  PROVE  After(ram, read, rested)'
<1>1. /\ target.ram \in Ram /\ target.timer \in 0..Period - 1 /\ target.step \in Handler
      /\ target.uptime \in Nat /\ now \in Nat /\ busy \in Nat /\ Period \in Nat
  BY HealthAssumption DEF Types, Target
<1>2. now' = now + 1 /\ busy' \in {busy, busy + 1} /\ target'.ram = target.ram
  BY Ticked
<1>3. Rested \in Int /\ Rested' = (IF busy' = busy THEN Rested + 1 ELSE Rested)
  <2>1. CASE busy' = busy
    BY <1>1, <1>2, <2>1 DEF Rested
  <2>2. CASE busy' = busy + 1
    <3>1. Rested' = Rested /\ Rested \in Int /\ busy' # busy
      BY <1>1, <1>2, <2>2 DEF Rested
    <3>2. QED
      BY <3>1
  <2>3. QED
    BY <1>2, <2>1, <2>2
<1>4. CASE target.running
  <2>1. /\ target.step = "idle" /\ target'.uptime = target.uptime + 1
        /\ target'.step \in {"idle", "beat"}
        /\ target'.step = "beat" => target.timer + 1 = Period
        /\ target'.step = "idle" => target'.timer = target.timer + 1
    BY <1>1, <1>4, Ticked
  <2>2. Rested <= Rested' /\ Rested' <= Rested + 1
    BY <1>3
  <2>3. QED
    BY <1>1, <1>2, <1>3, <2>1, <2>2 DEF After, Counting
<1>5. CASE ~target.running
  <2>1. target' = target /\ Rested' = Rested
    BY <1>2, <1>3, <1>5, Ticked
  <2>2. QED
    BY <1>1, <1>2, <2>1 DEF After
<1>6. QED
  BY <1>4, <1>5

LEMMA AfterAside ==
  ASSUME Aside, UNCHANGED <<now, busy>>, NEW ram, NEW read, NEW rested, After(ram, read, rested)
  PROVE  After(ram, read, rested)'
BY DEF Aside, After, Rested

LEMMA AfterReset ==
  ASSUME Types, Reset, NEW ram \in Ram, NEW read \in Nat, NEW rested \in Int,
         After(ram, read, rested)
  PROVE  After(ram, read, rested)'
<1>1. target.ram.boot \in Nat /\ ram.boot \in Nat /\ now \in Nat
  BY DEF Types, Target, Ram
<1>2. QED
  BY <1>1, ResetTarget DEF After, Rested

LEMMA AfterKept ==
  ASSUME Types, Handling, [Next]_vars, Tick /\ busy' = busy => target.running,
         NEW ram \in Ram, NEW read \in Nat, NEW rested \in Int, After(ram, read, rested)
  PROVE  After(ram, read, rested)'
<1>1. CASE TargetSteps
  <2>1. CASE Degrade \/ HilRuns \/ Traffic
    BY <2>1, Asides, AfterAside DEF Degrade, HilRuns, Traffic
  <2>2. QED
    BY <1>1, <2>1, AfterStored, AfterTicked, AfterReset DEF TargetSteps
<1>2. CASE target' = target \/ Switched
  BY <1>1, <1>2, Sides, Asides, AfterAside
<1>3. QED
  BY <1>1, <1>2, Sides

(* At the moment of reading.                                                *)
LEMMA AfterReading ==
  ASSUME Types, Handling
  PROVE  After(target.ram, now, Rested)
<1>1. /\ target.ram \in Ram /\ target.timer \in Nat /\ now \in Nat /\ Period \in Nat
      /\ Rested \in Int
  BY HealthAssumption DEF Types, Target, Rested
<1>2. QED
  BY <1>1 DEF After, Ram, Handling

LEMMA FollowsReading ==
  ASSUME Types, Handling, NEW ram \in Ram, NEW read \in Nat, NEW rested \in Int,
         After(ram, read, rested)
  PROVE  Follows(target.ram, ram, now - read, Rested - rested)
<1>1. /\ target.ram \in Ram /\ target.timer \in 0..Period - 1 /\ now \in Nat
      /\ target.uptime \in Nat /\ Period \in Nat /\ target.step \in Handler /\ Rested \in Int
  BY HealthAssumption DEF Types, Target, Rested
<1>2. /\ target.ram.heartbeat \in Nat /\ target.ram.boot \in Nat /\ ram.boot \in Nat
      /\ target.ram.tick \in Nat /\ target.ram.evaluations \in Nat
      /\ ram.heartbeat \in Nat /\ ram.tick \in Nat /\ ram.evaluations \in Nat
  BY <1>1 DEF Ram
<1>3. ram.boot <= target.ram.boot
  BY DEF After
<1>4. ASSUME ram.boot # target.ram.boot PROVE target.ram.heartbeat * Period <= now - read
  <2>1. target.ram.boot > 1
    BY <1>2, <1>4 DEF After
  <2>2. Beats * Period + target.timer <= target.uptime /\ target.uptime <= now - read
    BY <1>4, <2>1 DEF Handling, After
  <2>3. Beats \in Nat /\ target.ram.heartbeat <= Beats
    BY <1>2 DEF Beats
  <2>4. QED
    BY <1>1, <1>2, <2>2, <2>3, MorePeriods
<1>5. ASSUME ram.boot = target.ram.boot, Rested - rested > Period PROVE Advanced(target.ram, ram)
  BY <1>1, <1>2, <1>5 DEF After, Advanced
<1>6. QED
  BY <1>3, <1>4, <1>5 DEF Follows

-----------------------------------------------------------------------------
(* How the collector moves: on, to a decision, or not at all.               *)
OnwardSteps ==
  Start \/ LoadHil \/ HashHil \/ Create \/ SpawnServer \/ Halt \/ ReadTarget \/ Go
    \/ ValidateSample \/ Record \/ ReadClock \/ WaitOrPass \/ WakesUp

Onward == OnwardSteps /\ pc' \in Undecided

Decides == pc' \in Decided /\ UNCHANGED <<args, now, busy, started, reading, samples, hil>>

LEMMA Moves ==
  ASSUME Types, [Next]_vars
  PROVE  \/ TargetSteps /\ UNCHANGED collector
         \/ Onward \/ Decides \/ ValidateSnapshot \/ UNCHANGED vars
<1> USE DEF external, sampling, collector, Decides, Decided
<1>1. CASE OnwardSteps
  <2>1. pc' \in Undecided
          \/ (pc' = "conclude" /\ UNCHANGED <<args, now, busy, started, reading, samples, hil>>)
    BY <1>1 DEF OnwardSteps, Start, LoadHil, HashHil, Create, SpawnServer, Halt, ReadTarget, Go,
       ValidateSample, Record, ReadClock, WaitOrPass, WakesUp, WriteEvidence, Raise, RaiseWith,
       Undecided, Sampling
  <2>2. QED
    BY <1>1, <2>1 DEF Onward
<1>2. CASE Conclude \/ Cleanup \/ GdbFails \/ Interrupt
  BY <1>2 DEF Conclude, Cleanup, GdbFails, Interrupt, Raise, RaiseWith
<1>3. CASE Firmware \/ Tick \/ Degrade \/ Reset \/ HilRuns \/ Traffic
  BY <1>3 DEF Firmware, TargetSteps, HealthTask, Evaluate, Tick, Degrade, Reset, HilRuns, Traffic
<1>4. QED
  BY <1>1, <1>2, <1>3 DEF Next, Collector, OnwardSteps

LEMMA OnwardMoves ==
  ASSUME Onward
  PROVE  /\ UNCHANGED external
         /\ \/ Start /\ pc' \in {"spawn", "load"} /\ (pc' = "spawn" => Heartbeats)
            \/ LoadHil /\ pc' = "hash"
            \/ HashHil /\ pc' = "create"
            \/ Create /\ pc' = "spawn"
            \/ SpawnServer /\ pc' = "halt"
            \/ Halt
            \/ ReadTarget
            \/ Go
            \/ ValidateSample /\ pc' = "record"
            \/ Record /\ pc' = "wait"
            \/ ReadClock /\ pc' = "decide"
            \/ WaitOrPass /\ pc' = "sleep"
            \/ WakesUp
BY DEF Onward, OnwardSteps, Start, LoadHil, HashHil, Create, SpawnServer, Halt, ReadTarget, Go,
   ValidateSample, Record, ReadClock, WaitOrPass, WakesUp, WriteEvidence, Raise, RaiseWith,
   Undecided, Sampling, external

(* The records change only where one is read or accepted.                   *)
LEMMA Readings ==
  ASSUME Types, [Next]_vars
  PROVE  /\ reading' = reading \/ ReadTarget
         /\ \/ samples' = samples
            \/ /\ ValidateSample /\ pc' = "record"
               /\ samples' = Append(samples, Taken)
            \/ /\ ValidateSnapshot /\ pc' = "conclude"
               /\ samples' = <<Taken>>
<1>1. CASE TargetSteps /\ UNCHANGED collector
  BY <1>1 DEF collector, sampling
<1>2. CASE Onward
  BY <1>2 DEF Onward, OnwardSteps, Start, LoadHil, HashHil, Create, SpawnServer, Halt, ReadTarget,
     Go, ValidateSample, Record, ReadClock, WaitOrPass, WakesUp, sampling
<1>3. CASE Decides \/ UNCHANGED vars
  BY <1>3 DEF Decides, vars
<1>4. CASE ValidateSnapshot
  BY <1>4 DEF ValidateSnapshot
<1>5. QED
  BY <1>1, <1>2, <1>3, <1>4, Moves

-----------------------------------------------------------------------------
(* What cannot be seen without a fault.                                     *)
LEMMA FirstBootKept ==
  ASSUME Types, [Next]_vars, "reset" \notin faults', FirstBoot(target.ram)
  PROVE  FirstBoot(target.ram)'
<1> USE DEF FirstBoot
<1>1. target.ram \in Ram
  BY DEF Types, Target
<1>2. CASE HealthTask \/ Evaluate
  BY <1>1, <1>2, Stores DEF Stored, Ram
<1>3. CASE Tick
  BY <1>3, Ticked
<1>4. CASE Reset
  BY <1>4, ResetTarget
<1>5. CASE Aside
  BY <1>5 DEF Aside
<1>6. QED
  BY <1>2, <1>3, <1>4, <1>5, Sides, Asides DEF TargetSteps

LEMMA CleanKept ==
  ASSUME Types, [Next]_vars, "health" \notin faults', target.ram.clean
  PROVE  target'.ram.clean
<1>1. target \in Target /\ target.ram \in Ram
  BY DEF Types, Target
<1>2. CASE HealthTask \/ Evaluate
  BY <1>1, <1>2, Stores DEF Stored, Ram
<1>3. CASE Tick
  BY <1>3, Ticked
<1>4. CASE Reset
  BY <1>4, ResetTarget
<1>5. CASE Degrade
  BY <1>5, Unfaulted DEF Degrade
<1>6. CASE HilRuns \/ Traffic
  <2>1. CASE HilRuns
    BY <1>1, <2>1 DEF HilRuns, Target, Ram
  <2>2. CASE Traffic
    BY <1>1, <2>2 DEF Traffic, Target, Ram
  <2>3. QED
    BY <1>6, <2>1, <2>2
<1>7. CASE target' = target \/ Switched
  BY <1>1, <1>7 DEF Switched, Target
<1>8. QED
  BY <1>2, <1>3, <1>4, <1>5, <1>6, <1>7, Sides DEF TargetSteps

LEMMA RunningKept ==
  ASSUME Types, Faultless, [Next]_vars, pc' \in Undecided \ {"read", "go"}
  PROVE  target'.running
<1> USE DEF Undecided, Decided, Sampling
<1>1. target \in Target
  BY DEF Types
<1>2. CASE TargetSteps /\ UNCHANGED collector
  <2>1. target.running
    BY <1>2 DEF Faultless, collector
  <2>2. CASE HealthTask \/ Evaluate
    BY <2>2, Stores DEF Stored
  <2>3. CASE Tick \/ Reset
    BY <2>1, <2>3, Ticked, ResetTarget
  <2>4. CASE Degrade \/ HilRuns \/ Traffic
    BY <1>1, <2>1, <2>4 DEF Degrade, HilRuns, Traffic, Target
  <2>5. QED
    BY <1>2, <2>2, <2>3, <2>4 DEF TargetSteps
<1>3. CASE Onward
  <2>1. CASE Go
    BY <1>1, <2>1 DEF Go, Target
  <2>2. CASE Start \/ LoadHil \/ HashHil \/ Create \/ SpawnServer \/ ValidateSample \/ Record
               \/ ReadClock \/ WaitOrPass \/ WakesUp
    BY <2>2 DEF Start, LoadHil, HashHil, Create, SpawnServer, ValidateSample, Record, ReadClock,
       WaitOrPass, WakesUp, Faultless
  <2>3. CASE Halt \/ ReadTarget
    BY <2>3 DEF Halt, ReadTarget
  <2>4. QED
    BY <1>3, <2>1, <2>2, <2>3, OnwardMoves
<1>4. CASE UNCHANGED vars
  BY <1>4 DEF vars, Faultless
<1>5. QED
  BY <1>2, <1>3, <1>4, Moves DEF Decides, ValidateSnapshot, Raise, RaiseWith

LEMMA FaultlessKept ==
  ASSUME Types, Handling, Faultless, [Next]_vars
  PROVE  Faultless'
<1>1. faults \subseteq faults'
  BY Constant
<1>2. target.ram \in Ram /\ reading \in Ram
  BY DEF Types, Target
<1>3. ASSUME "reset" \notin faults' PROVE FirstBoot(target.ram)' /\ FirstBoot(reading)'
  <2>1. FirstBoot(target.ram) /\ FirstBoot(reading)
    BY <1>1, <1>3 DEF Faultless
  <2>2. QED
    BY <1>3, <2>1, FirstBootKept, Readings DEF ReadTarget, FirstBoot
<1>4. ASSUME "reset" \notin faults', NEW i \in 1..Len(samples') PROVE FirstBoot(samples'[i].ram)
  <2>1. /\ \A k \in 1..Len(samples) : FirstBoot(samples[k].ram)
        /\ FirstBoot(reading)
    BY <1>1, <1>4 DEF Faultless
  <2> DEFINE record == Taken
  <2>2. record.ram = reading /\ samples \in Seq(Sample)
    BY DEF Types, Taken
  <2> HIDE DEF record
  <2>3. CASE samples' = Append(samples, record)
    BY <1>4, <2>1, <2>2, <2>3, AppendProperties
  <2>4. CASE samples' = <<record>>
    BY <1>4, <2>1, <2>2, <2>4
  <2>5. QED
    BY <1>4, <2>1, <2>3, <2>4, Readings DEF record
<1>5. ASSUME "health" \notin faults' PROVE target'.ram.clean /\ reading'.clean
  <2>1. target.ram.clean /\ reading.clean
    BY <1>1, <1>5 DEF Faultless
  <2>2. QED
    BY <1>5, <2>1, CleanKept, Readings DEF ReadTarget
<1>6. ASSUME faults' \cap {"reset", "voter"} = {}, reading'.boot > 0
      PROVE  ~reading'.missing /\ reading'.evaluations \in {reading'.healthy, reading'.healthy + 1}
  <2>1. faults \cap {"reset", "voter"} = {}
    BY <1>1, <1>6
  <2>2. CASE reading' = reading
    BY <1>6, <2>1, <2>2 DEF Faultless
  <2>3. CASE ReadTarget
    BY <1>2, <2>1, <2>3 DEF ReadTarget, Handling, Ram
  <2>4. QED
    BY <2>2, <2>3, Readings
<1>7. ASSUME pc' \in {"go", "judge"} PROVE reading'.boot > 0
  <2>1. CASE ReadTarget
    BY <2>1 DEF ReadTarget, Handling
  <2>2. CASE TargetSteps /\ UNCHANGED collector
    BY <1>7, <2>2 DEF collector, sampling, Faultless
  <2>3. CASE Onward
    BY <1>7, <2>1, <2>3, OnwardMoves DEF Halt, Go, WakesUp, Faultless, sampling
  <2>4. CASE UNCHANGED vars
    BY <1>7, <2>4 DEF vars, Faultless
  <2>5. QED
    BY <1>7, <2>2, <2>3, <2>4, Moves DEF Decides, Decided, ValidateSnapshot, Raise, RaiseWith
<1>8. QED
  BY <1>3, <1>4, <1>5, <1>6, <1>7, RunningKept DEF Faultless

-----------------------------------------------------------------------------
(* The schedule.                                                            *)
LEMMA ArgsTyped ==
  ASSUME Types
  PROVE  /\ args.duration \in Nat /\ args.interval \in Nat /\ args.interval > 0
<1>1. args \in Runs
  BY DEF Types
<1>2. args.duration \in Nat /\ args.interval \in Nat \ {0}
  BY <1>1, HealthAssumption
<1>3. QED
  BY <1>2

LEMMA LastTyped ==
  ASSUME Types, samples # <<>>
  PROVE  /\ Len(samples) \in Nat /\ Len(samples) > 0 /\ Last.ram \in Ram
         /\ Last.read \in Nat /\ Last.at \in Nat /\ Last.busy \in Nat
<1>1. samples \in Seq(Sample)
  BY DEF Types
<1>2. Len(samples) \in Nat /\ Len(samples) > 0
  BY <1>1, EmptySeq, LenProperties
<1>3. Last \in Sample
  <2>1. Len(samples) \in 1..Len(samples)
    BY <1>2
  <2>2. QED
    BY <1>1, <2>1, ElementOfSeq DEF Last
<1>4. QED
  BY <1>2, <1>3 DEF Sample

LEMMA TakenTyped ==
  ASSUME Types
  PROVE  /\ Taken \in Sample /\ Taken.ram = reading /\ Taken.read = read_at /\ Taken.at = now
         /\ Taken.busy = busy /\ RestedAt(Taken) = Rested /\ Rested \in Int
BY DEF Types, Taken, Sample, RestedAt, Rested

LEMMA AppendedLast ==
  ASSUME Types, NEW record \in Sample, samples' = Append(samples, record)
  PROVE  /\ Last' = record /\ samples' # <<>> /\ Len(samples') = Len(samples) + 1
         /\ \A i \in 1..Len(samples) : samples'[i] = samples[i]
<1>1. samples \in Seq(Sample)
  BY DEF Types
<1>2. /\ samples' # <<>> /\ Len(samples') = Len(samples) + 1
      /\ \A i \in 1..Len(samples) : samples'[i] = samples[i]
      /\ samples'[Len(samples) + 1] = record
  BY <1>1, AppendProperties
<1>3. QED
  BY <1>2 DEF Last

LEMMA SleepTyped ==
  ASSUME Types
  PROVE  Smaller(args.interval, Left) \in 0..args.interval
BY ArgsTyped DEF Types, Smaller, Left

(* An accepted sample rests on what the sleep before it was to last.        *)
LEMMA ScheduleAccepted ==
  ASSUME Types, Schedule, ValidateSample, pc' = "record", samples' = Append(samples, Taken),
         UNCHANGED <<args, now, busy, started>>
  PROVE  Schedule'
<1>1. Last' = Taken /\ samples' # <<>>
  BY TakenTyped, AppendedLast
<1>2. pc = "judge" /\ Heartbeats /\ Heartbeats'
  BY DEF ValidateSample, Heartbeats
<1>3. Rested' = RestedAt(Last)'
  BY <1>1, TakenTyped DEF Rested, RestedAt
<1>4. QED
  BY <1>1, <1>2, <1>3 DEF OnTime, Schedule, Undecided, Sampling

LEMMA ScheduleSlept ==
  ASSUME Types, Schedule, WaitOrPass, pc' = "sleep", UNCHANGED <<args, now, busy, samples>>
  PROVE  Schedule'
<1>1. pc = "decide" /\ wake' = now + Smaller(args.interval, Left) /\ elapsed' = elapsed
  BY DEF WaitOrPass
<1>2. Heartbeats /\ Heartbeats' /\ samples # <<>> /\ Rested = RestedAt(Last)
  BY <1>1 DEF Schedule, OnTime, Heartbeats, Sampling
<1>3. Due' = Due /\ Rested' = Rested
  BY <1>1 DEF Due, RestedAt, Last, Left, Smaller, Rested
<1>4. PICK length : length = Smaller(args.interval, Left)
  OBVIOUS
<1>5. length \in Nat /\ now \in Nat /\ Rested \in Int
  BY <1>4, SleepTyped, TakenTyped, ArgsTyped DEF Types
<1>6. (IF now < now + length THEN now + length - now ELSE 0) = length
  BY <1>5
<1>7. Rested' + (IF now' < wake' THEN wake' - now' ELSE 0) = Due'
  <2>1. Due = Rested + length
    BY <1>2, <1>4 DEF Due
  <2>2. wake' = now + length /\ now' = now
    BY <1>1, <1>4
  <2>3. QED
    BY <1>3, <1>5, <1>6, <2>1, <2>2
<1>8. QED
  BY <1>2, <1>7 DEF Schedule, OnTime, Undecided, Sampling

(* Time passes: as rest in a sleep, as work otherwise.                      *)
LEMMA ScheduleTicked ==
  ASSUME Types, Schedule, Tick, UNCHANGED collector
  PROVE  Schedule'
<1>1. /\ now \in Nat /\ busy \in Nat /\ wake \in Nat /\ started \in Nat /\ elapsed \in Nat
      /\ Rested \in Int /\ now' = now + 1 /\ pc \in Undecided
  BY TakenTyped, Ticked DEF Types
<1>2. /\ UNCHANGED <<pc, wake, started, elapsed, samples, args>> /\ Due' = Due
      /\ RestedAt(Last)' = RestedAt(Last) /\ (Heartbeats' <=> Heartbeats)
  BY DEF collector, sampling, Due, RestedAt, Last, Left, Smaller, Heartbeats
<1>3. CASE busy' = busy /\ pc \in Undecided \ Sampling
  BY <1>2, <1>3 DEF Schedule, Undecided, Sampling
<1>4. CASE busy' = busy /\ pc = "sleep" /\ now < wake
  <2>1. Rested' = Rested + 1
    BY <1>1, <1>4 DEF Rested
  <2>2. (IF now < wake THEN wake - now ELSE 0) = 1 + (IF now' < wake THEN wake - now' ELSE 0)
    BY <1>1, <1>4
  <2>3. Rested + (IF now < wake THEN wake - now ELSE 0) = Due /\ Heartbeats /\ samples # <<>>
    BY <1>4 DEF Schedule, OnTime, Sampling
  <2>4. Rested' + (IF now' < wake' THEN wake' - now' ELSE 0) = Due'
    <3>1. (IF now' < wake THEN wake - now' ELSE 0) \in Int
      BY <1>1
    <3>2. QED
      BY <1>1, <1>2, <2>1, <2>2, <2>3, <3>1
  <2>5. QED
    BY <1>2, <1>4, <2>3, <2>4 DEF Schedule, OnTime, Undecided, Sampling
<1>5. CASE busy' = busy + 1 /\ pc \in Sampling /\ ~(pc = "sleep" /\ now < wake)
  <2>1. Rested' = Rested
    BY <1>1, <1>5 DEF Rested
  <2>2. OnTime => OnTime'
    BY <1>1, <1>2, <1>5, <2>1 DEF OnTime
  <2>3. QED
    BY <1>2, <1>5, <2>1, <2>2 DEF Schedule, Undecided, Sampling
<1>6. QED
  BY <1>3, <1>4, <1>5, Ticked

LEMMA ScheduleKept ==
  ASSUME Types, Schedule, [Next]_vars
  PROVE  Schedule'
<1> USE DEF Due, RestedAt, Last, Left, Smaller, Heartbeats, Rested
<1>1. /\ now \in Nat /\ busy \in Nat /\ started \in Nat /\ started <= now
  BY DEF Types
<1>2. CASE TargetSteps /\ UNCHANGED collector
  <2>1. CASE Tick
    BY <1>2, <2>1, ScheduleTicked
  <2>2. CASE UNCHANGED <<now, busy>>
    BY <1>2, <2>2 DEF collector, sampling, Schedule, OnTime
  <2>3. QED
    BY <1>2, <2>1, <2>2 DEF TargetSteps, HealthTask, Evaluate, Degrade, Reset, HilRuns, Traffic
<1>3. CASE Onward
  <2>1. UNCHANGED <<args, now, busy>>
    BY <1>3, OnwardMoves DEF external
  <2>2. CASE \/ Start /\ pc' \in {"spawn", "load"}
             \/ LoadHil /\ pc' = "hash"
             \/ HashHil /\ pc' = "create"
             \/ Create /\ pc' = "spawn"
    BY <2>1, <2>2 DEF Start, LoadHil, HashHil, Create, sampling, Schedule, Undecided, Sampling
  <2>3. CASE SpawnServer /\ pc' = "halt"
    <3>1. samples' = samples /\ samples = <<>> /\ started' = now /\ busy = 0
      BY <2>3 DEF SpawnServer, Schedule, Undecided, Sampling, Raise, RaiseWith
    <3>2. QED
      BY <1>1, <2>1, <2>3, <3>1 DEF Schedule, Undecided, Sampling
  <2>4. CASE Halt \/ ReadTarget \/ Go
    <3>1. UNCHANGED <<args, now, busy, started, elapsed, samples, wake>>
      BY <2>4 DEF Halt, ReadTarget, Go, sampling, external
    <3>2. pc \in {"halt", "read", "go"} /\ pc' \in {"read", "go", "judge"}
      BY <2>4 DEF Halt, ReadTarget, Go
    <3>3. QED
      BY <3>1, <3>2 DEF Schedule, OnTime, Undecided, Sampling
  <2>5. CASE ValidateSample /\ pc' = "record"
    <3>1. samples' = Append(samples, Taken) /\ started' = started
      BY <2>5 DEF ValidateSample, Raise, RaiseWith
    <3>2. QED
      BY <2>1, <2>5, <3>1, ScheduleAccepted
  <2>6. CASE Record /\ pc' = "wait"
    BY <2>6 DEF Record, sampling, external, Schedule, OnTime, Undecided, Sampling
  <2>7. CASE ReadClock
    <3>1. /\ pc = "wait" /\ pc' = "decide" /\ elapsed' = now - started
          /\ UNCHANGED <<args, now, busy, started, samples>>
      BY <2>7 DEF ReadClock, external
    <3>2. started' + elapsed' <= now'
      BY <1>1, <3>1
    <3>3. QED
      BY <3>1, <3>2 DEF Schedule, OnTime, Undecided, Sampling
  <2>8. CASE WaitOrPass /\ pc' = "sleep"
    BY <2>8, ScheduleSlept DEF WaitOrPass, external
  <2>9. CASE WakesUp
    <3>1. /\ UNCHANGED <<args, now, busy, started, elapsed, samples, wake>>
          /\ pc = "sleep" /\ pc' = "halt" /\ now >= wake /\ wake \in Nat
      BY <2>9 DEF WakesUp, sampling, external, Types
    <3>2. ~(now < wake)
      BY <1>1, <3>1
    <3>3. samples # <<>> /\ Heartbeats /\ OnTime
      BY <3>1 DEF Schedule, Sampling
    <3>4. Rested = Due
      BY <1>1, <3>1, <3>2, <3>3 DEF OnTime
    <3>5. QED
      BY <3>1, <3>3, <3>4 DEF Schedule, OnTime, Undecided, Sampling
  <2>10. QED
    BY <1>3, <2>2, <2>3, <2>4, <2>5, <2>6, <2>7, <2>8, <2>9, OnwardMoves
<1>4. CASE pc' \in Decided
  BY <1>4 DEF Schedule, Undecided, Sampling, Decided
<1>5. CASE UNCHANGED vars
  BY <1>5 DEF vars, Schedule, OnTime
<1>6. QED
  BY <1>2, <1>3, <1>4, <1>5, Moves DEF Decides, ValidateSnapshot, Decided, Raise, RaiseWith

-----------------------------------------------------------------------------
(* The records of one run.                                                  *)
LEMMA AwakeTicks ==
  ASSUME Types, Faultless, Tick, busy' = busy
  PROVE  target.running
BY Ticked DEF Types, Faultless, Undecided, Sampling

LEMMA StillAfter ==
  ASSUME Types, Handling, Faultless, [Next]_vars, NEW ram \in Ram, NEW read \in Nat,
         NEW rested \in Int, After(ram, read, rested)
  PROVE  After(ram, read, rested)'
BY AwakeTicks, AfterKept

(* All of a session is work, and only a reading gives another record.       *)
LEMMA WithoutRest ==
  ASSUME Types, [Next]_vars, pc' \in {"go", "judge"}
  PROVE  /\ Rested' = Rested
         /\ \/ pc \in {"go", "judge"} /\ UNCHANGED <<reading, read_at, samples>>
            \/ /\ ReadTarget /\ UNCHANGED <<now, target, samples>> /\ pc = "read"
               /\ reading' = target.ram /\ read_at' = now
<1>1. CASE TargetSteps /\ UNCHANGED collector
  <2>1. pc \in {"go", "judge"} /\ UNCHANGED <<reading, read_at, samples>>
    BY <1>1 DEF collector, sampling
  <2>2. Rested' = Rested
    <3>1. CASE Tick
      <4>1. now' = now + 1 /\ busy' = busy + 1
        BY <2>1, <3>1, Ticked DEF Sampling
      <4>2. QED
        BY <4>1 DEF Rested, Types
    <3>2. CASE ~Tick
      BY <1>1, <3>2 DEF Rested, TargetSteps, HealthTask, Evaluate, Degrade, Reset, HilRuns, Traffic
    <3>3. QED
      BY <3>1, <3>2
  <2>3. QED
    BY <2>1, <2>2
<1>2. CASE Onward
  <2>1. Rested' = Rested
    BY <1>2, OnwardMoves DEF external, Rested
  <2>2. QED
    BY <1>2, <2>1, OnwardMoves DEF Halt, ReadTarget, Go, WakesUp, sampling, external
<1>3. CASE UNCHANGED vars
  BY <1>3 DEF vars, Rested
<1>4. QED
  BY <1>1, <1>2, <1>3, Moves DEF Decides, Decided, ValidateSnapshot, Raise, RaiseWith

LEMMA RecentKept ==
  ASSUME Types, Handling, Faultless, Schedule, Recent, [Next]_vars
  PROVE  Recent'
<1>1. now \in Nat /\ read_at \in Nat /\ reading \in Ram /\ Rested \in Int
  BY TakenTyped DEF Types
<1>2. ASSUME pc' \in {"go", "judge"} PROVE After(reading, read_at, Rested)'
  <2>1. CASE pc \in {"go", "judge"} /\ UNCHANGED <<reading, read_at>> /\ Rested' = Rested
    <3>1. PICK ram \in Ram, read \in Nat, rested \in Int :
                 ram = reading /\ read = read_at /\ rested = Rested
      BY <1>1
    <3>2. After(ram, read, rested)
      BY <2>1, <3>1 DEF Recent
    <3>3. After(ram, read, rested)'
      BY <3>2, StillAfter
    <3>4. QED
      BY <2>1, <3>1, <3>3 DEF After
  <2>2. CASE UNCHANGED <<now, target>> /\ Rested' = Rested /\ reading' = target.ram /\ read_at' = now
    BY <2>2, AfterReading DEF After
  <2>3. QED
    BY <1>2, <2>1, <2>2, WithoutRest
<1>3. ASSUME pc' \in {"go", "judge"}, samples' # <<>>
      PROVE  Follows(reading', Last'.ram, read_at' - Last'.read, Rested' - RestedAt(Last'))
  <2>1. CASE pc \in {"go", "judge"} /\ UNCHANGED <<reading, read_at, samples>> /\ Rested' = Rested
    BY <1>3, <2>1 DEF Recent, Last, RestedAt
  <2>2. CASE /\ pc = "read" /\ UNCHANGED <<now, target, samples>> /\ Rested' = Rested
             /\ reading' = target.ram /\ read_at' = now
    <3>1. /\ After(Last.ram, Last.read, RestedAt(Last)) /\ Last.ram \in Ram /\ Last.read \in Nat
          /\ RestedAt(Last) \in Int
      BY <1>3, <2>2, LastTyped DEF Recent, Sampling, RestedAt
    <3>2. Follows(target.ram, Last.ram, now - Last.read, Rested - RestedAt(Last))
      BY <3>1, FollowsReading
    <3>3. QED
      BY <2>2, <3>2 DEF Last, RestedAt
  <2>3. QED
    BY <1>3, <2>1, <2>2, WithoutRest
<1>4. ASSUME pc' \in Sampling, samples' # <<>> PROVE After(Last.ram, Last.read, RestedAt(Last))'
  <2>1. CASE samples' = samples /\ pc \in Sampling
    <3>1. Last' = Last /\ RestedAt(Last)' = RestedAt(Last) /\ samples # <<>>
      BY <1>4, <2>1 DEF Last, RestedAt
    <3>2. PICK ram \in Ram, read \in Nat, rested \in Int :
                 ram = Last.ram /\ read = Last.read /\ rested = RestedAt(Last)
      BY <3>1, LastTyped DEF RestedAt
    <3>3. After(ram, read, rested)
      BY <2>1, <3>1, <3>2 DEF Recent
    <3>4. After(ram, read, rested)'
      BY <3>3, StillAfter
    <3>5. QED
      BY <3>1, <3>2, <3>4 DEF After
  <2>2. CASE samples' = samples /\ pc \in Undecided \ Sampling
    BY <1>4, <2>2 DEF Schedule
  <2>3. CASE ValidateSample /\ pc' = "record" /\ samples' = Append(samples, Taken)
    <3>1. Last' = Taken
      BY <2>3, TakenTyped, AppendedLast
    <3>2. After(reading, read_at, Rested) /\ UNCHANGED <<target, now, busy>>
      BY <2>3 DEF Recent, ValidateSample, external
    <3>3. /\ Last'.ram = reading /\ Last'.read = read_at /\ RestedAt(Last)' = Rested
          /\ Rested' = Rested
      BY <3>1, <3>2, TakenTyped DEF RestedAt, Rested
    <3>4. QED
      BY <3>2, <3>3 DEF After
  <2>4. CASE pc \in Decided
    <3>1. pc' \in Decided
      BY <1>4, <2>4, Moves, OnwardMoves DEF collector, vars, Decides, Decided, Undecided, Sampling,
         Start, LoadHil, HashHil, Create, SpawnServer, Halt, ReadTarget, Go, ValidateSample, Record,
         ReadClock, WaitOrPass, WakesUp, ValidateSnapshot
    <3>2. QED
      BY <1>4, <3>1 DEF Decided, Sampling
  <2>5. QED
    BY <1>4, <2>1, <2>2, <2>3, <2>4, Readings DEF Types, Decided, Sampling, ValidateSnapshot
<1>5. QED
  BY <1>2, <1>3, <1>4 DEF Recent, RestedAt

LEMMA BegunKept ==
  ASSUME Types, Schedule, AllSpaced, [Next]_vars, Heartbeats, samples' # <<>>
  PROVE  samples'[1].at - started' <= samples'[1].busy
<1>1. started' = started \/ (samples = <<>> /\ samples' = samples)
  BY DEF Next, vars, Collector, Firmware, Start, LoadHil, HashHil, Create, SpawnServer, Halt,
     ReadTarget, Go, ValidateSample, ValidateSnapshot, Record, ReadClock, WaitOrPass, WakesUp,
     Conclude, Cleanup, GdbFails, Interrupt, HealthTask, Evaluate, Tick, Degrade, Reset, HilRuns,
     Traffic, sampling, collector, Schedule, Undecided, Sampling
<1>2. CASE samples' = samples
  BY <1>1, <1>2 DEF AllSpaced
<1>3. CASE ValidateSample /\ pc' = "record" /\ samples' = Append(samples, Taken)
  <2>1. CASE samples = <<>>
    <3>1. samples'[1] = Taken
      BY <1>3, <2>1
    <3>2. Rested = started /\ started' = started
      BY <1>3, <2>1 DEF Schedule, ValidateSample, Sampling
    <3>3. QED
      BY <3>1, <3>2, TakenTyped DEF Rested, Types
  <2>2. CASE samples # <<>>
    <3>1. samples'[1] = samples[1]
      BY <1>3, <2>2, TakenTyped, AppendedLast, LastTyped
    <3>2. QED
      BY <1>1, <2>2, <3>1 DEF AllSpaced
  <2>3. QED
    BY <2>1, <2>2
<1>4. QED
  BY <1>2, <1>3, Readings DEF ValidateSnapshot

LEMMA SpacedKept ==
  ASSUME Types, Schedule, Recent, AllSpaced, [Next]_vars
  PROVE  AllSpaced'
<1> SUFFICES ASSUME Heartbeats', NEW i \in 1..Len(samples') - 1
             PROVE  Spaced(samples[i], samples[i + 1])'
  BY BegunKept, Constant DEF AllSpaced, Heartbeats
<1>1. args' = args /\ Heartbeats
  BY Constant DEF Heartbeats
<1>2. CASE samples' = samples
  BY <1>1, <1>2 DEF AllSpaced, Spaced
<1>3. CASE ValidateSample /\ pc' = "record" /\ samples' = Append(samples, Taken)
  <2>1. /\ Taken \in Sample /\ Taken.ram = reading /\ Taken.read = read_at /\ Taken.at = now
        /\ Taken.busy = busy /\ now \in Nat /\ busy \in Nat /\ read_at \in Nat /\ reading \in Ram
    BY TakenTyped DEF Types
  <2>2. /\ Len(samples') = Len(samples) + 1 /\ Last' = Taken
        /\ \A k \in 1..Len(samples) : samples'[k] = samples[k]
    BY <1>3, <2>1, AppendedLast
  <2>3. Len(samples) \in Nat
    BY LenProperties DEF Types
  <2>4. CASE i < Len(samples)
    <3>1. samples'[i] = samples[i] /\ samples'[i + 1] = samples[i + 1] /\ i \in 1..Len(samples) - 1
      BY <2>2, <2>3, <2>4
    <3>2. Spaced(samples[i], samples[i + 1])
      BY <1>1, <3>1 DEF AllSpaced
    <3>3. QED
      BY <1>1, <3>1, <3>2 DEF Spaced
  <2>5. CASE i = Len(samples)
    <3>1. samples # <<>> /\ samples'[i] = Last /\ samples'[i + 1] = Taken
      BY <2>2, <2>3, <2>5, EmptySeq DEF Last
    <3>2. pc = "judge" /\ Advanced(reading, Last.ram)
      BY <1>3, <3>1 DEF ValidateSample, Raise, RaiseWith, Previous, Last
    <3>3. /\ Follows(reading, Last.ram, read_at - Last.read, Rested - RestedAt(Last))
          /\ Rested = Due
      BY <1>1, <3>1, <3>2 DEF Recent, Schedule, OnTime, Sampling
    <3>4. /\ Last.ram.heartbeat \in Nat /\ reading.heartbeat \in Nat /\ Last.read \in Nat
          /\ Last.at \in Nat /\ Last.busy \in Nat /\ args.interval \in Nat
      BY <2>1, <3>1, LastTyped, ArgsTyped DEF Ram
    <3>5. Last.ram.boot # reading.boot => Last.ram.heartbeat * Period < read_at - Last.read
      <4>1. SUFFICES ASSUME Last.ram.boot # reading.boot
                     PROVE  Last.ram.heartbeat * Period < read_at - Last.read
        OBVIOUS
      <4>2. reading.heartbeat * Period <= read_at - Last.read
        BY <3>3, <4>1 DEF Follows
      <4>3. Last.ram.heartbeat < reading.heartbeat
        BY <3>2, <3>4 DEF Advanced
      <4>4. /\ Last.ram.heartbeat * Period < reading.heartbeat * Period
            /\ Last.ram.heartbeat * Period \in Nat /\ reading.heartbeat * Period \in Nat
        BY <3>4, <4>3, FewerPeriods
      <4>5. QED
        BY <2>1, <3>4, <4>2, <4>4
    <3>6. now - Last.at <= args.interval + (busy - Last.busy)
      <4>1. PICK length \in 0..args.interval : length = Smaller(args.interval, Left)
        BY SleepTyped
      <4>2. now - busy = Last.at - Last.busy + length
        BY <3>3, <4>1 DEF Due, Rested, RestedAt
      <4>3. QED
        BY <2>1, <3>4, <4>1, <4>2
    <3>7. Spaced(Last, Taken)
      BY <2>1, <3>5, <3>6 DEF Spaced
    <3>8. QED
      BY <1>1, <3>1, <3>7 DEF Spaced
  <2>6. QED
    BY <2>2, <2>3, <2>4, <2>5
<1>4. QED
  BY <1>1, <1>2, <1>3, Readings DEF ValidateSnapshot

-----------------------------------------------------------------------------
(* The USB run whose target is looked at.                                   *)
LEMMA StillUnmixed ==
  ASSUME [Next]_vars, Unmixed'
  PROVE  Unmixed
BY Constant DEF Unmixed, Heartbeats

(* Without a mistake of the operator it is the last one.                    *)
LEMMA HilKept ==
  ASSUME Types, [Next]_vars, Unmixed'
  PROVE  \/ HilRuns /\ pc = "start" /\ hil'.boot = target.ram.boot
         \/ hil' = hil /\ ~HilRuns
<1>1. CASE HilRuns
  <2>1. pc = "start"
    BY <1>1, Unfaulted DEF HilRuns, Unmixed
  <2>2. hil'.boot = target.ram.boot
    BY <1>1 DEF HilRuns
  <2>3. QED
    BY <1>1, <2>1, <2>2
<1>2. CASE ~HilRuns
  <2>1. CASE TargetSteps /\ UNCHANGED collector
    BY <1>2, <2>1 DEF TargetSteps, HealthTask, Evaluate, Tick, Degrade, Reset, Traffic
  <2>2. QED
    BY <1>2, <2>1, Sides
<1>3. QED
  BY <1>1, <1>2

LEMMA UsbTraffic ==
  ASSUME Types, [Next]_vars, Unmixed', ~HilRuns, target'.ram.rx > 0
  PROVE  target'.ram.rx = target.ram.rx /\ target'.ram.boot = target.ram.boot
<1>1. target \in Target /\ target.ram \in Ram
  BY DEF Types, Target
<1>2. CASE HealthTask \/ Evaluate
  BY <1>1, <1>2, Stores DEF Stored, Ram
<1>3. CASE Tick
  BY <1>3, Ticked
<1>4. CASE Degrade
  BY <1>1, <1>4 DEF Degrade, Target, Ram
<1>5. ~Reset
  <2>1. 0 \in Nat /\ ~(0 > 0)
    OBVIOUS
  <2>2. QED
    BY <2>1, ResetTarget
<1>6. ~Traffic
  BY Unfaulted DEF Traffic, Unmixed
<1>7. CASE target' = target \/ Switched
  BY <1>1, <1>7 DEF Switched, Target
<1>8. QED
  BY <1>2, <1>3, <1>4, <1>5, <1>6, <1>7, Sides DEF TargetSteps

LEMMA LinkedKept ==
  ASSUME Types, Linked, [Next]_vars
  PROVE  Linked'
<1>1. ASSUME pc' = "start" PROVE reading' = reading /\ pc = "start"
  <2>1. CASE Onward
    BY <1>1, <2>1, OnwardMoves DEF Halt, ReadTarget, Go, WakesUp
  <2>2. QED
    BY <1>1, <2>1, Moves DEF collector, sampling, vars, Decides, Decided, ValidateSnapshot, Raise,
       RaiseWith
<1>2. ASSUME Unmixed', target'.ram.rx > 0 PROVE hil'.boot = target'.ram.boot
  <2>1. CASE HilRuns
    <3>1. target'.ram.boot = target.ram.boot
      BY <2>1, Asides DEF Aside
    <3>2. QED
      BY <1>2, <2>1, <3>1, HilKept
  <2>2. CASE ~HilRuns
    BY <1>2, <2>2, HilKept, UsbTraffic, StillUnmixed DEF Linked
  <2>3. QED
    BY <2>1, <2>2
<1>3. ASSUME Unmixed', reading'.rx > 0 PROVE hil'.boot = reading'.boot
  <2>1. CASE ReadTarget
    <3>1. reading' = target.ram /\ hil' = hil
      BY <2>1 DEF ReadTarget, external
    <3>2. QED
      BY <1>3, <3>1, StillUnmixed DEF Linked
  <2>2. CASE reading' = reading
    <3>1. CASE HilRuns /\ pc = "start"
      <4>1. ~(0 > 0)
        OBVIOUS
      <4>2. QED
        BY <1>3, <2>2, <3>1, <4>1 DEF Linked
    <3>2. CASE hil' = hil
      BY <1>3, <2>2, <3>2, StillUnmixed DEF Linked
    <3>3. QED
      BY <1>3, <3>1, <3>2, HilKept
  <2>3. QED
    BY <2>1, <2>2, Readings
<1>4. ASSUME Unmixed', pc' \in Undecided \ {"start", "load"}
      PROVE  /\ linked'.boot = hil'.boot /\ linked'.version = hil'.version
             /\ pc' # "hash" => linked'.hashed = linked'.version
  <2>1. Unmixed /\ ~Heartbeats
    BY <1>4, StillUnmixed DEF Unmixed
  <2>2. CASE (TargetSteps /\ UNCHANGED collector) \/ UNCHANGED vars
    <3>1. pc' = pc /\ linked' = linked
      BY <2>2 DEF collector, vars
    <3>2. hil' = hil
      BY <1>4, <3>1, HilKept
    <3>3. QED
      BY <1>4, <2>1, <3>1, <3>2 DEF Linked
  <2>3. CASE Onward
    <3>1. hil' = hil
      BY <2>3, OnwardMoves DEF external
    <3>2. CASE LoadHil /\ pc' = "hash"
      BY <3>1, <3>2 DEF LoadHil, Raise, RaiseWith
    <3>3. CASE HashHil /\ pc' = "create"
      <4>1. linked' = [linked EXCEPT !.hashed = hil.version] /\ linked \in Hil /\ pc = "hash"
        BY <3>3 DEF HashHil, Types
      <4>2. linked.boot = hil.boot /\ linked.version = hil.version
        BY <2>1, <4>1 DEF Linked, Undecided
      <4>3. QED
        BY <3>1, <4>1, <4>2 DEF Hil
    <3>4. CASE \/ Create \/ SpawnServer \/ Halt \/ ReadTarget \/ Go \/ ValidateSample \/ Record
               \/ ReadClock \/ WaitOrPass \/ WakesUp
      <4>1. linked' = linked /\ pc \in Undecided \ {"start", "load", "hash"}
        BY <3>4 DEF Create, SpawnServer, Halt, ReadTarget, Go, ValidateSample, Record, ReadClock,
           WaitOrPass, WakesUp, Undecided, Sampling
      <4>2. QED
        BY <2>1, <3>1, <4>1 DEF Linked
    <3>5. ~(Start /\ pc' \in {"spawn", "load"} /\ (pc' = "spawn" => Heartbeats))
      BY <1>4, <2>1
    <3>6. QED
      BY <2>3, <3>2, <3>3, <3>4, <3>5, OnwardMoves
  <2>4. QED
    BY <1>4, <2>2, <2>3, Moves DEF Decides, Decided, Undecided, Sampling, ValidateSnapshot, Raise,
       RaiseWith
<1>5. pc' = "start" => reading'.rx = 0
  BY <1>1 DEF Linked
<1>6. QED
  BY <1>2, <1>3, <1>4, <1>5 DEF Linked

-----------------------------------------------------------------------------
(* The verdict.                                                             *)

(* Once a run is decided, only its documents still change.                  *)
LEMMA DecidedStays ==
  ASSUME Types, [Next]_vars, pc \in Decided
  PROVE  /\ pc' \in Decided /\ UNCHANGED <<busy, started, elapsed, samples, reading, linked>>
         /\ \/ evidence' = evidence
            \/ evidence'.status # "PASS" /\ evidence'.failure \in {evidence.failure, "disk"}
         /\ file' = file \/ file' = evidence
<1> USE DEF Decided, sampling, external
<1>1. CASE TargetSteps /\ UNCHANGED collector
  <2>1. ~Tick
    BY Ticked DEF Undecided, Sampling
  <2>2. UNCHANGED busy
    BY <1>1, <2>1 DEF TargetSteps, HealthTask, Evaluate, Degrade, Reset, HilRuns, Traffic
  <2>3. QED
    BY <1>1, <2>2 DEF collector
<1>2. CASE UNCHANGED vars
  BY <1>2 DEF vars
<1>3. CASE Conclude
  BY <1>3 DEF Conclude, Raise, RaiseWith, Types, Document
<1>4. CASE Cleanup
  BY <1>4 DEF Cleanup
<1>5. CASE Interrupt
  BY <1>5 DEF Interrupt, Types, Document
<1>6. QED
  BY <1>1, <1>2, <1>3, <1>4, <1>5 DEF Next, Collector, Firmware, TargetSteps, Start, LoadHil,
     HashHil, Create, SpawnServer, Halt, ReadTarget, Go, ValidateSample, ValidateSnapshot, Record,
     ReadClock, WaitOrPass, WakesUp, GdbFails, HealthTask, Evaluate, Tick, Degrade, Reset,
     HilRuns, Traffic, collector

(* Before, it has no verdict, or fails, or passes at the end.               *)
LEMMA DecisionMade ==
  ASSUME Types, Verdicts, [Next]_vars, pc \in Undecided
  PROVE  /\ file'.run = 1 => file'.status = "RUNNING"
         /\ \/ evidence'.status = "RUNNING" /\ evidence'.failure = "none"
            \/ pc' \in Decided /\ evidence'.status # "PASS"
            \/ pc' \in Decided /\ (WaitOrPass \/ ValidateSnapshot)
<1> USE DEF Decided, sampling, external
<1>1. /\ evidence.status = "RUNNING" /\ evidence.failure = "none"
      /\ file.run = 1 => file.status = "RUNNING"
      /\ evidence \in Document
  BY DEF Verdicts, Types
<1>2. ASSUME NEW document \in Document, document.status = "RUNNING", document.failure = "none",
             NEW next, WriteEvidence(document, next)
      PROVE  /\ file'.run = 1 => file'.status = "RUNNING"
             /\ \/ evidence'.status = "RUNNING" /\ evidence'.failure = "none"
                \/ pc' \in Decided /\ evidence'.status # "PASS"
  BY <1>1, <1>2 DEF WriteEvidence, RaiseWith, Document
<1>3. CASE TargetSteps /\ UNCHANGED collector
  BY <1>1, <1>3 DEF collector
<1>4. CASE UNCHANGED vars
  BY <1>1, <1>4 DEF vars
<1>5. CASE Create
  BY <1>1, <1>2, <1>5 DEF Create
<1>6. CASE Record
  <2>1. [evidence EXCEPT !.samples = Len(samples)] \in Document
    BY <1>1, LenProperties DEF Document, Types
  <2>2. QED
    BY <1>1, <1>2, <1>6, <2>1 DEF Record, Document
<1>7. ASSUME NEW why, Raise(why)
      PROVE  pc' \in Decided /\ evidence'.status # "PASS"
  BY <1>1, <1>7 DEF Raise, RaiseWith, Document
<1>8. CASE Start \/ LoadHil \/ HashHil \/ SpawnServer \/ GdbFails
  BY <1>1, <1>7, <1>8 DEF Start, LoadHil, HashHil, SpawnServer, GdbFails
<1>9. CASE Halt \/ ReadTarget \/ Go \/ ReadClock \/ WakesUp
  BY <1>1, <1>9 DEF Halt, ReadTarget, Go, ReadClock, WakesUp
<1>10. CASE ValidateSample
  BY <1>1, <1>7, <1>10 DEF ValidateSample
<1>11. CASE ValidateSnapshot
  BY <1>1, <1>7, <1>11 DEF ValidateSnapshot
<1>12. CASE WaitOrPass
  BY <1>1, <1>12 DEF WaitOrPass
<1>13. CASE Interrupt
  <2>1. CASE evidence' = [evidence EXCEPT !.status = "ABORTED"] /\ pc' = "conclude"
    BY <1>1, <1>13, <2>1 DEF Interrupt, Document
  <2>2. CASE UNCHANGED evidence
    BY <1>1, <1>13, <2>2 DEF Interrupt
  <2>3. QED
    BY <1>13, <2>1, <2>2 DEF Interrupt
<1>14. ~Conclude /\ ~Cleanup
  BY DEF Conclude, Cleanup, Undecided, Sampling
<1>15. QED
  BY <1>3, <1>4, <1>5, <1>6, <1>8, <1>9, <1>10, <1>11, <1>12, <1>13, <1>14 DEF Next, Collector,
     Firmware, TargetSteps, HealthTask, Evaluate, Tick, Degrade, Reset, HilRuns, Traffic

(* The heartbeat collector passes at the end of the duration, post_hil on a *)
(* record with traffic.                                                     *)
LEMMA PassClaims ==
  ASSUME Types, Schedule, Linked, Verdicts, WaitOrPass \/ ValidateSnapshot,
         evidence'.status = "PASS"
  PROVE  Claim(evidence)'
<1>1. evidence \in Document
  BY DEF Types
<1>2. CASE WaitOrPass
  <2>1. pc = "decide" /\ evidence.status = "RUNNING" /\ Heartbeats /\ samples # <<>>
    BY <1>2 DEF WaitOrPass, Verdicts, Undecided, Sampling, Schedule
  <2>2. /\ elapsed >= args.duration /\ Len(samples) >= 2
        /\ evidence' = [evidence EXCEPT !.status = "PASS",
                          !.qualified = args.program = "rtos005" \/ now - started >= Qualifying]
        /\ UNCHANGED <<started, busy, samples, args>>
    BY <1>2, <2>1 DEF WaitOrPass, external
  <2>3. Rested = RestedAt(Last) /\ started + elapsed <= now
    BY <2>1 DEF Schedule, OnTime, Sampling
  <2>4. /\ now \in Nat /\ busy \in Nat /\ started \in Nat /\ elapsed \in Nat
        /\ args.duration \in Nat /\ Qualifying \in Nat /\ Last.at \in Nat /\ Last.busy \in Nat
    BY <2>1, ArgsTyped, LastTyped, HealthAssumption DEF Types
  <2>5. Covered = now - started /\ Covered' = Covered /\ Covered >= args.duration
    <3>1. Covered' = Covered
      BY <2>2 DEF Covered, Last
    <3>2. now - busy = Last.at - Last.busy
      BY <2>3 DEF Rested, RestedAt
    <3>3. Covered = now - started
      BY <2>4, <3>2 DEF Covered
    <3>4. QED
      BY <2>2, <2>3, <2>4, <3>1, <3>3
  <2>6. evidence'.qualified => args.program = "rtos005" \/ Covered >= Qualifying
    <3>1. evidence'.qualified = (args.program = "rtos005" \/ now - started >= Qualifying)
      BY <1>1, <2>2 DEF Document
    <3>2. QED
      BY <2>5, <3>1
  <2>7. QED
    BY <2>1, <2>2, <2>5, <2>6 DEF Claim, Heartbeats
<1>3. CASE ValidateSnapshot
  <2>1. /\ ~Heartbeats /\ pc = "judge" /\ ValidSnapshot(reading)
        /\ samples' = <<Taken>> /\ Taken.ram = reading /\ UNCHANGED <<linked, args, faults>>
    BY <1>1, <1>3 DEF ValidateSnapshot, Raise, RaiseWith, Document, external, Taken
  <2>2. CASE faults \cap {"traffic", "rerun"} # {}
    BY <2>1, <2>2 DEF Claim, Heartbeats
  <2>3. CASE faults \cap {"traffic", "rerun"} = {}
    <3>1. Unmixed /\ reading.rx > 0
      BY <2>1, <2>3 DEF Unmixed, ValidSnapshot
    <3>2. linked.boot = hil.boot /\ linked.hashed = linked.version /\ hil.boot = reading.boot
      BY <2>1, <3>1 DEF Linked, Undecided, Sampling
    <3>3. QED
      BY <2>1, <3>2 DEF Claim, Heartbeats
  <2>4. QED
    BY <2>2, <2>3
<1>4. QED
  BY <1>2, <1>3

LEMMA ClaimStays ==
  ASSUME [Next]_vars, UNCHANGED <<busy, started, samples, linked>>, NEW document, Claim(document)
  PROVE  Claim(document)'
BY Constant DEF Claim, Covered, Heartbeats, Last

(* A failure of the heartbeat collector.                                    *)
LEMMA SampleFails ==
  ASSUME Types, Faultless, Schedule, Recent, Verdicts, ValidateSample
  PROVE  HealthyFailures'
<1> SUFFICES ASSUME evidence'.failure \in {"clean", "voter", "advance", "reset"},
                    faults' \cap {"reset", "voter", "health"} = {}
             PROVE  \/ evidence'.failure = "voter" /\ reading'.evaluations = reading'.healthy + 1
                    \/ /\ evidence'.failure = "advance"
                       /\ args'.interval <= Period \/ args'.duration <= elapsed' + Period
  BY DEF HealthyFailures
<1>1. /\ pc = "judge" /\ Heartbeats /\ UNCHANGED <<args, elapsed, faults, reading>>
      /\ evidence \in Document /\ reading \in Ram
  BY DEF ValidateSample, external, Types
<1>2. \A why : Raise(why) => evidence'.failure = why
  BY <1>1 DEF Raise, RaiseWith, Document
<1>3. Clean(reading)
  BY <1>1 DEF Faultless, Clean
<1>4. reading.boot > 0 /\ ~reading.missing
        /\ reading.evaluations \in {reading.healthy, reading.healthy + 1}
  BY <1>1 DEF Faultless
<1>5. CASE ~VoterHealthy(reading)
  <2>1. evidence'.failure = "voter"
    BY <1>2, <1>3, <1>5 DEF ValidateSample
  <2>2. reading.evaluations = reading.healthy + 1
    BY <1>4, <1>5 DEF VoterHealthy
  <2>3. QED
    BY <1>1, <2>1, <2>2
<1>6. CASE VoterHealthy(reading)
  <2>1. /\ samples # <<>> /\ ~(SameBoot(reading, Previous) /\ Advanced(reading, Previous))
        /\ Raise(IF SameBoot(reading, Previous) THEN "advance" ELSE "reset")
    <3>1. evidence.failure = "none"
      BY <1>1 DEF Verdicts, Undecided, Sampling
    <3>2. QED
      BY <1>1, <1>3, <1>6, <3>1 DEF ValidateSample
  <2>2. Previous = Last.ram
    BY DEF Previous, Last
  <2>3. FirstBoot(reading) /\ FirstBoot(Last.ram)
    <3>1. Len(samples) \in 1..Len(samples)
      BY <2>1, LastTyped
    <3>2. QED
      BY <1>1, <3>1 DEF Faultless, Last
  <2>4. SameBoot(reading, Previous)
    BY <2>2, <2>3 DEF FirstBoot, SameBoot
  <2>5. evidence'.failure = "advance" /\ ~Advanced(reading, Last.ram)
    BY <1>2, <2>1, <2>2, <2>4
  <2>6. /\ Follows(reading, Last.ram, read_at - Last.read, Rested - RestedAt(Last))
        /\ After(Last.ram, Last.read, RestedAt(Last)) /\ Rested = Due
    BY <1>1, <2>1 DEF Recent, Schedule, OnTime, Sampling
  <2>7. Last.ram.boot = reading.boot
    <3>1. reading.boot \in Nat /\ Last.ram.boot \in Nat
      BY <1>1, <2>1, LastTyped DEF Ram
    <3>2. QED
      BY <1>4, <2>3, <2>6, <3>1 DEF After, FirstBoot
  <2>8. ~(Smaller(args.interval, Left) > Period)
    <3>1. RestedAt(Last) \in Int /\ Smaller(args.interval, Left) \in Nat
      BY <2>1, LastTyped, SleepTyped DEF RestedAt
    <3>2. Rested - RestedAt(Last) = Smaller(args.interval, Left)
      BY <2>6, <3>1 DEF Due
    <3>3. QED
      BY <2>5, <2>6, <2>7, <3>2 DEF Follows
  <2>9. args.interval <= Period \/ args.duration <= elapsed + Period
    <3>1. /\ args.interval \in Nat /\ args.duration \in Nat /\ elapsed \in Nat /\ Period \in Nat
          /\ Period > 0
      BY ArgsTyped, HealthAssumption DEF Types
    <3>2. QED
      BY <2>8, <3>1 DEF Smaller, Left
  <2>10. QED
    BY <1>1, <2>5, <2>9
<1>7. QED
  BY <1>5, <1>6

LEMMA OtherFailures ==
  ASSUME Types, Verdicts, [Next]_vars, pc \in Undecided, ~ValidateSample, Heartbeats
  PROVE  evidence'.failure \in {"none", "elf", "hil", "server", "gdb", "disk"}
<1>1. evidence.failure = "none" /\ evidence \in Document
  BY DEF Verdicts, Types
<1>2. ASSUME NEW why, Raise(why) PROVE evidence'.failure = why
  BY <1>1, <1>2 DEF Raise, RaiseWith, Document
<1>3. CASE TargetSteps /\ UNCHANGED collector
  BY <1>1, <1>3 DEF collector
<1>4. CASE Start \/ LoadHil \/ HashHil \/ SpawnServer \/ GdbFails
  BY <1>1, <1>2, <1>4 DEF Start, LoadHil, HashHil, SpawnServer, GdbFails
<1>5. CASE Create \/ Record
  <2>1. ASSUME NEW document \in Document, document.failure = "none", NEW next,
               WriteEvidence(document, next)
        PROVE  evidence'.failure \in {"none", "disk"}
    BY <2>1 DEF WriteEvidence, RaiseWith, Document
  <2>2. [evidence EXCEPT !.samples = Len(samples)] \in Document
    BY <1>1, LenProperties DEF Document, Types
  <2>3. [evidence EXCEPT !.samples = Len(samples)].failure = "none"
    BY <1>1 DEF Document
  <2>4. QED
    BY <1>1, <1>5, <2>1, <2>2, <2>3 DEF Create, Record
<1>6. CASE Halt \/ ReadTarget \/ Go \/ ReadClock \/ WakesUp \/ UNCHANGED vars
  BY <1>1, <1>6 DEF Halt, ReadTarget, Go, ReadClock, WakesUp, vars
<1>7. CASE WaitOrPass
  BY <1>1, <1>7 DEF WaitOrPass, Document
<1>8. CASE Interrupt
  BY <1>1, <1>8 DEF Interrupt, Document
<1>9. ~Conclude /\ ~Cleanup /\ ~ValidateSnapshot
  BY DEF Conclude, Cleanup, ValidateSnapshot, Undecided, Sampling
<1>10. QED
  BY <1>3, <1>4, <1>5, <1>6, <1>7, <1>8, <1>9, Sides DEF Next, Collector, Firmware, TargetSteps,
     HealthTask, Evaluate, Tick, Degrade, Reset, HilRuns, Traffic

LEMMA FailuresKept ==
  ASSUME Types, Faultless, Schedule, Recent, Verdicts, [Next]_vars
  PROVE  HealthyFailures'
<1>1. CASE pc \in Decided
  <2>1. args' = args /\ faults \subseteq faults' /\ reading' = reading /\ elapsed' = elapsed
    BY <1>1, DecidedStays, Constant
  <2>2. evidence'.failure \in {evidence.failure, "disk"}
    BY <1>1, DecidedStays
  <2>3. QED
    BY <2>1, <2>2 DEF HealthyFailures, Verdicts, Heartbeats
<1>2. CASE pc \in Undecided /\ ~ValidateSample
  BY <1>2, OtherFailures, Constant DEF HealthyFailures, Heartbeats
<1>3. CASE ValidateSample
  BY <1>3, SampleFails
<1>4. QED
  BY <1>1, <1>2, <1>3 DEF Types

LEMMA VerdictsKept ==
  ASSUME Types, Faultless, Schedule, Recent, Linked, Verdicts, [Next]_vars
  PROVE  Verdicts'
<1>1. HealthyFailures'
  BY FailuresKept
<1>2. CASE pc \in Decided
  <2>1. pc' \notin Undecided
    BY <1>2, DecidedStays DEF Decided, Undecided, Sampling
  <2>2. \A document : Claim(document) => Claim(document)'
    BY <1>2, DecidedStays, ClaimStays
  <2>3. ASSUME evidence'.status = "PASS" PROVE Claim(evidence)'
    <3>1. evidence' = evidence
      BY <1>2, <2>3, DecidedStays
    <3>2. PICK document : document = evidence
      OBVIOUS
    <3>3. Claim(document)'
      BY <2>2, <2>3, <3>1, <3>2 DEF Verdicts
    <3>4. QED
      BY <3>1, <3>2, <3>3 DEF Claim
  <2>4. ASSUME Passed' PROVE Claim(file)'
    <3>1. PICK document : document = file'
      OBVIOUS
    <3>2. Claim(document)
      BY <1>2, <2>4, <3>1, DecidedStays DEF Verdicts, Passed
    <3>3. QED
      BY <2>2, <3>1, <3>2 DEF Claim
  <2>5. QED
    BY <1>1, <2>1, <2>3, <2>4 DEF Verdicts
<1>3. CASE pc \in Undecided
  <2>1. ~Passed'
    BY <1>3, DecisionMade DEF Passed
  <2>2. evidence'.status = "PASS" => Claim(evidence)'
    BY <1>3, DecisionMade, PassClaims
  <2>3. ASSUME pc' \in Undecided
        PROVE  /\ evidence'.status = "RUNNING" /\ evidence'.failure = "none"
               /\ file'.run = 1 => file'.status = "RUNNING"
    BY <1>3, <2>3, DecisionMade DEF Decided, Undecided, Sampling
  <2>4. QED
    BY <1>1, <2>1, <2>2, <2>3 DEF Verdicts
<1>4. QED
  BY <1>2, <1>3 DEF Types

-----------------------------------------------------------------------------
LEMMA InitIInv == Init => IInv
<1> SUFFICES ASSUME Init PROVE IInv
  OBVIOUS
<1> USE DEF Init
<1>1. NoRam \in Ram /\ 0 \in 0..Period - 1 /\ Period \in Nat /\ Period > 0
  BY HealthAssumption DEF NoRam, Ram
<1>2. target.ram = [NoRam EXCEPT !.boot = 1, !.heartbeat = 1, !.tick = 1, !.evaluations = 1,
                                 !.healthy = 1, !.missing = FALSE]
        /\ target.ram \in Ram
  BY DEF NoRam, Ram
<1> DEFINE ram == target.ram
<1>0. /\ ram.boot = 1 /\ ram.heartbeat = 1 /\ ram.tick = 1 /\ ram.evaluations = 1
      /\ ram.healthy = 1 /\ ram.missing = FALSE /\ ram.clean = TRUE /\ ram.rx = 0
      /\ ram.boot_tick = 0 /\ ram.reset = "por"
      /\ target.step = "idle" /\ target.timer = 0 /\ target.uptime = 1 /\ target.running
      /\ reading.boot = 0 /\ reading.boot_tick = 0 /\ reading.reset = "por"
      /\ reading.clean = TRUE /\ reading.rx = 0
  BY <1>2 DEF NoRam
<1> HIDE DEF Init
<1>3. Types
  <2>1. target \in Target
    BY <1>1, <1>2 DEF Target, Handler, Init
  <2>2. NoHil \in Hil
    BY DEF NoHil, Hil
  <2>3. evidence \in Document
    BY DEF Document, Failures, Init
  <2>4. file \in Document
    <3>1. /\ file \in [run: {0}, status: {"PASS", "FAIL"}, qualified: {FALSE}, failure: {"none"},
                       samples: {0}]
      BY DEF Init
    <3>2. /\ file.run \in {0, 1} /\ file.status \in {"RUNNING", "PASS", "FAIL", "ABORTED"}
          /\ file.qualified \in BOOLEAN /\ file.failure \in Failures /\ file.samples \in Nat
      <4>1. /\ file.run \in {0} /\ file.status \in {"PASS", "FAIL"} /\ file.failure \in {"none"}
            /\ file.samples \in {0}
        BY <3>1
      <4>2. file.qualified \in {FALSE}
        BY <3>1, Zenon
      <4>3. file.qualified \in BOOLEAN
        BY <4>2
      <4>4. QED
        BY <4>1, <4>3 DEF Failures
    <3>3. file = [run |-> file.run, status |-> file.status, qualified |-> file.qualified,
                  failure |-> file.failure, samples |-> file.samples]
      BY <3>1
    <3>4. QED
      BY <3>2, <3>3 DEF Document
  <2>5. samples \in Seq(Sample)
    BY EmptySeq DEF Init
  <2>6. QED
    BY <1>1, <2>1, <2>2, <2>3, <2>4, <2>5 DEF Types, Undecided, Init
<1>4. Handling
  BY <1>0 DEF Handling, Counting, Beats
<1>5. Faultless
  <2>1. Len(samples) = 0
    BY EmptySeq DEF Init
  <2>2. FirstBoot(target.ram) /\ FirstBoot(reading) /\ target.ram.clean /\ reading.clean
    BY <1>0 DEF FirstBoot
  <2>3. QED
    BY <1>0, <2>1, <2>2 DEF Faultless, Init
<1>6. Schedule
  BY DEF Schedule, Sampling, Init
<1>7. Recent
  BY DEF Recent, Sampling, Init
<1>8. AllSpaced
  BY EmptySeq DEF AllSpaced, Init
<1>9. Linked
  BY <1>0 DEF Linked, Init
<1>10. Verdicts
  BY DEF Verdicts, Passed, HealthyFailures, Init
<1>11. QED
  BY <1>3, <1>4, <1>5, <1>6, <1>7, <1>8, <1>9, <1>10 DEF IInv

LEMMA KeptIInv == IInv /\ [Next]_vars => IInv'
BY TypesKept, HandlingKept, FaultlessKept, ScheduleKept, RecentKept, SpacedKept, LinkedKept,
   VerdictsKept DEF IInv

LEMMA Invariance == Spec => []IInv
BY InitIInv, KeptIInv, PTL DEF Spec

(* Every variable has its type, and the three counters of the heartbeat     *)
(* handler never overtake one another, wherever the debugger halts it.      *)
THEOREM Typed == Spec => []TypeOK
<1>1. IInv => TypeOK
  <2> SUFFICES ASSUME IInv PROVE TypeOK
    OBVIOUS
  <2>1. Types /\ Handling
    BY DEF IInv
  <2>2. /\ target.ram.healthy <= target.ram.evaluations
        /\ target.ram.evaluations <= target.ram.heartbeat
    <3>1. target.ram.healthy \in Nat /\ target.ram.evaluations \in Nat /\ target.ram.heartbeat \in Nat
      BY <2>1 DEF Types, Target, Ram
    <3>2. QED
      BY <2>1, <3>1 DEF Handling
  <2>3. QED
    BY <2>1, <2>2 DEF TypeOK, Types, Target, Hil, Undecided, Decided, Sampling
<1>2. QED
  BY <1>1, Invariance, PTL

(* A PASS of the heartbeat collector covers the duration it claims without  *)
(* a gap or an unseen restart; a PASS of post_hil is about the boot of the  *)
(* USB run it names.                                                        *)
THEOREM Measured == Spec => []PassMeansMeasured
<1>1. IInv => PassMeansMeasured
  <2> SUFFICES ASSUME IInv, Passed PROVE PassMeansMeasured
    BY DEF PassMeansMeasured, PassCoversDuration, SnapshotOfHilBoot
  <2>1. Claim(file) /\ AllSpaced
    BY DEF IInv, Verdicts
  <2>2. QED
    BY <2>1, EmptySeq DEF Claim, Covered, AllSpaced, Spaced, Last, PassMeansMeasured,
       PassCoversDuration, SnapshotOfHilBoot
<1>2. QED
  BY <1>1, Invariance, PTL

(* The heartbeat collector fails a healthy target only for the instant of   *)
(* the halt: between the two counts of the voter, or too soon after the     *)
(* sample before.                                                           *)
THEOREM FailsHealthy == Spec => []HealthyFailures
<1>1. IInv => HealthyFailures
  BY DEF IInv, Verdicts
<1>2. QED
  BY <1>1, Invariance, PTL
=============================================================================
