--------------------------- MODULE HotplugProofs ----------------------------
(***************************************************************************)
(* Proofs about Hotplug for every number of cycles, every interval and     *)
(* every duration of the smoke process: its types, that each cycle counted *)
(* is an outage of its own which the polls saw, and that a PASS stands on  *)
(* all required cycles.                                                    *)
(***************************************************************************)
EXTENDS Hotplug, SequenceTheorems, TLAPS

(* The collector has not reached its verdict; it has the smoke under way.   *)
Working  == Steps \ {"conclude", "exited", "crashed"}
Smoking  == {"smoke", "smoking", "smoked", "retry"}

Good(c) == c.smoke /\ c.identity = identity

(* The evidence follows the loop: it is RUNNING until the verdict, a cycle  *)
(* is counted when its number is used up, every counted one is good, and    *)
(* the file says PASS only for what the collector holds at its exit.        *)
Bookkeeping ==
  /\ evidence.run = 1
  /\ pc \in Working => evidence.status = "RUNNING"
  /\ evidence.status # "FAIL" => /\ Len(evidence.cycles) = evidence.completed
                                 /\ watch.cycle = evidence.completed + 1
  /\ evidence.status = "PASS" => evidence.completed = Cycles
  /\ evidence.completed <= Len(evidence.cycles)
  /\ "disk" \notin faults => watch.cycle = evidence.completed + 1
  /\ Passed => pc = "exited" /\ file = evidence
  /\ \A n \in 1..evidence.completed : Good(evidence.cycles[n])
  /\ watch.state = "initial" => evidence.completed = 0
  /\ pc \in {"start", "wait", "identify"} => watch.state = "initial"
  /\ watch.state = "absent" => watch.cycle <= Cycles

(* The cable was out at t: in an absence that lasts, or in one on record    *)
(* that was over by u.                                                      *)
Open(t)     == ~cable.present /\ cable.since <= t
OutBy(t, u) == \E i \in DOMAIN outages :
                 outages[i].from <= t /\ t <= outages[i].to /\ outages[i].to <= u
Down(t)     == Open(t) \/ OutBy(t, now)

(* Nothing on record lies in the future, and no sleep is overslept.         *)
Clock ==
  /\ cable.since <= now
  /\ \A i \in DOMAIN outages : outages[i].to <= now
  /\ pc = "sleep" => now <= wake

(* The poll at t, the one that saw the disconnect or a later one, saw the   *)
(* cable out.                                                               *)
Polled(t) == watch.at <= t /\ t <= now /\ Down(watch.at) /\ Down(t)

(* While the collector takes the cable for gone, it was out at the          *)
(* disconnect it noted and at the poll before the one to come; once it is   *)
(* back, both belong to absences that are over.                             *)
Watching ==
  watch.state = "absent" =>
    /\ pc = "sleep" => Polled(wake - Poll)
    /\ pc = "poll" => Polled(now - Poll)
    /\ pc \in Smoking => /\ watch.seen <= now
                         /\ watch.seen - watch.at >= MinAbsent
                         /\ watch.at <= watch.seen - Poll
                         /\ OutBy(watch.at, watch.seen) /\ OutBy(watch.seen - Poll, watch.seen)

(* The next disconnect will be later than the last reconnection.            *)
Apart ==
  LET last == evidence.cycles[evidence.completed].back
  IN  evidence.completed > 0 /\ pc \in Working =>
        /\ watch.state = "absent" => last < watch.at
        /\ watch.state = "present" => pc \in {"sleep", "poll"}
        /\ watch.state = "present" /\ pc = "sleep" => last < wake
        /\ watch.state = "present" /\ pc = "poll" => last < now

(* The inductive invariant.                                                 *)
IInv == TypeOK /\ Bookkeeping /\ Clock /\ Watching /\ Apart /\ CyclesAreOutages
-----------------------------------------------------------------------------
(* What the collector appends to the evidence at the end of a cycle.        *)
LEMMA CycleRecord ==
  ASSUME TypeOK
  PROVE  /\ Recorded \in Document
         /\ Recorded.run = evidence.run /\ Recorded.status = evidence.status
         /\ Recorded.completed = evidence.completed
         /\ Recorded.cycles = Append(evidence.cycles, Recorded.cycles[Len(evidence.cycles) + 1])
         /\ Len(Recorded.cycles) = Len(evidence.cycles) + 1
         /\ \A n \in 1..Len(evidence.cycles) : Recorded.cycles[n] = evidence.cycles[n]
         /\ LET c == Recorded.cycles[Len(evidence.cycles) + 1]
            IN  /\ c.left = watch.at /\ c.back = watch.seen /\ c.smoke = smoke.passed
                /\ SameDevice => c.identity = identity
<1> DEFINE c == [left |-> watch.at, back |-> watch.seen, smoke |-> smoke.passed,
                 identity |-> IF cable.present THEN cable.identity ELSE "none"]
<1>1. c \in Cycle
  BY DEF TypeOK, Cycle
<1>2. PICK s \in Seq(Cycle) : s = evidence.cycles
  BY DEF TypeOK, Document
<1>3. PICK t \in Seq(Cycle) : t = Append(s, c)
  BY <1>1, <1>2, AppendProperties
<1>4. /\ Len(t) = Len(s) + 1 /\ t[Len(s) + 1] = c
      /\ \A n \in 1..Len(s) : t[n] = s[n]
  BY <1>1, <1>2, <1>3, AppendProperties
<1>5. Recorded = [evidence EXCEPT !.cycles = t]
  BY <1>2, <1>3 DEF Recorded
<1>6. /\ Recorded \in Document /\ Recorded.cycles = t
      /\ Recorded.run = evidence.run /\ Recorded.status = evidence.status
      /\ Recorded.completed = evidence.completed
  <2> HIDE DEF c
  <2>1. QED
    BY <1>5 DEF TypeOK, Document
<1>7. /\ c.left = watch.at /\ c.back = watch.seen /\ c.smoke = smoke.passed
      /\ SameDevice => c.identity = identity
  BY DEF SameDevice
<1> HIDE DEF c
<1>8. Len(Recorded.cycles) = Len(evidence.cycles) + 1 /\ Recorded.cycles[Len(evidence.cycles) + 1] = c
  BY <1>2, <1>4, <1>6
<1>9. Recorded.cycles = Append(evidence.cycles, c)
  BY <1>2, <1>3, <1>6
<1>10. \A n \in 1..Len(evidence.cycles) : Recorded.cycles[n] = evidence.cycles[n]
  BY <1>2, <1>4, <1>6
<1>11. QED
  BY <1>6, <1>7, <1>8, <1>9, <1>10

(* Types.                                                                   *)
LEMMA TypeInit ==
  Init => TypeOK
<1> SUFFICES ASSUME Init PROVE TypeOK
  OBVIOUS
<1>1. (CHOOSE i \in Identities : TRUE) \in Identities
  BY HotplugAssumption
<1>2. evidence \in Document /\ file \in Document /\ Len(evidence.cycles) = 0
  <2>1. PICK none : none = <<>> /\ none \in Seq(Cycle) /\ Len(none) = 0
    BY EmptySeq
  <2>2. evidence = [run |-> 1, status |-> "RUNNING", completed |-> 0, cycles |-> none]
    BY <2>1 DEF Init
  <2>3. PICK v \in {"PASS", "FAIL"} : file = [run |-> 0, status |-> v, completed |-> 0, cycles |-> none]
    BY <2>1 DEF Init
  <2>4. QED
    BY <2>1, <2>2, <2>3 DEF Document, Status
<1>3. /\ evidence.completed = 0 /\ watch.state = "initial"
      /\ watch \in [state: {"initial", "present", "absent"}, at: Nat, cycle: 1..Cycles + 1, seen: Nat]
  BY HotplugAssumption DEF Init
<1>4. cable \in [present: BOOLEAN, identity: Identities, since: Nat]
  BY <1>1 DEF Init
<1>5. outages \in Seq([from: Nat, to: Nat])
  BY DEF Init
<1>6. QED
  BY <1>2, <1>3, <1>4, <1>5 DEF Init, TypeOK, Steps

(* What an exception leaves of the evidence.                                *)
LEMMA Raises ==
  ASSUME NEW d \in Document, RaiseWith(d)
  PROVE  /\ pc' = "conclude"
         /\ evidence' \in Document /\ evidence'.status = "FAIL" /\ evidence'.run = d.run
         /\ evidence'.completed = d.completed /\ evidence'.cycles = d.cycles
BY DEF RaiseWith, Document, Status

(* The three ends of a cycle: counted and written, counted but not written, *)
(* or recorded and refused.                                                 *)
Counted ==
  /\ SameDevice /\ smoke.passed
  /\ evidence'.completed = watch.cycle /\ evidence'.status = evidence.status
  /\ watch' = [watch EXCEPT !.cycle = @ + 1, !.state = "present"]
  /\ file' = evidence' /\ pc' = "sleep" /\ faults' = faults

Unwritten ==
  /\ SameDevice /\ smoke.passed
  /\ evidence'.completed = watch.cycle /\ evidence'.status = "FAIL"
  /\ UNCHANGED <<watch, file>> /\ pc' = "conclude" /\ faults' = faults \cup {"disk"}
  /\ "disk" \in FaultKinds

Refused ==
  /\ evidence'.completed = evidence.completed /\ evidence'.status = "FAIL"
  /\ UNCHANGED <<watch, file>> /\ pc' = "conclude"
  /\ faults \subseteq faults' /\ faults' \subseteq faults \cup FaultKinds

(* Every end of a cycle is one of the three.                                *)
LEMMA CycleOutcome ==
  ASSUME IInv, CycleEnds
  PROVE  /\ pc = "smoked" /\ watch.state = "absent" /\ evidence.status = "RUNNING"
         /\ Len(evidence.cycles) = evidence.completed /\ watch.cycle = evidence.completed + 1
         /\ UNCHANGED <<now, cable, outages, smoke, identity>> /\ wake' \in Nat
         /\ evidence' \in Document /\ evidence'.run = evidence.run
         /\ evidence'.cycles = Recorded.cycles
         /\ (Counted /\ wake' = now + Poll) \/ Unwritten \/ Refused
<1>1. /\ pc = "smoked" /\ watch.state = "absent"
      /\ UNCHANGED <<now, cable, outages, smoke, identity>>
  BY DEF CycleEnds, external
<1>2. evidence.status = "RUNNING"
  BY <1>1 DEF IInv, Bookkeeping, Working, Steps
<1>3. /\ Len(evidence.cycles) = evidence.completed /\ watch.cycle = evidence.completed + 1
      /\ watch.cycle \in Nat
  BY <1>2 DEF IInv, Bookkeeping, TypeOK, Document
<1>4. /\ Recorded \in Document /\ Recorded.run = evidence.run /\ Recorded.status = evidence.status
      /\ Recorded.completed = evidence.completed
  BY CycleRecord DEF IInv
<1> DEFINE d == [Recorded EXCEPT !.completed = watch.cycle]
<1>5. /\ d \in Document /\ d.run = evidence.run /\ d.status = evidence.status
      /\ d.completed = watch.cycle /\ d.cycles = Recorded.cycles
  BY <1>3, <1>4 DEF Document
<1> HIDE DEF d
<1>6. now + Poll \in Nat /\ wake \in Nat
  BY HotplugAssumption DEF IInv, TypeOK
<1>7. CASE /\ SameDevice /\ smoke.passed /\ WriteEvidence(d, "sleep")
           /\ watch' = IF pc' = "sleep" THEN [watch EXCEPT !.cycle = @ + 1, !.state = "present"]
                                        ELSE watch
           /\ wake' = now + Poll
  <2>1. CASE file' = d /\ evidence' = d /\ pc' = "sleep" /\ NoFault
    <3>1. Counted
      BY <1>5, <1>7, <2>1 DEF Counted, NoFault
    <3>2. QED
      BY <1>1, <1>2, <1>3, <1>5, <1>6, <1>7, <2>1, <3>1
  <2>2. CASE Fault("disk") /\ RaiseWith(d) /\ UNCHANGED file
    <3>1. /\ pc' = "conclude" /\ evidence' \in Document /\ evidence'.status = "FAIL"
          /\ evidence'.run = d.run /\ evidence'.completed = d.completed
          /\ evidence'.cycles = d.cycles
      BY <1>5, <2>2, Raises
    <3>2. Unwritten
      BY <1>5, <1>7, <2>2, <3>1 DEF Unwritten, Fault
    <3>3. QED
      BY <1>1, <1>2, <1>3, <1>5, <1>6, <1>7, <3>1, <3>2
  <2>3. QED
    BY <1>7, <2>1, <2>2 DEF WriteEvidence
<1>8. CASE /\ RaiseWith(Recorded) /\ (NoFault \/ Fault("node"))
           /\ UNCHANGED <<wake, watch, smoke, identity, file>>
  <2>1. /\ pc' = "conclude" /\ evidence' \in Document /\ evidence'.status = "FAIL"
        /\ evidence'.run = Recorded.run /\ evidence'.completed = Recorded.completed
        /\ evidence'.cycles = Recorded.cycles
    BY <1>4, <1>8, Raises
  <2>2. faults \subseteq faults' /\ faults' \subseteq faults \cup FaultKinds
    BY <1>8 DEF NoFault, Fault
  <2>3. Refused
    BY <1>4, <1>8, <2>1, <2>2 DEF Refused
  <2>4. QED
    BY <1>1, <1>2, <1>3, <1>4, <1>6, <1>8, <2>1, <2>3
<1>9. QED
  BY <1>7, <1>8 DEF CycleEnds, d

(* Every step keeps the types.                                              *)
LEMMA TypeStep ==
  ASSUME IInv, [Next]_vars
  PROVE  TypeOK'
<1> USE DEF TypeOK, IInv
<1>0. evidence \in Document
  OBVIOUS
<1> DEFINE E == /\ evidence' \in Document /\ evidence'.completed = evidence.completed
                /\ evidence'.cycles = evidence.cycles
<1>a. ASSUME Raise PROVE E /\ pc' \in Steps
  BY <1>0, <1>a, Raises DEF Raise, Steps
<1>b. ASSUME BeginSmoke PROVE smoke' \in [deadline: Nat, began: Nat, passed: BOOLEAN] /\ pc' \in Steps
  BY <1>b, HotplugAssumption DEF BeginSmoke, Steps
<1>c. Poll \in Nat /\ now + Poll \in Nat
  BY HotplugAssumption
<1>1. CASE Start
  BY <1>1, <1>a DEF Start, NoFault, Fault, Raise, external, Steps
<1>2. CASE WaitForDevice
  <2>1. CASE now < Overall /\ cable.present /\ pc' = "identify" /\ NoFault
             /\ UNCHANGED <<wake, watch, smoke, identity, evidence, file, external>>
    BY <2>1 DEF NoFault, external, Steps
  <2>2. CASE pc' = "sleep" /\ wake' = now + Poll /\ NoFault
             /\ UNCHANGED <<watch, smoke, identity, evidence, file, external>>
    BY <1>c, <2>2 DEF NoFault, external, Steps
  <2>3. CASE Raise /\ (NoFault \/ Fault("second")) /\ UNCHANGED external
    BY <1>a, <2>3 DEF Raise, NoFault, Fault, external
  <2>4. QED
    BY <1>2, <2>1, <2>2, <2>3 DEF WaitForDevice
<1>3. CASE Identify
  <2>1. CASE Raise /\ (NoFault \/ Fault("serial") \/ Fault("node")) /\ UNCHANGED external
    BY <1>a, <2>1 DEF Raise, NoFault, Fault, external
  <2>2. CASE /\ identity' = cable.identity /\ BeginSmoke /\ NoFault
             /\ UNCHANGED <<wake, watch, evidence, file, external>>
    <3>1. identity' \in Identities
      BY <2>2
    <3>2. QED
      BY <1>b, <2>2, <3>1 DEF NoFault, external
  <2>3. QED
    BY <1>3, <2>1, <2>2 DEF Identify
<1>4. CASE RunSmoke
  <2>1. wake' \in Nat
    <3>1. PICK time \in SmokeTimes : wake' = now + time
      BY <1>4 DEF RunSmoke
    <3>2. time \in Nat
      BY HotplugAssumption
    <3>3. QED
      BY <3>1, <3>2
  <2>2. smoke' \in [deadline: Nat, began: Nat, passed: BOOLEAN]
    BY <1>4 DEF RunSmoke, external
  <2>3. QED
    BY <1>4, <2>1, <2>2 DEF RunSmoke, external, Steps
<1>5. CASE SmokeEnds
  <2>1. smoke' \in [deadline: Nat, began: Nat, passed: BOOLEAN] /\ faults' \subseteq FaultKinds
        /\ ("disk" \in faults' <=> "disk" \in faults)
    BY <1>5 DEF SmokeEnds, NoFault, Fault
  <2>2. wake' \in Nat /\ pc' \in Steps
    BY <1>5, <1>c DEF SmokeEnds, Steps
  <2>3. QED
    BY <1>5, <2>1, <2>2 DEF SmokeEnds, external
<1>6. CASE Retry
  BY <1>6 DEF Retry, external, Steps
<1>7. CASE InitialSmoke
  <2>1. faults' \subseteq FaultKinds /\ ("disk" \in faults => "disk" \in faults')
    BY <1>7 DEF InitialSmoke, WriteEvidence, NoFault, Fault
  <2>2. E /\ file' \in Document /\ pc' \in Steps
    BY <1>0, <1>7, <1>a, Raises DEF InitialSmoke, WriteEvidence, Raise, Steps
  <2>3. /\ watch' \in [state: {"initial", "present", "absent"}, at: Nat, cycle: 1..Cycles + 1,
                        seen: Nat]
        /\ watch'.cycle = watch.cycle
    BY <1>7 DEF InitialSmoke, Raise
  <2>4. "disk" \notin faults => watch.cycle = evidence.completed + 1
    BY DEF Bookkeeping
  <2>5. UNCHANGED <<now, wake, smoke, identity, cable, outages>>
    BY <1>7 DEF InitialSmoke, Raise, external
  <2> HIDE DEF E
  <2>7. evidence' \in Document /\ evidence'.completed = evidence.completed /\ evidence'.cycles = evidence.cycles
    BY <2>2 DEF E
  <2>6. QED
    BY <2>1, <2>2, <2>3, <2>4, <2>5, <2>7
<1>8. CASE SeesNoChange
  BY <1>8, <1>c DEF SeesNoChange, Looking, SleepAfter, NoFault, external, Steps
<1>9. CASE SeesDisconnect
  <2>1. /\ watch' \in [state: {"initial", "present", "absent"}, at: Nat, cycle: 1..Cycles + 1,
                        seen: Nat]
        /\ watch'.cycle = watch.cycle /\ watch.state # "initial"
    BY <1>9 DEF SeesDisconnect, SleepAfter
  <2>2. QED
    BY <1>9, <1>c, <2>1 DEF SeesDisconnect, Looking, SleepAfter, NoFault, external, Steps
<1>10. CASE SeesReconnect
  <2>1. CASE Raise
    BY <1>10, <1>a, <2>1 DEF SeesReconnect, Looking, NoFault, Raise, external
  <2>2. CASE /\ watch' = [watch EXCEPT !.seen = now]
             /\ BeginSmoke /\ UNCHANGED <<wake, identity, evidence, file>>
    <3>1. /\ watch' \in [state: {"initial", "present", "absent"}, at: Nat, cycle: 1..Cycles + 1,
                          seen: Nat]
          /\ watch'.cycle = watch.cycle /\ watch.state # "initial"
      BY <1>10, <2>2 DEF SeesReconnect
    <3>2. QED
      BY <1>10, <1>b, <2>2, <3>1 DEF SeesReconnect, Looking, NoFault, external
  <2>3. QED
    BY <1>10, <2>1, <2>2 DEF SeesReconnect
<1>11. CASE SeesTwo
  BY <1>11, <1>a DEF SeesTwo, Looking, Fault, Raise, external
<1>12. CASE CycleEnds
  <2>1. /\ Len(evidence.cycles) = evidence.completed /\ watch.cycle = evidence.completed + 1
        /\ UNCHANGED <<now, cable, outages, smoke, identity>> /\ wake' \in Nat
        /\ evidence' \in Document /\ evidence'.cycles = Recorded.cycles
        /\ Counted \/ Unwritten \/ Refused
    BY <1>12, CycleOutcome
  <2>2. Len(evidence'.cycles) = Len(evidence.cycles) + 1
    BY <2>1, CycleRecord
  <2>3. watch.cycle \in 1..Cycles
    BY <1>12, CycleOutcome, HotplugAssumption DEF Bookkeeping
  <2>4. watch' \in [state: {"initial", "present", "absent"}, at: Nat, cycle: 1..Cycles + 1, seen: Nat]
    <3>1. watch.cycle + 1 \in 1..Cycles + 1
      BY <2>3, HotplugAssumption
    <3>2. /\ watch \in [state: {"initial", "present", "absent"}, at: Nat, cycle: 1..Cycles + 1, seen: Nat]
          /\ "present" \in {"initial", "present", "absent"}
      OBVIOUS
    <3>3. watch' = watch \/ watch' = [watch EXCEPT !.cycle = @ + 1, !.state = "present"]
      BY <2>1 DEF Counted, Unwritten, Refused
    <3>4. QED
      BY <3>1, <3>2, <3>3, Zenon
  <2>5. CASE Counted
    <3>1. watch'.cycle = watch.cycle + 1
      BY <2>5 DEF Counted
    <3>2. QED
      BY <2>1, <2>2, <2>4, <2>5, <3>1 DEF Counted, Steps, Document
  <2>6. CASE Unwritten
    BY <2>1, <2>2, <2>4, <2>6 DEF Unwritten, Steps, Document
  <2>7. CASE Refused
    <3>1. faults' \subseteq FaultKinds /\ ("disk" \in faults => "disk" \in faults')
      BY <2>7 DEF Refused
    <3>2. QED
      BY <2>1, <2>2, <2>4, <2>7, <3>1 DEF Refused, Steps, Document
  <2>8. QED
    BY <2>1, <2>5, <2>6, <2>7
<1>13. CASE WakesUp
  BY <1>13 DEF WakesUp, external, Steps
<1>14. CASE LoopEnds
  <2>1. CASE Raise /\ NoFault /\ UNCHANGED external
    BY <1>a, <2>1 DEF Raise, NoFault, external
  <2>2. CASE /\ evidence' = [evidence EXCEPT !.status = "PASS"] /\ pc' = "conclude"
             /\ UNCHANGED <<wake, watch, smoke, identity, file>>
    <3>1. E
      BY <2>2 DEF Document, Status
    <3>2. QED
      BY <1>14, <2>2, <3>1 DEF LoopEnds, NoFault, external, Steps
  <2>3. QED
    BY <1>14, <2>1, <2>2 DEF LoopEnds
<1>15. CASE Conclude
  <2>1. E /\ file' \in Document /\ pc' \in Steps
    BY <1>0, <1>15, Raises DEF Conclude, Steps
  <2>2. faults' \subseteq FaultKinds /\ ("disk" \in faults => "disk" \in faults')
    BY <1>15 DEF Conclude, NoFault, Fault
  <2>3. QED
    BY <1>15, <2>1, <2>2 DEF Conclude, external
<1>16. CASE SmokeHangs
  BY <1>16 DEF SmokeHangs, Fault, external
<1>17. CASE Interrupt
  BY <1>17 DEF Interrupt, Fault, external, Steps
<1>18. CASE Pull
  BY <1>18 DEF Pull, collector
<1>19. CASE Plug
  <2>1. cable' \in [present: BOOLEAN, identity: Identities, since: Nat]
    BY <1>19 DEF Plug
  <2>2. outages' \in Seq([from: Nat, to: Nat])
    <3>1. [from |-> cable.since, to |-> now] \in [from: Nat, to: Nat]
      OBVIOUS
    <3>2. QED
      BY <1>19, <3>1, AppendProperties DEF Plug
  <2>3. faults' \subseteq FaultKinds /\ ("disk" \in faults => "disk" \in faults')
    BY <1>19 DEF Plug, NoFault, Fault
  <2>4. QED
    BY <1>19, <2>1, <2>2, <2>3 DEF Plug, collector
<1>20. CASE Tick
  BY <1>20 DEF Tick
<1>21. CASE UNCHANGED vars
  BY <1>21 DEF vars
<1>22. QED
  BY <1>1, <1>2, <1>3, <1>4, <1>5, <1>6, <1>7, <1>8, <1>9, <1>10, <1>11, <1>12, <1>13, <1>14,
     <1>15, <1>16, <1>17, <1>18, <1>19, <1>20, <1>21 DEF Next, Collector
-----------------------------------------------------------------------------
(* A step that leaves the records alone keeps the books.                    *)
LEMMA BookKept ==
  ASSUME TypeOK, Bookkeeping, UNCHANGED <<watch, identity, evidence, file>>, faults \subseteq faults',
         pc' = pc \/ (pc \in Working /\ pc' \in Working \cup {"crashed"}),
         pc' \in {"start", "wait", "identify"} => watch.state = "initial"
  PROVE  Bookkeeping'
<1>1. ~Passed => ~Passed'
  BY DEF Passed
<1>2. pc' = "exited" => pc = "exited"
  BY DEF Working
<1>3. Passed' => pc' = "exited" /\ file' = evidence'
  BY <1>1 DEF Bookkeeping, Working, Steps
<1>4. pc' \in Working => pc \in Working
  BY DEF Working
<1>5. \A n \in 1..evidence'.completed : Good(evidence.cycles[n])'
  BY DEF Bookkeeping, Good
<1>6. QED
  BY <1>3, <1>4, <1>5 DEF Bookkeeping

(* So does one that fails the run.                                          *)
LEMMA BookFailed ==
  ASSUME TypeOK, Bookkeeping, UNCHANGED <<watch, identity, file>>, faults \subseteq faults',
         pc \in Working \cup {"conclude"}, pc' = "conclude",
         evidence' \in Document, evidence'.status = "FAIL", evidence'.run = evidence.run,
         evidence'.completed = evidence.completed, evidence'.cycles = evidence.cycles
  PROVE  Bookkeeping'
<1>1. ~Passed
  BY DEF Bookkeeping, Working
<1>2. ~Passed'
  BY <1>1 DEF Passed
<1>3. \A n \in 1..evidence'.completed : Good(evidence.cycles[n])'
  BY DEF Bookkeeping, Good
<1>4. pc' \notin Working /\ pc' \notin {"start", "wait", "identify"}
  BY DEF Working
<1>5. QED
  BY <1>2, <1>3, <1>4 DEF Bookkeeping

(* An exception fails the run and nothing else.                             *)
LEMMA BookRaised ==
  ASSUME TypeOK, Bookkeeping, Raise, faults \subseteq faults', pc \in Working \cup {"conclude"}
  PROVE  Bookkeeping'
<1>1. RaiseWith(evidence) /\ evidence \in Document /\ UNCHANGED <<watch, identity, file>>
  BY DEF Raise, TypeOK
<1>2. QED
  BY <1>1, Raises, BookFailed

(* The books at the start.                                                  *)
LEMMA BookInit ==
  Init => Bookkeeping
<1> SUFFICES ASSUME Init PROVE Bookkeeping
  OBVIOUS
<1>1. /\ evidence.run = 1 /\ evidence.status = "RUNNING" /\ evidence.completed = 0
      /\ evidence.cycles = <<>> /\ watch.cycle = 1 /\ watch.state = "initial" /\ file.run = 0
  BY DEF Init
<1>2. Len(evidence.cycles) = 0
  BY <1>1
<1>3. ~Passed
  BY <1>1 DEF Passed
<1>4. QED
  BY <1>1, <1>2, <1>3 DEF Bookkeeping

(* Every step keeps the books.                                              *)
LEMMA BookStep ==
  ASSUME IInv, [Next]_vars
  PROVE  Bookkeeping'
<1>0. TypeOK /\ Bookkeeping
  BY DEF IInv
<1>1. CASE Start
  <2>1. faults \subseteq faults' /\ pc \in Working
    BY <1>1 DEF Start, NoFault, Fault, Working, Steps
  <2>2. CASE Raise
    BY <1>0, <2>1, <2>2, BookRaised
  <2>3. CASE pc' = "wait" /\ UNCHANGED <<watch, identity, evidence, file>>
    <3>1. pc' \in Working /\ watch.state = "initial"
      BY <1>0, <1>1, <2>3 DEF Start, Bookkeeping, Working, Steps
    <3>2. QED
      BY <1>0, <2>1, <2>3, <3>1, BookKept
  <2>4. QED
    BY <1>1, <2>2, <2>3 DEF Start
<1>2. CASE WaitForDevice
  <2>1. faults \subseteq faults' /\ pc \in Working
    BY <1>2 DEF WaitForDevice, NoFault, Fault, Working, Steps
  <2>2. CASE Raise
    BY <1>0, <2>1, <2>2, BookRaised
  <2>3. CASE pc' \in {"identify", "sleep"} /\ UNCHANGED <<watch, identity, evidence, file>>
    <3>1. pc' \in Working /\ watch.state = "initial"
      BY <1>0, <1>2, <2>3 DEF WaitForDevice, Bookkeeping, Working, Steps
    <3>2. QED
      BY <1>0, <2>1, <2>3, <3>1, BookKept
  <2>4. QED
    BY <1>2, <2>2, <2>3 DEF WaitForDevice
<1>3. CASE Identify
  <2>1. faults \subseteq faults' /\ pc \in Working /\ pc = "identify"
    BY <1>3 DEF Identify, NoFault, Fault, Working, Steps
  <2>2. CASE Raise
    BY <1>0, <2>1, <2>2, BookRaised
  <2>3. CASE pc' = "smoke" /\ UNCHANGED <<watch, evidence, file>>
    <3>1. watch.state = "initial" /\ evidence.completed = 0
      BY <1>0, <2>1 DEF Bookkeeping
    <3>2. ~Passed'
      BY <1>0, <2>1, <2>3 DEF Bookkeeping, Passed
    <3>3. pc' \in Working
      BY <2>3 DEF Working, Steps
    <3>4. \A n \in 1..evidence'.completed : Good(evidence.cycles[n])'
      BY <2>3, <3>1
    <3>5. QED
      BY <1>0, <2>1, <2>3, <3>1, <3>2, <3>3, <3>4 DEF Bookkeeping
  <2>4. QED
    BY <1>3, <2>2, <2>3 DEF Identify, BeginSmoke
<1>4. CASE RunSmoke \/ SmokeEnds \/ Retry
  <2>1. /\ faults \subseteq faults' /\ UNCHANGED <<watch, identity, evidence, file>>
        /\ pc \in Working /\ pc' \in {"smoking", "smoked", "retry", "smoke"}
    BY <1>4 DEF RunSmoke, SmokeEnds, Retry, NoFault, Fault, Working, Steps
  <2>2. pc' \in Working
    BY <2>1 DEF Working, Steps
  <2>3. QED
    BY <1>0, <2>1, <2>2, BookKept
<1>5. CASE SmokeHangs \/ Pull \/ Plug \/ Tick \/ UNCHANGED vars
  <2>1. /\ faults \subseteq faults' /\ UNCHANGED <<watch, identity, evidence, file>> /\ pc' = pc
    BY <1>5 DEF SmokeHangs, Pull, Plug, Tick, vars, collector, NoFault, Fault
  <2>2. pc' \in {"start", "wait", "identify"} => watch.state = "initial"
    BY <1>0, <2>1 DEF Bookkeeping
  <2>3. QED
    BY <1>0, <2>1, <2>2, BookKept
<1>6. CASE Interrupt
  <2>1. CASE pc = "conclude"
    <3>1. /\ faults \subseteq faults' /\ UNCHANGED <<watch, identity, evidence, file>>
          /\ pc' = "crashed"
      BY <1>6 DEF Interrupt, Fault
    <3>2. ~Passed'
      BY <1>0, <2>1, <3>1 DEF Bookkeeping, Passed
    <3>3. \A n \in 1..evidence'.completed : Good(evidence.cycles[n])'
      BY <1>0, <3>1 DEF Bookkeeping, Good
    <3>4. QED
      BY <1>0, <3>1, <3>2, <3>3 DEF Bookkeeping, Working
  <2>2. CASE pc # "conclude"
    <3>1. /\ faults \subseteq faults' /\ UNCHANGED <<watch, identity, evidence, file>>
          /\ pc' = "crashed" /\ pc \in Working
      BY <1>0, <1>6, <2>2 DEF Interrupt, Fault, Working, TypeOK
    <3>2. QED
      BY <1>0, <3>1, BookKept
  <2>3. QED
    BY <2>1, <2>2
<1>7. CASE InitialSmoke
  <2>1. /\ faults \subseteq faults' /\ pc \in Working /\ pc = "smoked" /\ watch.state = "initial"
        /\ UNCHANGED identity
    BY <1>7 DEF InitialSmoke, WriteEvidence, NoFault, Fault, Raise, Working, Steps
  <2>2. CASE Raise
    BY <1>0, <2>1, <2>2, BookRaised
  <2>3. CASE RaiseWith(evidence) /\ UNCHANGED <<watch, file>>
    BY <1>0, <2>1, <2>3, Raises, BookFailed DEF TypeOK
  <2>4. CASE /\ file' = evidence /\ evidence' = evidence /\ pc' = "poll"
             /\ watch' = [watch EXCEPT !.state = "present"]
    <3>1. watch'.state = "present" /\ watch'.cycle = watch.cycle
      BY <1>0, <2>4 DEF TypeOK
    <3>2. evidence.status = "RUNNING"
      BY <1>0, <2>1 DEF Bookkeeping
    <3>3. ~Passed'
      BY <2>4, <3>2 DEF Passed
    <3>4. \A n \in 1..evidence'.completed : Good(evidence.cycles[n])'
      BY <1>0, <2>1, <2>4 DEF Bookkeeping, Good
    <3>5. QED
      BY <1>0, <2>1, <2>4, <3>1, <3>2, <3>3, <3>4 DEF Bookkeeping
  <2>5. QED
    BY <1>7, <2>2, <2>3, <2>4, <1>0, Raises DEF InitialSmoke, WriteEvidence, TypeOK
<1>8. CASE SeesNoChange
  <2>1. /\ faults \subseteq faults' /\ UNCHANGED <<watch, identity, evidence, file>>
        /\ pc = "poll" /\ pc' = "sleep"
    BY <1>8 DEF SeesNoChange, Looking, SleepAfter, NoFault
  <2>2. QED
    BY <1>0, <2>1, BookKept DEF Working, Steps
<1>9. CASE SeesDisconnect \/ SeesReconnect \/ SeesTwo
  <2>1. faults \subseteq faults' /\ pc = "poll" /\ pc \in Working /\ watch.cycle <= Cycles
    BY <1>9 DEF SeesDisconnect, SeesReconnect, SeesTwo, Looking, More, SleepAfter, NoFault, Fault,
                Working, Steps
  <2>2. CASE Raise
    BY <1>0, <2>1, <2>2, BookRaised
  <2>3. CASE /\ UNCHANGED <<identity, evidence, file>> /\ pc' \in {"sleep", "smoke"}
             /\ watch.state # "initial" /\ watch'.state = "absent" /\ watch'.cycle = watch.cycle
    <3>1. evidence.status = "RUNNING"
      BY <1>0, <2>1 DEF Bookkeeping
    <3>2. ~Passed'
      BY <1>0, <2>1, <2>3 DEF Bookkeeping, Passed
    <3>3. \A n \in 1..evidence'.completed : Good(evidence.cycles[n])'
      BY <1>0, <2>1, <2>3 DEF Bookkeeping, Good
    <3>4. QED
      BY <1>0, <2>1, <2>3, <3>1, <3>2, <3>3 DEF Bookkeeping
  <2>4. CASE SeesDisconnect
    <3>1. watch'.state = "absent" /\ watch'.cycle = watch.cycle /\ watch.state # "initial"
      BY <1>0, <2>4 DEF SeesDisconnect, SleepAfter, TypeOK
    <3>2. QED
      BY <2>3, <2>4, <3>1 DEF SeesDisconnect, SleepAfter
  <2>5. CASE SeesReconnect
    <3>1. CASE Raise
      BY <2>2, <3>1
    <3>2. CASE /\ watch' = [watch EXCEPT !.seen = now]
               /\ BeginSmoke /\ UNCHANGED <<wake, identity, evidence, file>>
      <4>1. watch'.state = "absent" /\ watch'.cycle = watch.cycle /\ watch.state # "initial"
        BY <1>0, <2>5, <3>2 DEF SeesReconnect, TypeOK
      <4>2. QED
        BY <2>3, <3>2, <4>1 DEF BeginSmoke
    <3>3. QED
      BY <2>5, <3>1, <3>2 DEF SeesReconnect
  <2>6. QED
    BY <1>9, <2>2, <2>4, <2>5 DEF SeesTwo
<1>10. CASE CycleEnds
  <2>1. /\ pc = "smoked" /\ watch.state = "absent" /\ evidence.status = "RUNNING"
        /\ Len(evidence.cycles) = evidence.completed /\ watch.cycle = evidence.completed + 1
        /\ UNCHANGED identity
        /\ evidence' \in Document /\ evidence'.run = evidence.run
        /\ evidence'.cycles = Recorded.cycles
        /\ Counted \/ Unwritten \/ Refused
    BY <1>10, CycleOutcome
  <2>2. /\ Len(evidence'.cycles) = Len(evidence.cycles) + 1
        /\ \A n \in 1..Len(evidence.cycles) : evidence'.cycles[n] = evidence.cycles[n]
        /\ evidence'.cycles[Len(evidence.cycles) + 1].smoke = smoke.passed
        /\ SameDevice => evidence'.cycles[Len(evidence.cycles) + 1].identity = identity
    BY <1>0, <2>1, CycleRecord
  <2>3. /\ evidence.run = 1 /\ ~Passed /\ watch.cycle <= Cycles /\ evidence.completed \in Nat
        /\ \A n \in 1..evidence.completed : Good(evidence.cycles[n])
    BY <1>0, <2>1 DEF Bookkeeping, TypeOK, Document
  <2>4. \A n \in 1..evidence.completed : Good(evidence.cycles[n])'
    BY <2>1, <2>2, <2>3 DEF Good
  <2>5. CASE Refused
    <3>1. ~Passed'
      BY <2>3, <2>5 DEF Refused, Passed
    <3>2. QED
      BY <1>0, <2>1, <2>2, <2>3, <2>4, <2>5, <3>1 DEF Refused, Bookkeeping, Working
  <2>6. CASE (Counted \/ Unwritten) /\ SameDevice /\ smoke.passed
    <3>1. evidence'.completed = evidence.completed + 1
      BY <2>1, <2>6 DEF Counted, Unwritten
    <3>2. /\ evidence'.cycles[evidence.completed + 1].smoke
          /\ evidence'.cycles[evidence.completed + 1].identity = identity'
      BY <2>1, <2>2, <2>6
    <3>3. \A n \in 1..evidence'.completed : Good(evidence.cycles[n])'
      <4>1. SUFFICES ASSUME NEW n \in 1..evidence.completed + 1 PROVE Good(evidence.cycles[n])'
        BY <3>1
      <4>2. CASE n = evidence.completed + 1
        BY <3>2, <4>2 DEF Good
      <4>3. CASE n # evidence.completed + 1
        BY <2>3, <2>4, <4>3
      <4>4. QED
        BY <4>2, <4>3
    <3>4. CASE Counted
      <4>1. watch'.cycle = watch.cycle + 1 /\ watch'.state = "present"
        BY <1>0, <3>4 DEF Counted, TypeOK
      <4>2. ~Passed' /\ pc' = "sleep" /\ evidence'.status = "RUNNING" /\ faults' = faults
        BY <2>1, <3>4 DEF Counted, Passed
      <4>3. QED
        BY <2>1, <2>2, <2>3, <3>1, <3>3, <4>1, <4>2 DEF Bookkeeping
    <3>5. CASE Unwritten
      <4>1. /\ ~Passed' /\ pc' = "conclude" /\ evidence'.status = "FAIL" /\ "disk" \in faults'
            /\ watch' = watch
        BY <2>1, <2>3, <3>5 DEF Unwritten, Passed
      <4>2. QED
        BY <2>1, <2>2, <2>3, <3>1, <3>3, <4>1 DEF Bookkeeping, Working
    <3>6. QED
      BY <2>6, <3>4, <3>5
  <2>7. QED
    BY <2>1, <2>5, <2>6 DEF Counted, Unwritten
<1>11. CASE WakesUp
  <2>1. /\ faults \subseteq faults' /\ UNCHANGED <<watch, identity, evidence, file>>
        /\ pc = "sleep" /\ pc' \in {"wait", "poll"} /\ (pc' = "wait" => watch.state = "initial")
    BY <1>11 DEF WakesUp
  <2>2. QED
    BY <1>0, <2>1, BookKept DEF Working, Steps
<1>12. CASE LoopEnds
  <2>1. faults \subseteq faults' /\ pc = "poll" /\ pc \in Working
    BY <1>12 DEF LoopEnds, NoFault, Working, Steps
  <2>2. CASE Raise
    BY <1>0, <2>1, <2>2, BookRaised
  <2>3. CASE /\ watch.cycle > Cycles
             /\ evidence' = [evidence EXCEPT !.status = "PASS"] /\ pc' = "conclude"
             /\ UNCHANGED <<wake, watch, smoke, identity, file>>
    <3>1. evidence.status = "RUNNING" /\ watch.cycle = evidence.completed + 1
      BY <1>0, <2>1 DEF Bookkeeping
    <3>2. evidence.completed = Cycles
      <4>1. watch.cycle \in 1..Cycles + 1 /\ Cycles \in Nat /\ evidence.completed \in Nat
        BY <1>0, HotplugAssumption DEF TypeOK, Document
      <4>2. QED
        BY <2>3, <3>1, <4>1
    <3>3. /\ evidence'.status = "PASS" /\ evidence'.run = evidence.run
          /\ evidence'.completed = evidence.completed /\ evidence'.cycles = evidence.cycles
      BY <1>0, <2>3 DEF TypeOK, Document
    <3>4. ~Passed'
      BY <1>0, <2>1, <2>3 DEF Bookkeeping, Passed
    <3>5. \A n \in 1..evidence'.completed : Good(evidence.cycles[n])'
      BY <1>0, <2>3, <3>3 DEF Bookkeeping, Good
    <3>6. QED
      BY <1>0, <2>1, <2>3, <3>1, <3>2, <3>3, <3>4, <3>5 DEF Bookkeeping, Working
  <2>4. QED
    BY <1>12, <1>0, <2>2, <2>3, HotplugAssumption DEF LoopEnds, TypeOK
<1>13. CASE Conclude
  <2>1. faults \subseteq faults' /\ pc = "conclude" /\ UNCHANGED <<watch, identity>> /\ ~Passed
    BY <1>0, <1>13 DEF Conclude, NoFault, Fault, Bookkeeping
  <2>2. CASE RaiseWith(evidence) /\ UNCHANGED file
    BY <1>0, <2>1, <2>2, Raises, BookFailed DEF TypeOK
  <2>3. CASE UNCHANGED evidence /\ ((file' = evidence /\ pc' = "exited") \/ (UNCHANGED file /\ pc' = "crashed"))
    <3>1. Passed' => pc' = "exited" /\ file' = evidence'
      BY <2>1, <2>3 DEF Passed
    <3>2. \A n \in 1..evidence'.completed : Good(evidence.cycles[n])'
      BY <1>0, <2>1, <2>3 DEF Bookkeeping, Good
    <3>3. pc' \notin Working /\ pc' \notin {"start", "wait", "identify"}
      BY <2>3 DEF Working
    <3>4. QED
      BY <1>0, <2>1, <2>3, <3>1, <3>2, <3>3 DEF Bookkeeping
  <2>4. QED
    <3>1. \/ file' = evidence /\ pc' = "exited" /\ UNCHANGED evidence
          \/ UNCHANGED file /\ RaiseWith(evidence)
          \/ UNCHANGED file /\ pc' = "crashed" /\ UNCHANGED evidence
      BY <1>13 DEF Conclude
    <3>2. QED
      BY <2>2, <2>3, <3>1
<1>14. QED
  BY <1>1, <1>2, <1>3, <1>4, <1>5, <1>6, <1>7, <1>8, <1>9, <1>10, <1>11, <1>12, <1>13
     DEF Next, Collector
-----------------------------------------------------------------------------
(* Only the operator and the clock change what the collector looks at.      *)
LEMMA Environment ==
  ASSUME [Next]_vars
  PROVE  Pull \/ Plug \/ Tick \/ UNCHANGED <<now, cable, outages>>
BY DEF Next, Collector, vars, Start, WaitForDevice, Identify, RunSmoke, SmokeEnds, Retry,
       InitialSmoke, SeesNoChange, SeesDisconnect, SeesReconnect, SeesTwo, CycleEnds, WakesUp,
       LoopEnds, Conclude, SmokeHangs, Interrupt, Looking, external

(* What a reconnection adds to the outages.                                 *)
LEMMA Plugged ==
  ASSUME TypeOK, Plug
  PROVE  /\ Len(outages) \in Nat /\ DOMAIN outages = 1..Len(outages)
         /\ DOMAIN outages' = 1..Len(outages) + 1
         /\ \A i \in 1..Len(outages) : outages'[i] = outages[i]
         /\ outages'[Len(outages) + 1].from = cable.since
         /\ outages'[Len(outages) + 1].to = now
<1> DEFINE o == [from |-> cable.since, to |-> now]
<1>1. o \in [from: Nat, to: Nat] /\ o.from = cable.since /\ o.to = now
  BY DEF TypeOK
<1> HIDE DEF o
<1>2. PICK s \in Seq([from: Nat, to: Nat]) : s = outages
  BY DEF TypeOK
<1>3. /\ Len(Append(s, o)) = Len(s) + 1 /\ Append(s, o)[Len(s) + 1] = o
      /\ \A i \in 1..Len(s) : Append(s, o)[i] = s[i]
      /\ Append(s, o) \in Seq([from: Nat, to: Nat])
  BY <1>1, AppendProperties
<1>4. DOMAIN Append(s, o) = 1..Len(s) + 1 /\ DOMAIN s = 1..Len(s) /\ Len(s) \in Nat
  BY <1>3, LenProperties
<1>5. outages' = Append(s, o)
  BY <1>2 DEF Plug, o
<1>6. QED
  BY <1>1, <1>2, <1>3, <1>4, <1>5

(* Their bounds are times.                                                  *)
LEMMA OutageTypes ==
  ASSUME TypeOK
  PROVE  \A i \in DOMAIN outages : outages[i].from \in Nat /\ outages[i].to \in Nat
<1>1. PICK s \in Seq([from: Nat, to: Nat]) : s = outages
  BY DEF TypeOK
<1>2. \A i \in DOMAIN s : s[i] \in [from: Nat, to: Nat]
  BY ElementOfSeq, LenProperties
<1>3. QED
  BY <1>1, <1>2

(* An absence once seen stays on record.                                    *)
LEMMA DownStays ==
  ASSUME IInv, [Next]_vars, NEW t \in Int, NEW u \in Nat
  PROVE  /\ now \in Nat /\ now' \in Nat /\ now <= now'
         /\ t <= now /\ Down(t) => Down(t)'
         /\ OutBy(t, u) => OutBy(t, u)'
<1>0. now \in Nat /\ TypeOK /\ Clock
  BY DEF IInv, TypeOK
<1>1. \A i \in DOMAIN outages : outages[i].from \in Nat /\ outages[i].to \in Nat
  BY <1>0, OutageTypes
<1>2. CASE UNCHANGED <<cable, outages>> /\ now' \in Nat /\ now <= now'
  BY <1>0, <1>1, <1>2 DEF Down, Open, OutBy
<1>3. CASE Pull
  <2>1. cable.present /\ UNCHANGED <<now, outages>>
    BY <1>3 DEF Pull, collector
  <2>2. QED
    BY <1>0, <2>1 DEF Down, Open, OutBy
<1>4. CASE Plug
  <2>1. /\ Len(outages) \in Nat /\ DOMAIN outages = 1..Len(outages)
        /\ DOMAIN outages' = 1..Len(outages) + 1
        /\ \A i \in 1..Len(outages) : outages'[i] = outages[i]
        /\ outages'[Len(outages) + 1].from = cable.since
        /\ outages'[Len(outages) + 1].to = now
    BY <1>0, <1>4, Plugged
  <2>2. now' = now /\ ~cable.present
    BY <1>4 DEF Plug, collector
  <2>3. ASSUME NEW v \in Nat, OutBy(t, v) PROVE OutBy(t, v)'
    <3>1. PICK i \in 1..Len(outages) : outages[i].from <= t /\ t <= outages[i].to /\ outages[i].to <= v
      BY <2>1, <2>3 DEF OutBy
    <3>2. i \in 1..Len(outages) + 1 /\ outages'[i] = outages[i]
      BY <2>1, <3>1
    <3>3. QED
      BY <2>1, <3>1, <3>2 DEF OutBy
  <2>4. ASSUME Open(t), t <= now PROVE OutBy(t, now)'
    <3>1. Len(outages) + 1 \in DOMAIN outages'
      BY <2>1
    <3>2. cable.since <= t
      BY <2>4 DEF Open
    <3>3. QED
      BY <1>0, <2>1, <2>2, <2>4, <3>1, <3>2 DEF OutBy
  <2>5. QED
    BY <1>0, <2>2, <2>3, <2>4 DEF Down
<1>5. CASE Tick
  BY <1>0, <1>2, <1>5 DEF Tick
<1>6. QED
  BY <1>0, <1>2, <1>3, <1>4, <1>5, Environment
(* Every step keeps the clock.                                              *)
LEMMA ClockStep ==
  ASSUME IInv, [Next]_vars
  PROVE  Clock'
<1>0. TypeOK /\ Clock /\ now \in Nat /\ cable.since \in Nat
  BY DEF IInv, TypeOK
<1>1. \A i \in DOMAIN outages : outages[i].from \in Nat /\ outages[i].to \in Nat
  BY <1>0, OutageTypes
<1>2. pc' = "sleep" => now' <= wake'
  <2>1. CASE WaitForDevice \/ SeesNoChange \/ SeesDisconnect
    <3>1. now' = now /\ (wake' = now + Poll \/ pc' # "sleep")
      BY <2>1 DEF WaitForDevice, SeesNoChange, SeesDisconnect, SleepAfter, Looking, external, Raise,
                  RaiseWith
    <3>2. QED
      BY <1>0, <3>1, HotplugAssumption
  <2>2. CASE CycleEnds
    <3>1. now' = now /\ (wake' = now + Poll \/ pc' # "sleep")
      BY <2>2, CycleOutcome DEF Unwritten, Refused
    <3>2. QED
      BY <1>0, <3>1, HotplugAssumption
  <2>3. CASE Tick
    BY <1>0, <2>3 DEF Tick, TypeOK
  <2>4. CASE pc' = pc /\ now' = now /\ wake' = wake
    BY <1>0, <2>4 DEF Clock
  <2>5. CASE pc' # "sleep"
    BY <2>5
  <2>6. QED
    BY <2>1, <2>2, <2>3, <2>4, <2>5 DEF Next, Collector, vars, Start, Identify, RunSmoke, SmokeEnds,
       Retry, InitialSmoke, SeesReconnect, SeesTwo, WakesUp, LoopEnds, Conclude, SmokeHangs,
       Interrupt, external, Pull, Plug, collector, Raise, RaiseWith, WriteEvidence, BeginSmoke
<1>3. CASE UNCHANGED <<cable, outages>> /\ now' \in Nat /\ now <= now'
  BY <1>0, <1>1, <1>2, <1>3 DEF Clock
<1>4. CASE Pull
  <2>1. cable'.since = now /\ UNCHANGED <<now, outages>>
    BY <1>0, <1>4 DEF Pull, collector, TypeOK
  <2>2. QED
    BY <1>0, <1>2, <2>1 DEF Clock
<1>5. CASE Plug
  <2>1. cable'.since = now /\ UNCHANGED now
    BY <1>5 DEF Plug, collector
  <2>2. /\ Len(outages) \in Nat /\ DOMAIN outages = 1..Len(outages)
        /\ DOMAIN outages' = 1..Len(outages) + 1
        /\ \A i \in 1..Len(outages) : outages'[i] = outages[i]
        /\ outages'[Len(outages) + 1].to = now
    BY <1>0, <1>5, Plugged
  <2>3. ASSUME NEW i \in DOMAIN outages' PROVE outages'[i].to <= now
    <3>1. CASE i = Len(outages) + 1
      BY <1>0, <2>2, <3>1
    <3>2. CASE i # Len(outages) + 1
      <4>1. i \in DOMAIN outages /\ outages'[i] = outages[i]
        BY <2>2, <3>2
      <4>2. QED
        BY <1>0, <4>1 DEF Clock
    <3>3. QED
      BY <3>1, <3>2
  <2>4. QED
    BY <1>0, <1>2, <2>1, <2>3 DEF Clock
<1>6. CASE Tick
  BY <1>0, <1>3, <1>6 DEF Tick
<1>7. QED
  BY <1>0, <1>3, <1>4, <1>5, <1>6, Environment

(* How a step of the collector moves it while the cable is out: it keeps    *)
(* its place, goes on with the smoke, wakes up, finds the cable out still,  *)
(* or finds it back.                                                        *)
Stays   == UNCHANGED <<pc, wake, watch>> /\ (pc = "poll" => now' = now)
Smokes  == pc \in Smoking /\ pc' \in Smoking /\ UNCHANGED watch
Wakes   == pc = "sleep" /\ now >= wake /\ pc' = "poll" /\ UNCHANGED <<now, watch>>
Polls   == /\ pc = "poll" /\ pc' = "sleep" /\ wake' = now + Poll /\ UNCHANGED <<now, cable, outages>>
Leaves  == /\ Polls /\ watch.state = "present" /\ ~cable.present
           /\ watch' = [watch EXCEPT !.state = "absent", !.at = now]
Lasts   == Polls /\ UNCHANGED watch /\ (cable.present <=> watch.state = "present")
Returns == /\ pc = "poll" /\ pc' = "smoke" /\ watch.state = "absent" /\ cable.present
           /\ now - watch.at >= MinAbsent /\ watch' = [watch EXCEPT !.seen = now]
           /\ UNCHANGED <<now, cable, outages>>

(* Every step that goes on with a cycle is one of these.                    *)
LEMMA Moves ==
  ASSUME IInv, [Next]_vars
  PROVE  \/ pc' \notin Working \/ watch'.state = "initial"
         \/ Stays \/ Smokes \/ Wakes \/ Leaves \/ Lasts \/ Returns
         \/ InitialSmoke /\ watch.state = "initial" /\ watch'.state = "present"
         \/ CycleEnds /\ Counted /\ wake' = now + Poll
<1>0. TypeOK /\ Bookkeeping
  BY DEF IInv
<1>a. ASSUME Raise PROVE pc' \notin Working
  BY <1>a DEF Raise, RaiseWith, Working
<1>1. CASE Start
  BY <1>0, <1>1, <1>a DEF Start, Bookkeeping
<1>2. CASE WaitForDevice
  BY <1>0, <1>2, <1>a DEF WaitForDevice, Bookkeeping
<1>3. CASE Identify
  BY <1>0, <1>3, <1>a DEF Identify, Bookkeeping
<1>4. CASE RunSmoke \/ SmokeEnds \/ Retry
  BY <1>4 DEF RunSmoke, SmokeEnds, Retry, Smokes, Smoking
<1>5. CASE InitialSmoke
  <2>1. watch.state = "initial"
    BY <1>5 DEF InitialSmoke
  <2>2. watch'.state = "initial" \/ watch'.state = "present"
    BY <1>0, <1>5, <2>1 DEF InitialSmoke, Raise, TypeOK
  <2>3. QED
    BY <1>5, <2>1, <2>2
<1>6. CASE SeesNoChange
  BY <1>6 DEF SeesNoChange, Looking, SleepAfter, external, Lasts, Polls
<1>7. CASE SeesDisconnect
  BY <1>7 DEF SeesDisconnect, Looking, SleepAfter, external, Leaves, Polls
<1>8. CASE SeesReconnect
  <2>1. now \in Nat /\ watch.at \in Nat /\ MinAbsent \in Nat
    BY <1>0, HotplugAssumption DEF TypeOK
  <2>2. CASE Raise
    BY <1>a, <2>2
  <2>3. CASE ~(now - watch.at < MinAbsent)
    <3>1. now - watch.at >= MinAbsent
      BY <2>1, <2>3
    <3>2. QED
      BY <1>8, <2>3, <3>1 DEF SeesReconnect, Looking, BeginSmoke, external, Returns
  <2>4. QED
    BY <1>8, <2>2, <2>3 DEF SeesReconnect
<1>9. CASE SeesTwo
  BY <1>9, <1>a DEF SeesTwo
<1>10. CASE CycleEnds
  BY <1>10, CycleOutcome DEF Unwritten, Refused, Working
<1>11. CASE WakesUp
  BY <1>11 DEF WakesUp, external, Wakes
<1>12. CASE LoopEnds
  BY <1>12, <1>a DEF LoopEnds, Working
<1>13. CASE Conclude
  BY <1>0, <1>13 DEF Conclude, RaiseWith, Working
<1>14. CASE SmokeHangs \/ Pull \/ Plug \/ Tick \/ UNCHANGED vars
  BY <1>14 DEF SmokeHangs, Pull, Plug, Tick, vars, collector, external, Stays
<1>15. CASE Interrupt
  BY <1>15 DEF Interrupt, Working
<1>16. QED
  BY <1>1, <1>2, <1>3, <1>4, <1>5, <1>6, <1>7, <1>8, <1>9, <1>10, <1>11, <1>12, <1>13, <1>14, <1>15
     DEF Next, Collector
(* Every step keeps what the polls have shown.                              *)
LEMMA WatchingStep ==
  ASSUME IInv, [Next]_vars
  PROVE  Watching'
<1>0. /\ TypeOK /\ Bookkeeping /\ Clock /\ Watching
      /\ now \in Nat /\ now' \in Nat /\ now <= now' /\ wake \in Nat
      /\ watch.at \in Nat /\ watch.seen \in Nat /\ Poll \in Nat /\ MinAbsent \in Nat
  <2>1. now' \in Nat /\ now <= now'
    BY DownStays, 0 \in Int, 0 \in Nat
  <2>2. QED
    BY <2>1, HotplugAssumption DEF IInv, TypeOK
<1>1. ASSUME NEW t \in Int, Polled(t), watch'.at = watch.at PROVE Polled(t)'
  <2>1. watch.at <= t /\ t <= now /\ watch.at <= now /\ Down(watch.at) /\ Down(t)
    BY <1>0, <1>1 DEF Polled
  <2>2. PICK a \in Int : a = watch.at
    BY <1>0
  <2>3. Down(a)' /\ Down(t)'
    BY <2>1, <2>2, DownStays, 0 \in Nat
  <2>4. QED
    BY <1>0, <1>1, <2>1, <2>2, <2>3 DEF Polled, Down, Open, OutBy
<1>2. ASSUME NEW t \in Int, NEW u \in Nat, OutBy(t, u) PROVE OutBy(t, u)'
  BY <1>2, DownStays
<1>3. CASE pc' \notin Working \/ watch'.state # "absent"
  BY <1>3 DEF Watching, Working, Steps, Smoking
<1>4. ASSUME watch' = watch, watch.state = "absent", pc \in Smoking
      PROVE  /\ watch'.seen <= now' /\ watch'.seen - watch'.at >= MinAbsent
             /\ watch'.at <= watch'.seen - Poll
             /\ OutBy(watch.at, watch.seen)' /\ OutBy(watch.seen - Poll, watch.seen)'
  <2>1. /\ watch.seen <= now /\ watch.seen - watch.at >= MinAbsent
        /\ watch.at <= watch.seen - Poll
        /\ OutBy(watch.at, watch.seen) /\ OutBy(watch.seen - Poll, watch.seen)
    BY <1>0, <1>4 DEF Watching
  <2>2. PICK a \in Int, b \in Int, c \in Nat : a = watch.at /\ b = watch.seen - Poll /\ c = watch.seen
    BY <1>0
  <2>3. OutBy(a, c)' /\ OutBy(b, c)'
    BY <1>2, <2>1, <2>2
  <2>4. OutBy(watch.at, watch.seen)' /\ OutBy(watch.seen - Poll, watch.seen)'
    BY <1>4, <2>2, <2>3 DEF OutBy
  <2>5. QED
    BY <1>0, <1>4, <2>1, <2>4
<1>5. CASE Stays /\ watch.state = "absent"
  <2>1. CASE pc = "sleep"
    <3>1. PICK t \in Int : t = wake - Poll
      BY <1>0
    <3>2. Polled(t)'
      BY <1>0, <1>1, <1>5, <2>1, <3>1 DEF Watching, Stays
    <3>3. Polled(wake - Poll)'
      BY <1>5, <3>1, <3>2 DEF Stays
    <3>4. QED
      BY <1>5, <2>1, <3>3 DEF Watching, Stays, Smoking
  <2>2. CASE pc = "poll"
    <3>1. PICK t \in Int : t = now - Poll
      BY <1>0
    <3>2. Polled(t)'
      BY <1>0, <1>1, <1>5, <2>2, <3>1 DEF Watching, Stays
    <3>3. Polled(now - Poll)'
      BY <1>5, <2>2, <3>1, <3>2 DEF Stays
    <3>4. QED
      BY <1>5, <2>2, <3>3 DEF Watching, Stays, Smoking
  <2>3. CASE pc \in Smoking
    BY <1>4, <1>5, <2>3 DEF Watching, Stays, Smoking
  <2>4. CASE pc \notin {"sleep", "poll"} /\ pc \notin Smoking
    BY <1>5, <2>4 DEF Watching, Stays
  <2>5. QED
    BY <2>1, <2>2, <2>3, <2>4
<1>6. CASE Smokes /\ watch.state = "absent"
  BY <1>4, <1>6 DEF Watching, Smokes, Smoking
<1>7. CASE Wakes /\ watch.state = "absent"
  <2>1. now = wake /\ pc = "sleep" /\ pc' = "poll" /\ now' = now /\ watch' = watch
    BY <1>0, <1>7 DEF Wakes, Clock
  <2>2. PICK t \in Int : t = now - Poll
    BY <1>0
  <2>3. Polled(t)'
    BY <1>0, <1>1, <1>7, <2>1, <2>2 DEF Watching
  <2>4. Polled(now - Poll)'
    BY <2>1, <2>2, <2>3
  <2>5. QED
    BY <2>1, <2>4 DEF Watching, Smoking
<1>8. CASE Leaves
  <2>1. /\ pc' = "sleep" /\ wake' = now + Poll /\ now' = now /\ watch'.at = now
        /\ ~cable'.present /\ cable'.since <= now
    BY <1>0, <1>8 DEF Leaves, Polls, Clock, TypeOK
  <2>2. wake' - Poll = now
    BY <1>0, <2>1
  <2>3. Open(watch.at)' /\ Open(wake - Poll)'
    BY <2>1, <2>2 DEF Open
  <2>4. Polled(wake - Poll)'
    BY <1>0, <2>1, <2>2, <2>3 DEF Polled, Down
  <2>5. QED
    BY <2>1, <2>4 DEF Watching, Smoking
<1>9. CASE Lasts /\ watch.state = "absent"
  <2>1. /\ pc = "poll" /\ pc' = "sleep" /\ wake' = now + Poll /\ now' = now /\ watch' = watch
        /\ ~cable'.present /\ cable'.since <= now
    BY <1>0, <1>9 DEF Lasts, Polls, Clock
  <2>2. wake' - Poll = now
    BY <1>0, <2>1
  <2>3. PICK t \in Int : t = now - Poll
    BY <1>0
  <2>4. Polled(t)'
    BY <1>0, <1>1, <1>9, <2>1, <2>3 DEF Watching
  <2>5. Down(watch.at)' /\ watch'.at <= t /\ t <= now
    BY <1>0, <2>1, <2>3, <2>4 DEF Polled
  <2>6. Open(wake - Poll)'
    BY <2>1, <2>2 DEF Open
  <2>7. watch'.at <= now
    BY <1>0, <2>1, <2>5
  <2>8. Polled(wake - Poll)'
    BY <1>0, <2>1, <2>2, <2>5, <2>6, <2>7 DEF Polled, Down
  <2>9. QED
    BY <2>1, <2>8 DEF Watching, Smoking
<1>10. CASE Returns
  <2>1. /\ pc = "poll" /\ pc' = "smoke" /\ watch.state = "absent" /\ cable.present
        /\ now - watch.at >= MinAbsent /\ UNCHANGED <<now, outages>>
        /\ watch'.seen = now /\ watch'.at = watch.at
    BY <1>0, <1>10 DEF Returns, TypeOK
  <2>2. Polled(now - Poll)
    BY <1>0, <2>1 DEF Watching
  <2>3. /\ watch.at <= now - Poll
        /\ OutBy(watch.at, now) /\ OutBy(now - Poll, now)
    BY <2>1, <2>2 DEF Polled, Down, Open
  <2>4. OutBy(watch.at, watch.seen)' /\ OutBy(watch.seen - Poll, watch.seen)'
    BY <2>1, <2>3 DEF OutBy
  <2>5. QED
    BY <1>0, <2>1, <2>3, <2>4 DEF Watching, Smoking
<1>11. CASE CycleEnds /\ Counted
  <2>1. watch'.state = "present"
    BY <1>0, <1>11 DEF Counted, TypeOK
  <2>2. QED
    BY <1>3, <2>1
<1>12. watch'.state = "initial" => watch'.state # "absent"
  OBVIOUS
<1>13. watch'.state # "present" \/ watch'.state # "absent"
  OBVIOUS
<1>14. Stays \/ Smokes \/ Wakes \/ Lasts => watch' = watch
  BY DEF Stays, Smokes, Wakes, Lasts
<1>15. QED
  BY <1>3, <1>5, <1>6, <1>7, <1>8, <1>9, <1>10, <1>11, <1>12, <1>13, <1>14, Moves

(* Every step keeps the cycles apart.                                       *)
LEMMA ApartStep ==
  ASSUME IInv, [Next]_vars
  PROVE  Apart'
<1>0. /\ TypeOK /\ Bookkeeping /\ Clock /\ Watching /\ Apart
      /\ now \in Nat /\ wake \in Nat /\ Poll \in Nat \ {0} /\ evidence.completed \in Nat
      /\ watch.at \in Nat /\ watch.seen \in Nat
  BY HotplugAssumption DEF IInv, TypeOK, Document
<1> DEFINE last == evidence.cycles[evidence.completed].back
<1>1. evidence.completed > 0 => last \in Nat
  <2>1. PICK s \in Seq(Cycle) : s = evidence.cycles
    BY <1>0 DEF TypeOK, Document
  <2>2. evidence.completed > 0 => s[evidence.completed] \in Cycle
    BY <1>0, <2>1, ElementOfSeq DEF Bookkeeping
  <2>3. QED
    BY <2>1, <2>2 DEF Cycle
<1>2. CASE pc' \notin Working
  BY <1>2 DEF Apart
<1>3. CASE CycleEnds /\ Counted /\ wake' = now + Poll
  <2>1. /\ pc = "smoked" /\ watch.state = "absent" /\ Len(evidence.cycles) = evidence.completed
        /\ watch.cycle = evidence.completed + 1 /\ evidence'.cycles = Recorded.cycles
    BY <1>3, CycleOutcome
  <2>2. /\ evidence'.completed = evidence.completed + 1 /\ pc' = "sleep" /\ watch'.state = "present"
    BY <1>0, <1>3, <2>1 DEF Counted, TypeOK
  <2>3. evidence'.cycles[evidence'.completed].back = watch.seen
    BY <1>0, <2>1, <2>2, CycleRecord
  <2>4. watch.seen <= now
    BY <1>0, <2>1 DEF Watching, Smoking
  <2>5. watch.seen < wake'
    BY <1>0, <1>3, <2>4
  <2>6. QED
    BY <2>2, <2>3, <2>5 DEF Apart
<1>4. ASSUME ~CycleEnds, ~LoopEnds, ~Conclude, pc' \in Working
      PROVE  evidence'.completed = evidence.completed /\ evidence'.cycles = evidence.cycles
  <2>1. ASSUME Raise PROVE pc' \notin Working
    BY <2>1 DEF Raise, RaiseWith, Working
  <2>2. UNCHANGED evidence
    BY <1>4, <2>1 DEF Next, Collector, vars, Start, WaitForDevice, Identify, RunSmoke, SmokeEnds,
       Retry, InitialSmoke, SeesNoChange, SeesDisconnect, SeesReconnect, SeesTwo, WakesUp, SmokeHangs,
       Interrupt, Pull, Plug, Tick, collector, WriteEvidence, RaiseWith, BeginSmoke, SleepAfter,
       Working
  <2>3. QED
    BY <2>2
<1>5. ~(LoopEnds /\ pc' \in Working) /\ ~(Conclude /\ pc' \in Working)
  BY DEF LoopEnds, Conclude, Raise, RaiseWith, Working
<1>6. CASE CycleEnds
  <2>1. (Counted /\ wake' = now + Poll) \/ pc' \notin Working
    BY <1>6, CycleOutcome DEF Unwritten, Refused, Working
  <2>2. QED
    BY <1>2, <1>3, <1>6, <2>1
<1>7. CASE pc' \in Working /\ ~CycleEnds
  <2>1. evidence'.completed = evidence.completed /\ evidence'.cycles = evidence.cycles
    BY <1>4, <1>5, <1>7
  <2>2. CASE evidence.completed = 0
    BY <2>1, <2>2 DEF Apart
  <2>3. CASE evidence.completed > 0
    <3>1. /\ watch.state # "initial" /\ last \in Nat
          /\ evidence'.cycles[evidence'.completed].back = last
      BY <1>0, <1>1, <2>1, <2>3 DEF Bookkeeping
    <3>2. pc \in Working =>
            /\ watch.state = "absent" => last < watch.at
            /\ watch.state = "present" => pc \in {"sleep", "poll"}
            /\ watch.state = "present" /\ pc = "sleep" => last < wake
            /\ watch.state = "present" /\ pc = "poll" => last < now
      BY <1>0, <2>3 DEF Apart
    <3>10. SUFFICES /\ watch'.state = "absent" => last < watch'.at
                    /\ watch'.state = "present" => pc' \in {"sleep", "poll"}
                    /\ watch'.state = "present" /\ pc' = "sleep" => last < wake'
                    /\ watch'.state = "present" /\ pc' = "poll" => last < now'
      BY <3>1 DEF Apart
    <3> HIDE DEF last
    <3>3. CASE Stays
      BY <1>7, <3>2, <3>3 DEF Stays
    <3>4. CASE Smokes
      <4>1. pc \in Working /\ watch.state # "present"
        BY <3>2, <3>4 DEF Smokes, Smoking, Working, Steps
      <4>2. QED
        BY <3>2, <3>4, <4>1 DEF Smokes
    <3>5. CASE Wakes
      <4>1. pc \in Working /\ now = wake
        BY <1>0, <3>5 DEF Wakes, Clock, Working, Steps
      <4>2. QED
        BY <3>2, <3>5, <4>1 DEF Wakes
    <3>6. CASE Leaves
      <4>1. /\ pc \in Working /\ pc = "poll" /\ watch.state = "present"
            /\ watch'.state = "absent" /\ watch'.at = now
        BY <1>0, <3>6 DEF Leaves, Polls, Working, Steps, TypeOK
      <4>2. QED
        BY <3>2, <4>1
    <3>7. CASE Lasts
      <4>1. /\ pc \in Working /\ pc = "poll" /\ pc' = "sleep" /\ watch' = watch /\ wake' = now + Poll
        BY <3>7 DEF Lasts, Polls, Working, Steps
      <4>2. last < now => last < wake'
        BY <1>0, <3>1, <4>1
      <4>3. QED
        BY <3>2, <4>1, <4>2
    <3>8. CASE Returns
      <4>1. /\ pc \in Working /\ watch.state = "absent"
            /\ watch'.state = "absent" /\ watch'.at = watch.at
        BY <1>0, <3>8 DEF Returns, Working, Steps, TypeOK
      <4>2. QED
        BY <3>2, <4>1
    <3>9. CASE watch'.state = "initial"
      BY <3>9
    <3>11. QED
      BY <1>7, <3>1, <3>3, <3>4, <3>5, <3>6, <3>7, <3>8, <3>9, Moves
  <2>4. QED
    BY <1>0, <2>2, <2>3
<1>8. QED
  BY <1>2, <1>6, <1>7
-----------------------------------------------------------------------------
(* What CyclesAreOutages says of one cycle.                                 *)
Touching(c) == {i \in DOMAIN outages : outages[i].from <= c.back /\ outages[i].to >= c.left}

OneOutage(c) ==
  \E i \in Touching(c) :
    /\ Seen(c, outages[i])
    /\ Touching(c) = {i} => outages[i].to - outages[i].from >= MinAbsent - Poll

CycleTrue(n) ==
  /\ n > 1 => evidence.cycles[n - 1].back < evidence.cycles[n].left
  /\ OneOutage(evidence.cycles[n])

(* It says that of every counted one.                                       *)
LEMMA OutagesByCycle ==
  CyclesAreOutages <=> \A n \in 1..evidence.completed : CycleTrue(n)
BY DEF CyclesAreOutages, CycleTrue, OneOutage, Touching

(* The polls that saw the cable out at the ends of the cycle show the rest. *)
LEMMA OutageShown ==
  ASSUME TypeOK, NEW c, c.left \in Nat, c.back \in Nat,
         c.back - c.left >= MinAbsent, c.left <= c.back - Poll,
         OutBy(c.left, c.back), OutBy(c.back - Poll, c.back)
  PROVE  OneOutage(c)
<1>0. Poll \in Nat /\ MinAbsent \in Nat
  BY HotplugAssumption
<1>1. PICK i \in DOMAIN outages :
        outages[i].from <= c.left /\ c.left <= outages[i].to /\ outages[i].to <= c.back
  BY DEF OutBy
<1>2. PICK j \in DOMAIN outages :
        outages[j].from <= c.back - Poll /\ c.back - Poll <= outages[j].to
  BY DEF OutBy
<1>3. /\ outages[i].from \in Nat /\ outages[i].to \in Nat
      /\ outages[j].from \in Nat /\ outages[j].to \in Nat
  BY OutageTypes
<1>4. outages[i].from <= c.back /\ outages[i].to >= c.left
  BY <1>0, <1>1, <1>3
<1>5. outages[j].from <= c.back /\ outages[j].to >= c.left
  BY <1>0, <1>2, <1>3
<1>6. i \in Touching(c) /\ j \in Touching(c)
  BY <1>4, <1>5 DEF Touching
<1>7. ASSUME j = i PROVE outages[i].to - outages[i].from >= MinAbsent - Poll
  BY <1>0, <1>1, <1>2, <1>3, <1>7
<1>8. Touching(c) = {i} => j = i
  BY <1>6
<1>9. QED
  BY <1>1, <1>6, <1>7, <1>8 DEF OneOutage, Seen

(* A later outage takes nothing away.                                       *)
LEMMA OutageStays ==
  ASSUME TypeOK, Plug, NEW c, OneOutage(c)
  PROVE  OneOutage(c)'
<1>1. PICK i \in Touching(c) :
        /\ Seen(c, outages[i])
        /\ Touching(c) = {i} => outages[i].to - outages[i].from >= MinAbsent - Poll
  BY DEF OneOutage
<1>2. /\ Len(outages) \in Nat /\ DOMAIN outages = 1..Len(outages)
      /\ DOMAIN outages' = 1..Len(outages) + 1
      /\ \A k \in 1..Len(outages) : outages'[k] = outages[k]
  BY Plugged
<1>3. Touching(c) \subseteq Touching(c)'
  BY <1>2 DEF Touching
<1>4. outages'[i] = outages[i]
  BY <1>2 DEF Touching
<1>5. i \in Touching(c)' /\ Seen(c, outages[i])'
  BY <1>1, <1>3, <1>4 DEF Seen
<1>6. Touching(c)' = {i} => Touching(c) = {i}
  BY <1>3
<1>7. QED
  BY <1>1, <1>4, <1>5, <1>6 DEF OneOutage

(* Every step keeps CyclesAreOutages.                                       *)
LEMMA OutagesStep ==
  ASSUME IInv, [Next]_vars
  PROVE  CyclesAreOutages'
<1>0. /\ TypeOK /\ Bookkeeping /\ evidence.completed \in Nat
      /\ \A n \in 1..evidence.completed : CycleTrue(n)
  BY OutagesByCycle DEF IInv, TypeOK, Document
<1> SUFFICES \A n \in 1..evidence'.completed : CycleTrue(n)'
  <2>1. CyclesAreOutages' <=> (\A n \in 1..evidence.completed : CycleTrue(n))'
    BY OutagesByCycle, PTL
  <2>2. QED
    BY <2>1
<1>1. CASE CycleEnds
  <2>1. /\ pc = "smoked" /\ watch.state = "absent" /\ Len(evidence.cycles) = evidence.completed
        /\ watch.cycle = evidence.completed + 1 /\ UNCHANGED outages
        /\ evidence'.cycles = Recorded.cycles
        /\ Counted \/ Unwritten \/ Refused
    BY <1>1, CycleOutcome
  <2>2. \A n \in 1..evidence.completed : evidence'.cycles[n] = evidence.cycles[n]
    BY <1>0, <2>1, CycleRecord
  <2>3. ASSUME NEW n \in 1..evidence.completed PROVE CycleTrue(n)'
    <3>1. CycleTrue(n) /\ evidence'.cycles[n] = evidence.cycles[n]
          /\ (n > 1 => evidence'.cycles[n - 1] = evidence.cycles[n - 1])
      BY <1>0, <2>2
    <3>2. QED
      BY <2>1, <3>1 DEF CycleTrue, OneOutage, Touching
  <2>4. PICK n \in Nat : n = evidence.completed + 1
    BY <1>0
  <2>5. PICK c : c = evidence'.cycles[n] /\ c.left = watch.at /\ c.back = watch.seen
    BY <1>0, <2>1, <2>4, CycleRecord
  <2>6. OneOutage(c)
    <3>1. /\ watch.seen - watch.at >= MinAbsent /\ watch.at <= watch.seen - Poll
          /\ OutBy(watch.at, watch.seen) /\ OutBy(watch.seen - Poll, watch.seen)
          /\ watch.at \in Nat /\ watch.seen \in Nat
      BY <1>0, <2>1 DEF IInv, Watching, Smoking, TypeOK
    <3>2. QED
      BY <1>0, <2>5, <3>1, OutageShown
  <2>7. CycleTrue(n)'
    <3>1. OneOutage(c)'
      BY <2>1, <2>6 DEF OneOutage, Touching
    <3>2. ASSUME n > 1 PROVE evidence'.cycles[n - 1].back < evidence'.cycles[n].left
      <4>1. evidence.completed > 0 /\ n - 1 = evidence.completed
        BY <1>0, <2>4, <3>2
      <4>2. evidence.cycles[evidence.completed].back < watch.at
        BY <2>1, <4>1 DEF IInv, Apart, Working, Steps
      <4>3. evidence'.cycles[n - 1] = evidence.cycles[evidence.completed]
        BY <1>0, <2>2, <4>1
      <4>4. QED
        BY <2>5, <4>2, <4>3
    <3>3. QED
      BY <2>5, <3>1, <3>2 DEF CycleTrue
  <2>8. evidence'.completed = evidence.completed \/ evidence'.completed = n
    BY <2>1, <2>4 DEF Counted, Unwritten, Refused
  <2>9. QED
    BY <1>0, <2>3, <2>4, <2>7, <2>8
<1>2. CASE ~CycleEnds
  <2>1. evidence'.completed = evidence.completed /\ evidence'.cycles = evidence.cycles
    <3>1. evidence' = evidence \/ RaiseWith(evidence) \/ evidence' = [evidence EXCEPT !.status = "PASS"]
      BY <1>2 DEF Next, Collector, vars, Start, WaitForDevice, Identify, RunSmoke, SmokeEnds,
         Retry, InitialSmoke, SeesNoChange, SeesDisconnect, SeesReconnect, SeesTwo, WakesUp,
         SmokeHangs, LoopEnds, Conclude, Interrupt, Pull, Plug, Tick, collector, WriteEvidence,
         Raise, BeginSmoke, SleepAfter
    <3>2. QED
      BY <1>0, <3>1 DEF RaiseWith, TypeOK, Document
  <2>2. CASE UNCHANGED outages
    BY <1>0, <2>1, <2>2 DEF CycleTrue, OneOutage, Touching
  <2>3. CASE Plug
    <3>1. ASSUME NEW n \in 1..evidence.completed PROVE CycleTrue(n)'
      <4>1. CycleTrue(n)
        BY <1>0
      <4>2. PICK c : c = evidence.cycles[n]
        OBVIOUS
      <4>3. OneOutage(c)'
        BY <1>0, <2>3, <4>1, <4>2, OutageStays DEF CycleTrue
      <4>4. evidence'.cycles[n] = c
        BY <2>1, <4>2
      <4>5. QED
        BY <2>1, <4>1, <4>3, <4>4 DEF CycleTrue
    <3>2. QED
      BY <2>1, <3>1
  <2>4. QED
    BY <2>2, <2>3, Environment DEF Pull, Tick
<1>3. QED
  BY <1>1, <1>2
-----------------------------------------------------------------------------
(* The inductive invariant holds.                                           *)
THEOREM Invariant == Spec => []IInv
<1>1. Init => IInv
  <2>1. SUFFICES ASSUME Init PROVE Clock /\ Watching /\ Apart /\ CyclesAreOutages
    BY TypeInit, BookInit DEF IInv
  <2>2. now = 0 /\ pc = "start" /\ watch.state = "initial" /\ evidence.completed = 0
    BY <2>1 DEF Init
  <2>3. DOMAIN outages = {}
    <3>1. outages = <<>>
      BY <2>1, Zenon DEF Init
    <3>2. QED
      BY <3>1
  <2>4. cable.since = 0
    <3>1. PICK first : first = CHOOSE i \in Identities : TRUE
      OBVIOUS
    <3>2. cable \in [present: BOOLEAN, identity: {first}, since: {0}]
      BY <2>1, <3>1, Zenon DEF Init
    <3>3. QED
      BY <3>2
  <2>5. QED
    BY <2>2, <2>3, <2>4 DEF Clock, Watching, Apart, CyclesAreOutages
<1>2. IInv /\ [Next]_vars => IInv'
  BY TypeStep, BookStep, ClockStep, WatchingStep, ApartStep, OutagesStep DEF IInv
<1>3. QED
  BY <1>1, <1>2, PTL DEF Spec

(* The variables of the collector, its cable and its evidence keep their    *)
(* types, and the cycle counter is one ahead of the counted cycles unless   *)
(* the disk failed.                                                         *)
THEOREM TypeCorrect == Spec => []TypeOK
<1>1. IInv => TypeOK
  BY DEF IInv
<1>2. QED
  BY <1>1, Invariant, PTL

(* Every cycle the collector counts is an outage of its own that began      *)
(* before it was noted and was over when the reconnection was; if the cable *)
(* moved once, it was out for the minimum less one polling interval.        *)
THEOREM OutagesBehindCycles == Spec => []CyclesAreOutages
<1>1. IInv => CyclesAreOutages
  BY DEF IInv
<1>2. QED
  BY <1>1, Invariant, PTL

(* A PASS in the file stands on all required cycles, each with the identity *)
(* of the first connection and a smoke that succeeded.                      *)
THEOREM PassRecovered == Spec => []PassMeansRecovered
<1>1. IInv => PassMeansRecovered
  <2>1. SUFFICES ASSUME IInv, Passed PROVE PassMeansRecovered
    BY DEF PassMeansRecovered
  <2>2. file = evidence /\ evidence.status = "PASS"
    BY <2>1 DEF IInv, Bookkeeping, Passed
  <2>3. /\ evidence.completed = Cycles /\ Len(evidence.cycles) = evidence.completed
        /\ \A n \in 1..evidence.completed : Good(evidence.cycles[n])
    BY <2>1, <2>2 DEF IInv, Bookkeeping
  <2>4. QED
    BY <2>2, <2>3 DEF PassMeansRecovered, Good
<1>2. QED
  BY <1>1, Invariant, PTL
=============================================================================
