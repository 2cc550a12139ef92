------------------------------- MODULE UsbHil -------------------------------
(***************************************************************************)
(* The USB hardware-in-the-loop runner, scripts/phase3/run_usb_hil.py with *)
(* the transfers of scripts/phase0/usb_bulk_loopback.py: its three         *)
(* programs (matrix, loopback, fs-fallback), the libusb session they share *)
(* and the evidence file they leave.  One operator starts one run.  The    *)
(* device, a single-buffer echo firmware, the host's disk and the operator *)
(* are external; what they do wrong is recorded in `faults'.  Each libusb  *)
(* call is one step, and the device may change before the next.            *)
(***************************************************************************)
EXTENDS Integers, Sequences, FiniteSets

CONSTANTS
  Window,     \* DEVICE_OUT_WINDOW, the device's buffer
  HsPacket,   \* the 512 bytes that terminate_hs_out_transfer assumes
  FsPacket,   \* the 64 bytes of a Full-Speed packet
  Cases,      \* build_matrix_cases: a sequence of [kind, arg]
  Runs,       \* the invocations: [program, speed, forced, chunk, total, seconds]
  FaultKinds, \* what may go wrong
  MaxFaults   \* bound: how many kinds go wrong in one run

ASSUME HilAssumption ==
  /\ Window \in Nat \ {0} /\ HsPacket \in 1..Window /\ FsPacket \in 1..HsPacket
  /\ Cases \in Seq([kind: {"fragment", "backpressure", "reset_idle", "reset_pending", "halt"},
                    arg: Nat])
  /\ \A i \in DOMAIN Cases : Cases[i].kind = "halt" => Cases[i].arg \in {1, 129}
  /\ Runs \subseteq [program: {"matrix", "loopback", "fs"}, speed: {"hs", "fs"},
                     forced: BOOLEAN, chunk: Nat, total: Nat, seconds: Nat]
  /\ FaultKinds \subseteq {"metadata", "timeout", "corrupt", "descriptors", "keeps", "deaf", "stuck",
                           "slow", "unplug", "disk", "stdout", "interrupt"}
  /\ MaxFaults \in Nat

VARIABLES
  args,     \* the command line, an element of Runs
  pc,       \* what the runner does next
  ops,      \* the libusb calls left in the case or echo under way
  handle,   \* UsbSession.handle: the connection it was opened on, 0 when closed
  sent,     \* payloads drawn from rng; the last one is the payload to compare
  progress, \* cases or echoes done, bytes verified, seconds elapsed
  evidence, \* the dictionary in memory
  file,     \* the document at --output
  device,   \* external
  faults    \* what went wrong so far

vars == <<args, pc, ops, handle, sent, progress, evidence, file, device, faults>>
-----------------------------------------------------------------------------
EP_OUT == 1
EP_IN  == 129
Endpoints == {EP_OUT, EP_IN}

CallName == {"open", "descriptors", "out", "zlp", "in", "reset", "clear", "status_clear",
             "status_set", "set_halt", "stall"}
Call == [op: CallName, arg: Nat]
Op(name, arg) == [op |-> name, arg |-> arg]

(* Mutant: no transfer is terminated.                                       *)
NeverZlp(size) == FALSE

(* UsbSession.write: a transfer that fills neither the window nor its last  *)
(* High-Speed packet is ended by a zero-length packet.                      *)
NeedsZlp(size) == size < Window /\ size % HsPacket = 0

Write(size) == <<Op("out", size)>> \o IF NeedsZlp(size) THEN <<Op("zlp", size)>> ELSE <<>>
Echo(size) == Write(size) \o <<Op("in", size)>>
ResetAndReopen == <<Op("reset", 0), Op("open", 0), Op("clear", EP_OUT), Op("clear", EP_IN)>>

(* The calls of one matrix case.  A read pause is time in which the device  *)
(* may change, as there is between any two calls.                           *)
CaseOps(case) ==
  CASE case.kind = "fragment"      -> Echo(case.arg) \o Echo(case.arg) \o Echo(case.arg)
                                        \o Echo(case.arg)
    [] case.kind = "backpressure"  -> Echo(Window) \o Echo(HsPacket + 1)
    [] case.kind = "reset_idle"    -> ResetAndReopen \o Echo(Window)
    [] case.kind = "reset_pending" -> Write(case.arg) \o ResetAndReopen \o Echo(Window)
    [] case.kind = "halt"          ->
         <<Op("status_clear", case.arg), Op("set_halt", case.arg), Op("status_set", case.arg),
           Op("stall", case.arg), Op("clear", case.arg), Op("status_clear", case.arg)>>
         \o Echo(Window)

Smaller(a, b) == IF a < b THEN a ELSE b

EchoSize ==
  CASE args.program = "matrix"   -> 0
    [] args.program = "loopback" -> args.chunk
    [] args.program = "fs"       -> Smaller(Window, args.total - progress.bytes)

(* Is there another case or echo to do?  minimums_met for the loopback.     *)
More ==
  CASE args.program = "matrix"   -> progress.units < Len(Cases)
    [] args.program = "loopback" -> progress.bytes < args.total \/ progress.seconds < args.seconds
    [] args.program = "fs"       -> progress.bytes < args.total

UnitOps == IF args.program = "matrix" THEN CaseOps(Cases[progress.units + 1]) ELSE Echo(EchoSize)

Verdict == {"PENDING", "NOT_QUALIFIED", "GRANTED"}
Status  == {"RUNNING", "PASS", "FAIL"}

Document ==
  [run: {0, 1}, status: Status, verdict: Verdict, units: Nat, bytes: Nat, seconds: Nat]

(* A transfer as the device holds it: its payloads and its length.          *)
Transfers == [ids: Seq(Nat), size: Nat]

TypeOK ==
  /\ args \in Runs
  /\ pc \in {"start", "create", "work", "unit_done", "record", "unit", "conclude", "exited",
             "crashed"}
  /\ ops \in Seq(Call)
  /\ handle \in Nat /\ sent \in Nat
  /\ progress \in [units: Nat, bytes: Nat, seconds: Nat]
  /\ evidence \in Document /\ file \in Document
  /\ evidence.status = "PASS" <=> evidence.verdict = "GRANTED"
  /\ device.out \in Transfers /\ device.echo \in Seq(Transfers)
  /\ device.halted \subseteq Endpoints
  /\ faults \subseteq FaultKinds

NoTransfer == [ids |-> <<>>, size |-> 0]

(* The file may hold the verdict of an earlier run.                         *)
Init ==
  /\ args \in Runs
  /\ pc = "start" /\ ops = <<>> /\ handle = 0 /\ sent = 0
  /\ progress = [units |-> 0, bytes |-> 0, seconds |-> 0]
  /\ evidence = [run |-> 1, status |-> "RUNNING", verdict |-> "PENDING",
                 units |-> 0, bytes |-> 0, seconds |-> 0]
  /\ file \in [run: {0}, status: {"PASS", "FAIL"}, verdict: {"NOT_QUALIFIED"},
               units: {0}, bytes: {0}, seconds: {0}]
  /\ device = [present |-> TRUE, plug |-> 1, out |-> NoTransfer, echo |-> <<>>, halted |-> {}]
  /\ faults = {}
-----------------------------------------------------------------------------
Fault(kind) ==
  /\ kind \in FaultKinds
  /\ faults' = faults \cup {kind}
  /\ Cardinality(faults') <= MaxFaults

NoFault == UNCHANGED faults

(* Mutant: the handler leaves the verdict as it was.                        *)
RaiseKeepsVerdict(document) ==
  /\ evidence' = [document EXCEPT !.status = "FAIL"]
  /\ pc' = "conclude" /\ ops' = <<>> /\ handle' = 0

(* Mutant: the handler does not write the evidence.                         *)
RaiseAndExit(document) ==
  /\ evidence' = [document EXCEPT !.status = "FAIL", !.verdict = "NOT_QUALIFIED"]
  /\ pc' = "exited" /\ ops' = <<>> /\ handle' = 0

(* An exception reaches the handler of run_matrix, run_loopback or          *)
(* run_fs_fallback; leaving the with statement closes the session.          *)
RaiseWith(document) ==
  /\ evidence' = [document EXCEPT !.status = "FAIL", !.verdict = "NOT_QUALIFIED"]
  /\ pc' = "conclude" /\ ops' = <<>> /\ handle' = 0

Raise == RaiseWith(evidence)

(* write_evidence: a temporary file replaces the old one, or nothing        *)
(* happens to it and OSError is raised.                                     *)
WriteEvidence(document, next) ==
  \/ /\ file' = document /\ evidence' = document
     /\ pc' = next
     /\ NoFault /\ UNCHANGED <<ops, handle>>
  \/ /\ Fault("disk") /\ RaiseWith(document) /\ UNCHANGED file

(* The build and the speed that run_fs_fallback insists on, and the chunk   *)
(* that run_loopback accepts.                                               *)
Eligible ==
  /\ args.program = "loopback" => args.chunk \in 1..Window
  /\ args.program = "fs" => args.forced /\ args.speed = "fs"

(* run_metadata, which also fails unless exactly one device is there.       *)
Start ==
  /\ pc = "start"
  /\ \/ /\ Eligible /\ device.present
        /\ pc' = "create" /\ NoFault /\ UNCHANGED <<ops, handle, evidence>>
     \/ ~(Eligible /\ device.present) /\ NoFault /\ Raise
     \/ Fault("metadata") /\ Raise
  /\ UNCHANGED <<args, sent, progress, file, device>>

Create ==
  /\ pc = "create"
  /\ WriteEvidence(evidence, "record")
  /\ UNCHANGED <<args, sent, progress, device>>

(* The with statement: __enter__ opens the device, the forced-FS program    *)
(* then reads the descriptors.                                              *)
Enter ==
  /\ pc = "record" /\ handle = 0
  /\ pc' = "work"
  /\ ops' = <<Op("open", 0)>> \o IF args.program = "fs" THEN <<Op("descriptors", 0)>> ELSE <<>>
  /\ UNCHANGED <<args, handle, sent, progress, evidence, file, device, faults>>
-----------------------------------------------------------------------------
Doing(name) == pc = "work" /\ Head(ops).op = name

Advance == ops' = Tail(ops) /\ pc' = IF Len(ops) = 1 THEN "unit_done" ELSE "work"

Connected == device.present /\ handle = device.plug

PacketSize == IF args.speed = "hs" THEN HsPacket ELSE FsPacket

(* The device takes data while it has no echo to send.  One that keeps an   *)
(* echo over a reset also takes data beside it.                             *)
Accepts ==
  /\ Connected /\ EP_OUT \notin device.halted
  /\ device.echo = <<>> \/ "keeps" \in faults

(* A transfer ends in the device with its window or with a short packet.    *)
Received(transfer, size) ==
  IF transfer.size >= Window \/ size % PacketSize # 0
  THEN [device EXCEPT !.out = NoTransfer, !.echo = Append(@, transfer)]
  ELSE [device EXCEPT !.out = transfer]

(* A call that times out although it might have worked; the device may have *)
(* got the data all the same.                                               *)
TimesOut == Fault("timeout") /\ Raise

session == <<args, progress, file>>

(* transfer on EP_OUT                                                       *)
TransferOut ==
  /\ Doing("out")
  /\ LET size     == Head(ops).arg
         transfer == [ids |-> Append(device.out.ids, sent + 1), size |-> device.out.size + size]
     IN  \/ /\ Accepts
            /\ device' = Received(transfer, size)
            /\ Advance /\ NoFault /\ UNCHANGED <<handle, evidence>>
         \/ ~Accepts /\ Raise /\ NoFault /\ UNCHANGED device
         \/ Accepts /\ TimesOut /\ device' \in {device, Received(transfer, size)}
  /\ sent' = sent + 1
  /\ UNCHANGED session

(* terminate_hs_out_transfer                                                *)
TerminateOut ==
  /\ Doing("zlp")
  /\ \/ /\ Accepts
        /\ device' = IF device.out.size > 0
                     THEN [device EXCEPT !.out = NoTransfer, !.echo = Append(@, device.out)]
                     ELSE device
        /\ Advance /\ NoFault /\ UNCHANGED <<handle, evidence>>
     \/ ~Accepts /\ Raise /\ NoFault /\ UNCHANGED device
     \/ Accepts /\ TimesOut /\ UNCHANGED device
  /\ UNCHANGED <<sent, session>>

(* Mutant: only the length is compared.                                     *)
MatchesLength(transfer, size) == transfer.size = size

(* The checks of transfer on the length and of echo on the content.         *)
Matches(transfer, size) == transfer.size = size /\ transfer.ids = <<sent>>

(* transfer on EP_IN and the comparison; 0 stands for corrupted content.    *)
TransferIn ==
  /\ Doing("in")
  /\ LET size  == Head(ops).arg
         sends == Connected /\ EP_IN \notin device.halted /\ device.echo # <<>>
     IN  \/ /\ sends
            /\ device' = [device EXCEPT !.echo = Tail(@)]
            /\ \E got \in {Head(device.echo), [Head(device.echo) EXCEPT !.ids = <<0>>]} :
                 /\ IF got = Head(device.echo) THEN NoFault ELSE Fault("corrupt")
                 /\ IF Matches(got, size)
                    THEN Advance /\ UNCHANGED <<handle, evidence>>
                    ELSE Raise
         \/ ~sends /\ Raise /\ NoFault /\ UNCHANGED device
         \/ sends /\ TimesOut /\ UNCHANGED device
  /\ UNCHANGED <<sent, session>>

(* libusb_reset_device in reset_and_reopen, which then closes the handle.   *)
(* The device enumerates again; it should have dropped what it held.        *)
ResetDevice ==
  /\ Doing("reset")
  /\ \/ /\ Connected
        /\ \/ NoFault /\ device' = [device EXCEPT !.present = FALSE, !.out = NoTransfer,
                                                  !.echo = <<>>, !.halted = {}]
           \/ /\ device.echo # <<>> /\ Fault("keeps")
              /\ device' = [device EXCEPT !.present = FALSE, !.out = NoTransfer, !.halted = {}]
        /\ handle' = 0 /\ Advance /\ UNCHANGED evidence
     \/ ~Connected /\ Raise /\ NoFault /\ UNCHANGED device
     \/ Connected /\ TimesOut /\ UNCHANGED device
  /\ UNCHANGED <<sent, session>>

(* _open_with_retry: until the device is there or the time is up.           *)
Open ==
  /\ Doing("open")
  /\ \/ /\ device.present
        /\ handle' = device.plug /\ Advance /\ NoFault /\ UNCHANGED evidence
     \/ /\ ~device.present
        /\ IF "unplug" \in faults THEN NoFault ELSE Fault("slow")
        /\ Raise
  /\ UNCHANGED <<sent, device, session>>

(* endpoint_halted, set_endpoint_halt, expect_endpoint_stall,               *)
(* clear_endpoint_halt and the descriptors: control calls whose effect on   *)
(* the device is `effect' and whose result is as expected when `expected'.  *)
Control(name, expected, effect) ==
  /\ Doing(name)
  /\ \/ Connected /\ expected /\ device' = effect /\ Advance /\ UNCHANGED <<handle, evidence>>
     \/ ~(Connected /\ expected) /\ Raise /\ UNCHANGED device
  /\ UNCHANGED <<sent, session>>

Endpoint == Head(ops).arg
Halted   == Endpoint \in device.halted

EndpointHalted ==
  /\ NoFault
  /\ \/ Control("status_clear", ~Halted, device)
     \/ Control("status_set", Halted, device)
ExpectStall == NoFault /\ Control("stall", Halted, device)
SetEndpointHalt ==
  \/ NoFault /\ Control("set_halt", TRUE, [device EXCEPT !.halted = @ \cup {Endpoint}])
  \/ Doing("set_halt") /\ Fault("deaf") /\ Control("set_halt", TRUE, device)
ClearHalt ==
  \/ NoFault /\ Control("clear", TRUE, [device EXCEPT !.halted = @ \ {Endpoint}])
  \/ Doing("clear") /\ Halted /\ Fault("stuck") /\ Control("clear", TRUE, device)
Descriptors ==
  \/ NoFault /\ Control("descriptors", args.speed = "fs", device)
  \/ Doing("descriptors") /\ Fault("descriptors") /\ Control("descriptors", FALSE, device)
-----------------------------------------------------------------------------
(* The session is open, or a case or an echo is done.  The loopback writes  *)
(* its evidence when a report is due, the others after every one.           *)
Opened ==
  /\ pc = "unit_done" /\ sent = 0
  /\ pc' = IF args.program = "fs" THEN "record" ELSE "unit"
  /\ UNCHANGED <<args, ops, handle, sent, progress, evidence, file, device, faults>>

UnitDone ==
  /\ pc = "unit_done" /\ sent > 0
  /\ \E time \in {1, 2} :
       progress' = [units   |-> progress.units + 1,
                    bytes   |-> progress.bytes + EchoSize,
                    seconds |-> IF args.program = "loopback"
                                THEN Smaller(progress.seconds + time, args.seconds) ELSE 0]
  /\ pc' \in IF args.program = "loopback" THEN {"record", "unit"} ELSE {"record"}
  /\ UNCHANGED <<args, ops, handle, sent, evidence, file, device, faults>>

Reported == [evidence EXCEPT !.units = progress.units, !.bytes = progress.bytes,
                             !.seconds = progress.seconds]

Record ==
  /\ pc = "record" /\ handle # 0
  /\ WriteEvidence(Reported, "unit")
  /\ UNCHANGED <<args, sent, progress, device>>

(* The next case or echo; or the with statement ends and the run has passed. *)
Unit ==
  /\ pc = "unit"
  /\ IF More
     THEN pc' = "work" /\ ops' = UnitOps /\ UNCHANGED <<handle, evidence>>
     ELSE /\ pc' = "conclude" /\ handle' = 0 /\ UNCHANGED ops
          /\ evidence' = [Reported EXCEPT !.status = "PASS", !.verdict = "GRANTED"]
  /\ UNCHANGED <<args, sent, progress, file, device, faults>>

(* The last write_evidence, and the message after it.  An OSError on the    *)
(* way out of a passed run fails it; one in the handler ends the program.   *)
Conclude ==
  /\ pc = "conclude"
  /\ \/ file' = evidence /\ pc' = "exited" /\ NoFault /\ UNCHANGED <<ops, handle, evidence>>
     \/ /\ evidence.status = "PASS"
        /\ \/ Fault("disk") /\ UNCHANGED file
           \/ Fault("stdout") /\ file' = evidence
        /\ Raise
     \/ /\ evidence.status = "FAIL" /\ Fault("disk")
        /\ pc' = "crashed" /\ UNCHANGED <<ops, handle, evidence, file>>
  /\ UNCHANGED <<args, sent, progress, device>>

(* KeyboardInterrupt is not handled: the session closes, the file stays.    *)
Interrupt ==
  /\ pc \notin {"exited", "crashed"}
  /\ Fault("interrupt")
  /\ pc' = "crashed" /\ ops' = <<>> /\ handle' = 0
  /\ UNCHANGED <<args, sent, progress, evidence, file, device>>
-----------------------------------------------------------------------------
(* External: the device leaves and (re)appears.                             *)
Unplug ==
  /\ device.present /\ "unplug" \notin faults /\ Fault("unplug")
  /\ device' = [device EXCEPT !.present = FALSE, !.out = NoTransfer, !.echo = <<>>, !.halted = {}]
  /\ UNCHANGED <<args, pc, ops, handle, sent, progress, evidence, file>>

Enumerate ==
  /\ ~device.present
  /\ device' = [device EXCEPT !.present = TRUE, !.plug = @ + 1]
  /\ UNCHANGED <<args, pc, ops, handle, sent, progress, evidence, file, faults>>

Libusb ==
  \/ TransferOut \/ TerminateOut \/ TransferIn \/ ResetDevice \/ Open \/ Descriptors
  \/ EndpointHalted \/ SetEndpointHalt \/ ExpectStall \/ ClearHalt

Runner == Start \/ Create \/ Enter \/ Libusb \/ Opened \/ UnitDone \/ Record \/ Unit \/ Conclude

Next == Runner \/ Interrupt \/ Unplug \/ Enumerate

(* Every libusb call has a timeout and the runner is an ordinary process;   *)
(* a device that was reset enumerates again.                                *)
Fairness == WF_vars(Runner) /\ WF_vars(Enumerate)

Spec == Init /\ [][Next]_vars /\ Fairness
-----------------------------------------------------------------------------
Passed == file.run = 1 /\ file.status = "PASS"

(* A PASS in the file stands on work that was done and on a device that did *)
(* it: every case, both thresholds or every byte; no corrupted echo and no  *)
(* echo kept over a reset (unless the device then lost power) was taken for *)
(* the payload, and no endpoint that ignored SET_FEATURE or CLEAR_FEATURE   *)
(* went unnoticed.                                                          *)
PassMeansVerified ==
  Passed =>
    /\ CASE args.program = "matrix"   -> file.units = Len(Cases)
         [] args.program = "loopback" -> file.bytes >= args.total /\ file.seconds >= args.seconds
         [] args.program = "fs"       -> file.bytes = args.total /\ args.speed = "fs"
    /\ faults \cap {"metadata", "timeout", "corrupt", "descriptors", "deaf", "stuck"} = {}
    /\ "keeps" \in faults => "unplug" \in faults

(* The zero-length packet assumes High Speed: at Full Speed an echo whose   *)
(* size is a multiple of 64 and not of 512 never ends in the device.        *)
Unterminated(size) == size < Window /\ size % FsPacket = 0 /\ size % HsPacket # 0

(* The runner fails nothing by itself: with a healthy device, disk and      *)
(* operator an eligible run is never failed, whatever the sizes, the resets *)
(* and the echoes left pending by a case do to the next; the one exception  *)
(* is the last echo of a Full-Speed run that the device cannot see the end  *)
(* of.                                                                      *)
HealthyPasses ==
  evidence.status = "FAIL" =>
    \/ faults # {} \/ ~Eligible
    \/ args.program = "fs" /\ Unterminated(args.total % Window)

(* Every run ends, and the file then holds its own verdict, never RUNNING   *)
(* or an earlier run's, unless the disk or an interrupt prevented it; exit  *)
(* status 0 and a PASS in the file go together.                             *)
Concludes ==
  /\ <>(pc \in {"exited", "crashed"})
  /\ [](pc = "exited" => file = evidence /\ file.run = 1 /\ file.status # "RUNNING")
  /\ [](pc = "crashed" => faults \cap {"disk", "interrupt"} # {})
=============================================================================
