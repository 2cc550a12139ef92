# Verification of the HPM5321 USB-CAN analyzer firmware

TLA+ models of the firmware's core (the protocol session
`protocol/v1/c/ucan_session.c`, the USB owner `USER/src/app_usb_owner.c` and the
MCAN0 owner `USER/src/app_mcan0_owner.c`) and of the Python programs that qualify
it: the hardware-in-the-loop runner and collectors, and the chain of evidence
packagers and validators under `scripts/`. TLC checks small instances; TLAPS
proves for every size what matters most of the firmware's three components: the
event stream, its gaps and its results, the transmit ledger, the replay cache, and
the interrupts and tasks of both owners; and of the qualification programs, the
verdicts of the hot-plug and health collectors and what the evidence chain accepts.
Paths are relative to `src/`; "the specification" is
`docs/approved-plan/usb-can-protocol-v1.md`.

## 1. The system

An HPM5321 microcontroller sits between a CAN bus and a USB host. Three FreeRTOS
tasks and two interrupts share the work:

| Component | State | Operations | Talks to |
|---|---|---|---|
| MCAN0 owner, `app_mcan0_owner.c` | event queue (64), RX ring, state-edge ring, drop counters | ISR queues frames and fault snapshots; task (priority 3) moves them to the rings | pop functions called by the USB task; wakes it with CAN_RX_READY; signals the health task |
| USB owner, `app_usb_owner.c` | generation, OUT/IN/ZLP flags, event queue (8), one OUT and one IN buffer, the open CAN batch | ISR callbacks queue events; task (priority 3) dispatches requests, sends answers and events, publishes CAN data | calls the session; the only caller |
| Session, `ucan_session.c` | negotiated limits, generations, replay cache, TX ledger and token buckets, event queues, loss accumulators | `handle_frame`, `tick`, `on_rx`, `emit_rx_batch_records_at`, `note_*`, `can_tx_complete`, `take_pending_tx`, `dequeue` | single-threaded, runs in the USB task |
| Codec, `ucan_codec.c` | stream decoder buffer | encode, decode, resynchronise | session and USB owner |
| Health and watchdog | activity latch, voter mask | latch, vote, evaluate | all tasks vote |
| Time base | 64-bit counter read in halves | `app_time_now` | everyone |
| Rust host (`host/crates`) | blocking transport, FakeDevice | negotiate, request, read events | the device over USB |
| USB HIL runner, `scripts/phase3/run_usb_hil.py`, `phase0/usb_bulk_loopback.py` | libusb handle, payload generator, evidence in memory and on disk | matrix, loopback, forced Full Speed; reset, reopen, halt and clear | the device over libusb |
| Hot-plug collector, `phase3/collect_usb_hotplug.py` | polled presence, cycles, deadlines | poll, smoke with retries, record | sysfs, the smoke executable, the operator |
| Health collectors, `phase2/collect_heartbeat.py`, `phase3/collect_post_hil_health.py` | GDB server, samples, HIL evidence | halt, read, go, validate | the target through J-Link; the HIL runner's file |
| Evidence packagers and validators, `phase3/package_*`, `validate_*`, `external_artifact_index.py`, `reconcile_p3b_backpressure.py` | files under Git and in staging | package, validate, replay | each other, through files and SHA-256 |
| Other scripts, probes, board support, easylogger | - | build, planning contracts, bring-up, logging | not part of the running protocol |

What is hard here:

- **Interrupts against a task.** USB callbacks (priority 4) run between any two
  accesses of the USB task to `g_app_usb_owner_state`; no critical section guards
  it. A bus reset may come at any point.
- **Order.** Events get their sequence when they are created and then wait in one
  of three rings, a FIFO of edges, an accumulator or a ledger slot. The host must
  see them in order and learn of every one it will not see.
- **Full queues and retries.** Every queue is bounded, and everything that cannot
  be queued is retried from `dequeue`.
- **Retries by the host.** Requests are replayed after lost responses; the replay
  cache and the TX ledger must not execute or answer twice.
- **Authorisation and time.** TX is armed for a limited time under an epoch, which a
  renewal changes while frames wait; frames do not outlive the arming, results do.
- **Programs that judge hardware.** The collectors see the world at the moments
  they look: sysfs between two movements of a cable, RAM between two stores, a
  device between two resets. Their verdict must stand on what happened.
- **Evidence as files.** Packagers read inputs one after another while builds and
  captures go on, replace outputs one after another, and may be killed in between;
  validators see only what is on disk afterwards.

What makes each component correct:

- *egress*: events leave in sequence order; a gap is explained once; results are
  delivered exactly once; edges do not overtake; everything drains.
- *transmit path*: an accepted frame has one stable result; a waiting frame is
  authorised; keys are unique; admission keeps to the rate.
- *request gate*: at most one execution per sequence within retention.
- *USB owner*: one owner per buffer; requests and answers in order, one answer per
  request; ZLPs where due; nothing of an old session after a reset; no stall.
- *MCAN0 owner*: every received frame is delivered in order or counted as lost;
  the reported channel state converges to the controller's.
- *collectors*: a PASS stands on work that was done and measured, a healthy device
  is not failed, every run ends and leaves its own verdict and a clean target;
- *evidence chain*: what a validator accepts is true, what a packager writes of
  quiet inputs is accepted, and no covered file changes unnoticed;
- *codec*: the decoder finds every whole frame whatever the chunking; *time base*:
  reads never go backwards; *health*: the watchdog starves only when a task does.

`PROJECT.json` lists the hazards at their lines with the properties that cover
them.

## 2. Modules

| Module | Models | Runs |
|---|---|---|
| `UcanEgress` | the asynchronous side of the session | `MCEgress*` |
| `EventStream` | abstract: the stream of events a session promises its host | `MCEgressLoss`, as refined by `UcanEgress` |
| `UcanEgressProofs` | order of events, `EventStream`, gaps, results and edges in `UcanEgress` | TLAPS |
| `UcanTx` | arming, admission, ledger, completion | `MCTx*` |
| `UcanTxProofs` | answers, authorisation and rates in `UcanTx`, single execution in `UcanControl` | TLAPS |
| `UcanControl` | the request gate and replay cache | `MCControl*` |
| `UcanClock` | the clock that `UcanTx` and `UcanControl` read | with both |
| `UsbOwner` | interrupts, task and bus of the USB owner | `MCUsb*` |
| `UsbOwnerProofs` | order, generations and transfers in `UsbOwner` | TLAPS |
| `CanOwner` | MCAN0 interrupt and task, and the CAN half of the USB task | `MCCan*` |
| `CanOwnerProofs` | frames and wakeups in `CanOwner` | TLAPS |
| `UsbHil` | the USB HIL runner against a single-buffer echo device | `MCUsbHil*` |
| `UsbHilProofs` | the verdict in `UsbHil` | TLAPS |
| `Hotplug` | the hot-plug collector against a cable | `MCHotplug` |
| `HotplugProofs` | counted cycles and the verdict in `Hotplug` | TLAPS |
| `TargetHealth` | both health collectors, GDB, and the firmware's heartbeat handler | `MCHealth*` |
| `TargetHealthProofs` | the verdicts of both collectors in `TargetHealth` | TLAPS |
| `Reconcile` | pure: the reconciliation of lost EVENTs, and its reference | with `MCEvidence` |
| `EvidenceStore` | what packagers and validators share: files and one process | with `MCEvidence` |
| `FirmwareEvidence`, `BackpressureEvidence`, `LoadEvidence` | each a packager and its validator | with `MCEvidence` |
| `EvidenceChain` | the three composed, with edits, crashes, checkouts, external storage | `MCEvidence*` |
| `EvidenceProofs` | accepted, packaged, rerun and covered documents in `EvidenceChain` | TLAPS |

The session is single-threaded, so its three modules make each entry point one
step and split it by state: `UcanEgress` owns everything that holds event frames,
`UcanTx` the ledger, `UcanControl` the generations and the cache; `UcanClock` is the
time both see. Where one entry
point touches two parts, each module has its half: an expiry in
`ucan_session_tick` is `Tick` in `UcanTx` and `FinalizeTx(slots)` in `UcanEgress`,
and whether a result finds a critical place is decided in `UcanEgress` and is any
prefix of the slots (`last`) in `UcanTx`. In `UsbOwner` the session is a counter
of events that are due; in `CanOwner` it is the channel state and what it was told
and given, the calls that `UcanEgress` has as `OnRx`, `NoteRxRingLoss`,
`NoteEventQueueLoss` and `NoteChannelState`.

### UcanEgress

| State | Code |
|---|---|
| `q_critical`, `q_critical_pending`, `q_data` | the rings of the same names, as sequences of frames |
| `q_pending_channel_state` | the FIFO, as ordinals of edges |
| `loss` | `loss[4]`; a record is `Free` when not `occupied` |
| `delivery_pending` | per ledger slot the number of the result it owes |
| `host` | not in the program: what a host that reads every frame knows |
| `finals`, `edges`, `unrecorded` | history |

`Emit(due, base)` is the common core of all emitters: as many of the due frames as
the two critical rings have room for get sequences and places
(`critical_capacity_available`, `alloc_event_sequence`, `enqueue_critical`), the
rest none. `EnqueueCritical` treats both rings as one FIFO with a cut, which is
what the code's three branches amount to, and `RingsWhole` and
`EnqueueCriticalAppends` in the proofs rest on that form. The loops over
accumulators and slots go by index (`Ascending`). `AccumulateLoss`, `FinalizeTx`,
`PersistChannelState`, `PollFlowControl`, `Dequeue` are the functions of these
names; the mask `slots` of `FinalizeTx` stands for the slot that completes, or
for all PENDING slots on expiry. The configuration generation, which splits ranges of
losses, moves with an edge in `ConfigChannel` and without one in `Reconfigure` (capture,
filters, arm and disarm). Left out: the response ring (nothing
fills it; `handle_frame` answers synchronously), the rate limit of flow control
(any time may be late enough), frame contents, the wrap of sequences at 2^32, and
allocation failures of the encoders, which cannot happen for these sizes (HELLO
accepts no message limit below 256 bytes).

### UcanTx

One channel and one rule, so one rule bucket and the aggregate bucket. A frame's
bytes are its deadline. `hardware` holds the frames the owner took and may still
complete, however late; completion is by tag, as in the code. `CanTxStatus` is
the chain of checks in code order. The reserved-load check may refuse at will
(`overloaded`). In the shipped configuration `product_max_bus_load_permille` is 0
and the owner refuses every frame, so TX_ARM never succeeds; the module models the
session as it would run with a product that allows TX, which is what its tests do.

### UcanControl

`HandleFrame` is a chain of guarded alternatives in the order of
`ucan_session_handle_frame`. A replay hit changes nothing and is therefore a
guard, not an action. Payloads are reduced to the expected generation; 0 is one
that does not decode. Its specification is `GateSpec`, with `GateInit`, `GateNext` and
`GateTypeOK`, so that one module of proofs can extend it beside `UcanTx`.

### UsbOwner

A task step makes at most one write to the state that interrupts write; `pc`
names the place in `usb_owner_task` and its callees, `ret` the return address of
`start_next_in_transfer`. `usb` is `g_app_usb_owner_state` with
`usb_in_zlp_pending`, `usb_in_zlp_in_flight` and `protocol_reset_pending`; `bus`
is the controller with the OUT buffer. Requests are numbered; each gets an answer.
The stream decoder, and requests split over transfers, are left out. The two
switches state the environment: `Lockstep` (the host waits for the answers to one
transfer before it sends the next, which is what `outstanding_limit = 1` in
`init_protocol_config` demands) and `ConfigureAnytime` (may a bus reset and a new
enumeration complete within one pass of the task; the runs assume not, as
enumeration takes tens of milliseconds and the task preempts everything but the
timer service).

### CanOwner

| State | Code |
|---|---|
| `controller` | external: error state, interrupt flags, RX FIFO of the MCAN |
| `isr` | the locals of `app_mcan0_owner_isr` |
| `queue`, `ring`, `edges`, `edge_state`, `state` | `mcan0_event_queue`, `mcan0_rx_ring`, `mcan0_state_edge_ring`, `mcan0_edge_channel_state`, `g_app_mcan0_owner_state` |
| `usb_queue`, `latch` | `usb_owner_queue`, `can_rx_event_pending` |
| `usb` | `mcan_diagnostics_baseline_valid`, `mcan_state_reconcile_pending`, `reported_mcan_*`, and of the session `negotiated` and the channel's state |
| `diag`, `event`, `sample` | locals of `publish_mcan_diagnostic_edges`, `mcan0_owner_task`, `refresh_live_diagnostics` |
| `history` | frames given to the session, losses told and forgiven, whether a state was lost |

The tasks have one priority and interleave at each access to shared state; a
critical section is one step. The interrupt stops both; it is two steps, since only
what the controller does between reading and clearing the flags matters.
`SignalCanRx`, `SignalSend` and `SignalFailed` are `app_usb_owner_signal_can_rx`,
called by either task. A frame goes to the session when it is popped: the batch in
between, which only delays it (and makes the 1 ms wait more frequent), is left out,
and so are the error counters, the DEBUG bus-off hook, start-up failures and an
overrun of the hardware FIFO. `LongFrames` are classic frames with a DLC above 8,
which `publish_rx` counts as invalid.

### EventStream

Four variables: the last sequence allocated, the set of sequences that wait, the
last one delivered, the ones skipped and not yet explained. `Admit` queues freshly
allocated sequences, `Deliver` hands out the least of all that wait and adds what
it skipped to the missing. `UcanEgress` maps `device_event_sequence`, the union of
its three rings, and what its host has seen (`Stream` in that module). A
`ucan_session_dequeue` may do both: it flushes retries first.

### UsbHil

| State | Code |
|---|---|
| `args` | the command line |
| `ops` | the libusb calls left in the matrix case or echo under way |
| `handle` | `UsbSession.handle`, as the connection it was opened on |
| `sent` | payloads drawn from `rng`; the last one is compared with the echo |
| `progress`, `evidence`, `file` | the counters, the dictionary, the document at `--output` |
| `device`, `faults` | external: an echo firmware with one buffer, and what went wrong |

`CaseOps` is `build_matrix_cases` as sequences of libusb calls; each call is one
step and the device may change before the next. Every call may time out, echoes may
be corrupted, endpoints may ignore SET_FEATURE or CLEAR_FEATURE, a device may keep
its echo over a reset or never come back, the disk may be full, stdout closed, the
operator impatient. A payload is a number, so the comparison in `echo` is by number.

### Hotplug

Time is discrete and passes while the collector sleeps or the smoke executable
runs; `Pull` and `Plug` happen at any moment, also between two polls and during a
smoke. `watch` is `state`, `disconnected_at`, `cycle_number` and the time of the
reconnection; `outages` records every physical absence, which the collector cannot
see.

### TargetHealth

The heartbeat handler is one step per store (`beat`, `stamp`, `vote`, `count`,
`healthy`), `app_watchdog_evaluate` included, because GDB halts the core between
any two. `Ram` is what a session prints, with one Boolean `clean` for all fields
that have a single admissible value. The three programs share `collect`'s frame:
start, spawn the server, halt, read, go, judge, record, wait, decide, sleep, conclude,
clean up; `post_hil` begins with the two reads of the HIL document.

Time passes at every one of these up to the verdict, not in the sleep alone: a GDB
session may take up to 20 s (collect_heartbeat.py:247), and writing and printing a
sample and waking up late take time too. The clock is read when a sample is accepted
(322), again for the sleep after it was written (335, `elapsed`), and a last time for
the duration the verdict claims (344), so samples drift apart and the last sleep is
whatever is left. The history variable `busy` counts the ticks since sampling began in
which no sleep was due; a sample keeps its value beside its time, and properties that
are about the schedule speak of the difference.

### Evidence

A file is its content, and a SHA-256 in a document is the content it was taken of.
A packager is a sequence of steps, one per read or write of a file (or group of
files read in one go); `Replace` is NamedTemporaryFile and `Path.replace`. A
validator reads everything at one moment and is a predicate. What packager and
validator both check against a constant (schemas, tool versions, bitrates, names,
time stamps) is one flag or left out; what differs between them is kept:
in the status the references (`PackagedDocuments`, `AmendedDocuments`) and the texts
(`AmendedTexts`), the probe's serial and the target device (`KnownTarget` stands for
both), the dirty tree, the replay. The index of external packages is a list, as in
`validate_detached_reference`: one record too many of a path is refused, also when
both are equal. An operator archives a package over the record it had, or by a slip
beside it, which counts as an edit. `Reconcile` is a translation of the script's arithmetic for any `Modulus`,
beside a definition of what it should compute.

## 3. Runs

| Run | Constants | Shows |
|---|---|---|
| `egress_loss` | all rings of 1, 2 accumulators, 2 slots, 4 receive-side calls, 1 control-side call | `EventOrder`, `EveryGapExplained`, and `ImplementsStream`, the refinement of `EventStream` |
| `egress_control` | critical rings of 2, FIFO of 1, 2 slots, 1 receive-side and 3 control-side calls, fair | `ResultExactlyOnce`, `EdgeOrder`, `Drained` |
| `tx` | 2 tags, 2 slots, 2 ticks to the second, arm of 2 ticks, guard of 1, 3 ticks, 3 epochs, 2 acceptances | one stable result for each accepted frame, authorisation, both rates |
| `control` | 3 sequences, 2 cache entries, retention of 1 tick, 3 ticks, 3 generations | `ExecutesOnce` |
| `usb` | queue of 8, 2 requests to a transfer, 3 requests, 2 resets, 1 event due, lockstep, fair | order, single answers, ZLPs, nothing stale, no stall |
| `usb_stranded` | the same, 1 reset | finding: OUT is stranded |
| `can` | queues and rings of 1, from boot, 3 inputs (frames, state changes, faults, resets and HELLOs), fair | `FramesAccounted`, `NoLostWakeup`, `EdgesReachSession`, `Settles` |
| `hil` | window of 8, packets of 4 and 2, 8 cases, 9 invocations, 3 kinds of faults | `PassMeansVerified`, `HealthyPasses`, `Concludes` |
| `hotplug` | 2 cycles, poll of 1, absence of 3, recovery of 2, overall 10, smoke of 1 or 2, 3 outages, 1 kind of fault | `CyclesAreOutages`, `PassMeansRecovered`, `Concludes` |
| `health` | heartbeat every 2 ticks, HIL evidence no older than that, 4 invocations, durations to 5, 1 tick of work, 2 kinds of faults, 2 USB runs | `PassMeansMeasured`, `HealthyFailures`, `Concludes` |
| `health_voter` | the same | finding: a missing voter that never was |
| `evidence` | sequences modulo 16, captures of 4 events across the wrap, every fate of each, every single spoiling; 2 packager runs, 1 edit, 1 crash | `AcceptedSound`, `PackagedIsAccepted`, `RerunReproduces`, `ReconcileExact`, `StatusCovers` |

**Bounds.** With rings of one place every branch of `enqueue_critical`,
`flush_pending` and `accumulate_loss` is taken within four calls: primary full,
overflow full, refill, accumulator extended, flushed, taken, exhausted. Order in
the rings does not depend on their size, and the theorems remove the bound
altogether. Two slots and two tags are the least that give a tag a stale FINAL
slot beside its live one, and two frames to expire at once; an arm of two ticks
and a guard of one let arm, guard and reclaim overlap in three ticks. Two cache
entries and three sequences fill the cache, expire it in part, and evict. Two
requests to a transfer and three requests make a transfer of two and one after it,
with resets in every gap. With queues and rings of one place two frames, or a frame
and a state change, fill any of them, and three inputs allow a HELLO and two of
these, a change and its recovery, or a loss on either side of a reset.
A window of two High-Speed packets of two Full-Speed packets each has a size on
either side of every boundary the code tests; three faults combine a device that
keeps an echo with a retry and a full disk. Two cycles show one cycle's state leak
into the next; three outages put a short one or a swap between two good ones; the
overall timeout is short enough to run out in every state. Two ticks to the
heartbeat leave room for a halt in each of its stores and for a rest of the duration
below one heartbeat; the tick of work may fall into a session, between the session
and the write, between the two reads of the clock or after a late wakeup. Four events across the wrap hold every pattern of two losses,
two notices and frames, 81 histories in all, and one edit with two packager runs
puts the edit between any two steps of either. All counters that grow are bounded by constants in the
guards (`RxBudget`, `ControlBudget`, `MaxTick`, `MaxEpoch`, `MaxAccept`,
`MaxGeneration`, `MaxRequests`, `MaxDue`, `MaxInputs`, `MaxFaults`, `MaxOutages`,
`MaxTime`, `MaxBusy`, `MaxHil`, `MaxEdits`, `MaxRuns`, `MaxCrashes`); where the bounds stop the system,
deadlock is part of the bound only where the cfg says so. The collectors and
packagers really stop, so their cfgs allow it.

**Fairness.** `UcanEgress`: weak fairness of `Dequeue(TRUE)`; after each completed
transfer, and at least every 100 ms, the task calls `start_next_in_transfer`, whose
buffer takes any frame when it is empty. So `Drained` is about a host that keeps
reading. `UsbOwner`: weak fairness of the task (the scheduler runs it: priority 3,
with only a task of equal priority and the timer service beside it) and of
`UsbInComplete` (the host reads the IN endpoint). `CanOwner`: weak fairness of the
interrupt and of each task (both have priority 3, and FreeRTOS shares the processor
between equals). No fairness is assumed of requests, resets, configuration or the
CAN bus. The collectors: weak fairness of the process and of the clock, since
every libusb and GDB call has a timeout and sleeps end; of the device's
enumeration after a reset (`UsbHil`), since `Open` fails once its time is up
otherwise; and of the firmware's task (`TargetHealth`), which alone feeds the
watchdog. The smoke executable has no timeout, so nothing is assumed of it.

**Findings.** Two runs expect a violation of something the repository says of
itself; each is described with its lines in `PROJECT.json`. `usb_stranded`: an OUT
completion that overtakes its own flag strands the endpoint. `health_voter`: a halt
between the two counters of `app_watchdog_evaluate` makes
`collect_heartbeat.py:134` report a missing voter of a healthy target.

Six more are definitions in the modules that TLC refutes with the constants given
(as INVARIANT, or PROPERTY where temporal), kept out of the runs for their length:

| Definition | Constants that differ from the passing run | What happens |
|---|---|---|
| `UcanEgress!EveryLossRecorded` | `NAcc` 4, rings of 1 | with all accumulators taken, `accumulate_loss` records a loss nowhere (ucan_session.c:549), against the specification's "禁止 silent drop" (line 645) |
| `UcanTx!CompletionReachesFrame` | `MaxEpoch` 4, `MaxTick` 2, `Deadlines` {0} | `ucan_session_can_tx_complete` finds a frame by tag alone (846) and is swallowed by the FINAL frame of an earlier epoch |
| `UcanTx!PendingOfEpoch` | none | a frame waits under an epoch that did not admit it: TX_ARM asks not whether TX is armed and cancels nothing (1626-1650), so after `TX_ARM`, `CAN_TX`, `TX_ARM` the frame of the old epoch is still pending and will be sent, against "每次 arm/disarm 推进并绑定 CAN_TX" (docs/approved-plan/usb-can-protocol-v1.md:450) |
| `UcanTx!BucketFills` | `TickHz` 4, `ArmTimeout` 4, `MaxEpoch` 1, `MaxTick` 3 | the fraction of a token is lost at every request (87-93, 101-107): a host that retries fast never gets one |
| `UsbOwner!SingleOwner` | `MaxGeneration` 1 | the TX_COMPLETE branch rearms OUT over an unread chunk (app_usb_owner.c:833), against docs/evidence/phase3/P3A-USB-baseline-2026-08-09.md:10-11 |
| `CanOwner!StaysSettled` | `Started` TRUE, `SPECIFICATION Spec` | after a lost diagnostic event was reconciled, the recovery edge is taken for a repetition (app_mcan0_owner.c:987) |

Observed beside the runs:

- with `ConfigureAnytime = TRUE`, `NothingStale` fails (an answer built before the
  reset is sent after it), and with `Lockstep = FALSE`, `ExchangeInOrder` fails (a
  pipelining host overwrites its own chunk); the runs exclude both environments;
- `CAN_TX` checks arming, epoch and deadline (ucan_session.c:1708-1731) before it
  looks for the frame (1732), so that a byte-identical replay after a disarm or an
  expiry gets BAD_STATE or TIMEOUT although "byte-identical CAN_TX replays can read
  the FINAL snapshot" (631-633);
- the BUSY that "must be refused ... not silently evict a still-valid cache entry"
  (1165-1167) is itself stored (1090) in place of the oldest valid entry; what
  `ExecutesOnce` shows is that nothing executes twice even so;
- the session may also stay behind the controller when a reconciliation uses a
  snapshot whose `queue_count` is newer than its `last_protocol_status`
  (app_mcan0_owner.c:1135 and 1066), or when two changes of one kind meet in one
  interrupt; `EdgesReachSession` and `StaysSettled` exclude what is lost that way;
- `run_usb_hil.py`: the zero-length packet is sent for multiples of 512 only, so a
  Full-Speed echo whose last chunk is a multiple of 64 never ends in the device
  (`HealthyPasses` names it); after a passed run whose file was written, a closed
  stdout turns the file to FAIL; KeyboardInterrupt leaves RUNNING; the identity of
  the device is not checked again after a reset;
- `collect_usb_hotplug.py`: the file of an earlier run stays until the first smoke
  has passed; the smoke has no timeout of its own (`SmokeHangs`); a run may pass
  after its overall timeout, by the bound in `Concludes`; the absence it measures
  may be off by a polling interval, and two short outages may look like one long;
- `collect_heartbeat.py`: FAIL and ABORTED leave `qualification_status` as it was; the
  last sleep lasts from the last look at the clock to the end of the duration, and one
  shorter than a heartbeat fails a healthy target (`HealthyFailures`); samples are
  apart by the interval and the time sessions and writes take, as the archived runs
  show (docs/evidence/phase2/T-RTOS-003-3600-2026-08-09.json, up to 60.059 for an
  interval of 60); the duration that qualifies is read after the last sample was
  written, so that the time of this write counts; a
  GDB timeout leaves the core halted; a restart that repeats boot tick and reset
  cause passes when the target has counted past the sample before;
- `collect_post_hil_health.py` reads the HIL document twice; one that another run
  replaces in between is hashed but not parsed (`SnapshotOfHilBoot`, fault `rerun`);
- packagers and validators have drifted apart: `package_p3b_load_evidence.py` never
  writes the readiness and attempt references and writes the bus-off blocker under
  another key than the validator reads (`historical_bus_off_fault_injection_blocker`),
  and it still writes texts from before the bus-off attempt: a `blocked_reason` that
  names neither `TIMEOUT_CLEANED_NOT_BUS_OFF` nor the active fault source, five of the
  six `completed` items, no limitation at TEC 128
  (validate_p3b_load_evidence.py:75-82, 770-780, 1008-1010, 1031-1038); so a fresh
  status is refused until both edits that `Amend` stands for are made. The validators
  alone insist on the probe's serial, the target device (the packagers only that the
  transcripts agree on them), a dirty source tree and a failed host acceptance, and
  the backpressure packager believes the recorded reconciliation that its validator
  replays;
- the load validator does not compare the firmware hash in the run manifests, and of
  a package kept outside Git it checks the index and an excerpt only;
- inputs are read twice (build manifest, transcripts, hot-plug artifact,
  `frames.csv`, tool and attestation); a package may hold what was not checked, and
  `AcceptedSound` shows that the validators then refuse it;
- `reconcile_p3b_backpressure.py` compares sequences for the recovery after the last
  loss without the wrap, so its flag is wrong after one (`Wraps`).

## 4. Proofs

Every theorem is about the specification itself, with the constants as its cfg
leaves them open: any capacity, number of slots, rate, retention or bound that the
module's named assumption allows. TLC evaluates those assumptions in every run, and
checked each inductive invariant on an instance before it was proved. Each module
ends in the same way: `Init => IInv`, `IInv /\ [Next]_vars => IInv'` with one lemma
or step per action, and PTL.

| Theorem | Module | States |
|---|---|---|
| `TypeCorrect` | `UcanEgressProofs`, `UcanTxProofs`, `UsbOwnerProofs`, `CanOwnerProofs`, `UsbHilProofs`, `HotplugProofs` | `TypeOK` |
| `GateTypeCorrect` | `UcanTxProofs` | `GateTypeOK` |
| `Typed` | `TargetHealthProofs` | `TypeOK` |
| `EventsOrdered`, `DeliveredInOrder` | `UcanEgressProofs` | `EventOrder`, `InOrderDelivery` |
| `StreamImplemented` | `UcanEgressProofs` | `ImplementsStream`, that is, `Stream!Spec` |
| `GapsExplained`, `ResultsOnce`, `EdgesInOrder` | `UcanEgressProofs` | `EveryGapExplained`, `ResultExactlyOnce`, `EdgeOrder` |
| `AcceptedAnsweredOnce`, `FinalIsFinal`, `WaitsAuthorised`, `RateKept` | `UcanTxProofs` | `AcceptedAnswered`, `ResultStable`, `PendingAuthorised`, `RateBound` |
| `ExecutedOnce` | `UcanTxProofs` | `ExecutesOnce` |
| `OldFramesStay`, `AnsweredInOrder`, `TransfersTerminated`, `ExchangeOrdered` | `UsbOwnerProofs` | `NothingStale`, `AnswersInOrder`, `ZlpTerminates`, `ExchangeInOrder` |
| `FramesAccountedFor`, `WakeupNotLost`, `EdgesFollowed` | `CanOwnerProofs` | `FramesAccounted`, `NoLostWakeup`, `EdgesReachSession` |
| `PassVerified` | `UsbHilProofs` | `PassMeansVerified` |
| `OutagesBehindCycles`, `PassRecovered` | `HotplugProofs` | `CyclesAreOutages`, `PassMeansRecovered` |
| `Measured`, `FailsHealthy` | `TargetHealthProofs` | `PassMeansMeasured`, `HealthyFailures` |
| `AcceptedCovers`, `PackagersAccepted`, `RerunAccepted` | `EvidenceProofs` | `StatusCovers`, `PackagedIsAccepted`, `RerunReproduces` |
| `AcceptedFirmwareAndLoad` | `EvidenceProofs` | two of the three conjuncts of `AcceptedSound` |

**Order of events (`UcanEgressProofs`).** The invariant is `TypeOK /\ EventOrder`. Order of
delivery alone is not inductive: `ucan_session_dequeue` compares two heads, which
is right only if each ring is sorted, lies above what the host has seen, and shares
no sequence with the other. The two critical rings are one FIFO (`RingsWhole`).
Whatever an emitter sends is appended to it with sequences above
`device_event_sequence` (`EnqueueCriticalAppends`, `EmitAppends`), so it stays
sorted (`OrderedAppends`). `flush_pending` is such an append after a refill that
only moves the cut (`RefillBounds`, `FlushTypes`). Taking the older head leaves both
queues above it (`OrderedTake`).

**The stream (`UcanEgressProofs`).** Every emission adds to the queued sequences
only ones above the last allocated (`SequencesFresh`, `EmissionAdmits`). Because
both queues are sorted, the older of two heads is the least of all sequences that
wait (`DequeueDelivers`), and what the host then misses is what lay between
(`HostReceivesGaps`). `StepsAreTheStreams` maps each action to a step of the stream
or a stutter, `StreamInit` the initial states.

**Delivery (`UcanEgressProofs`).** Three lemmas say what moves: `LossMoved` for
`accumulate_loss`, `FlushMoved` for `flush_pending`, `DequeueMoves` for
`ucan_session_dequeue`. Each gives the frames `g` that are appended and what is no
longer owed because of them; the frames of `flush_pending` are the first `Len(g)`
of notices, results, edges and flow control, in this order. With them, each
property has an invariant that follows one thing through all the places it can be
in, and speaks of its copies rather than of cardinalities:

- `PlacedNow`: a result is in one slot, one frame of the FIFO or the host's set.
- `EdgesNow`: the edges of the FIFO and those that wait behind it are one ascending
  sequence above what the host saw, up to the last edge reported. That an emission
  with room takes the direct way only while nothing waits (`Persisted`) is what
  keeps the two ways in order.
- `ExplainedNow`: each sequence is `Located` in exactly one of the FIFO (as a frame
  or in a notice), the data ring, an accumulator, the unrecorded set, or what the
  host knows. Alone it is not inductive: a notice must not speak of sequences at or
  after its own, nor an accumulator of one not yet allocated (`InBounds`,
  `RangesInBounds`), or the next event would be told of as lost; and `EventOrder`
  must hold, or a delivered frame would make the host believe it missed what still
  waits. A drop is first put in the unrecorded set (`ExplainedDrop`), the notices of
  its key go out (`ExplainedSends`), and then it moves to an accumulator
  (`ExplainedRecords`) or stays, which is the order in the code.

**Transmit path (`UcanTxProofs`).** `IInv` adds to the properties: an armed session
is before its deadline and its epoch has not fallen since it was armed (`Armed`),
without which a frame could be accepted too late to be authorised; accepted frames are numbered, each number in one occupied slot or
announced (`Numbered`); and `Budget`: for each bucket and each earlier admission,
the admissions since then and the tokens left do not exceed the capacity and what
was earned in between. `RateBound` says this of admissions alone and is not
inductive, as the tokens left decide the next admission. `EarnedAdds` shows that
rounding down at each refill never earns more than one division over the whole
span. Every change of the ledger is an `Evolution` that keeps numbers and leaves
final slots alone (`FinaliseEvolves`, `CompleteEvolves`, `FlushEvolves`,
`TickEvolves`), and `FinalIsFinal` comes from the same steps.

**Replay cache (`UcanTxProofs`).** `GateInv` is `GateTypeOK /\ GatePast /\ ExecutesOnce`.
`ExecutesOnce` is stated with its reason (`EvictedAreGuarded`): an execution is
still in the cache, or everything in a full cache is as young; storing an answer in
the place of the oldest keeps that (`StoreKeepsGuard`), and a gate that finds
neither a retained entry nor a cache full of them knows that the sequence did not
execute within the retention (`FreshIsNew`).

**USB owner (`UsbOwnerProofs`).** `IInv` speaks of an endpoint that is open and
whose CONFIGURED event is handled (`Live`): one transfer, and one completion of it,
at a time (`OneTransfer`); a buffer that is not rewritten under way and that holds
nothing from before the reset (`Buffered`); the ZLP that is owed (`ZlpOwed`). Between a
reset and that event (`Generations`, `Renewed`) it says that all the task may still
hold is older than the generation. `OldFramesStay`, `TransfersTerminated` and the lemma
`HandledAreAnswered` (requests that were handled are answered once each and in the
order of handling, also for a host that pipelines) follow from it and assume
`ConfigureAnytime = FALSE`: a bus reset and the enumeration after it do not both
complete within one pass of the task, since an enumeration takes tens of
milliseconds of host requests and a pass takes microseconds. The hypothesis is
needed: TLC refutes `NothingStale` without it (section 3). `ExchangeOrdered` assumes
besides that the host waits for its answers (`Lockstep = TRUE`), to which
`init_protocol_config` binds it with `outstanding_limit = 1`; `InLockstep` then says
where the requests are that the host has sent and nobody has handled, and
`AnsweredInOrder` is what such a host sees: its i-th answer is that to its i-th
request. For a pipelining host no such theorem holds (section 3).
`TypeCorrect` needs neither.

**MCAN0 owner (`CanOwnerProofs`).** `FramesAccounted` is about one long sequence, the
path from the FIFO to the session. Frames are taken out of its middle or passed on
within it, so the lemmas are about sequences (`Shortened`, `Inserted`,
`Extended`, `Associative`, `HeadMoves`); `Arrived` bounds its numbers by the frames
received, which a new frame needs to be the largest. What is subtracted in the
count is not negative because what was reported is at most the snapshot and that at
most the live counters (`Reports`). `Woken` strengthens `NoLostWakeup`: the latch is
set only while a signal is in the queue or on its way, at every place of both tasks.
`EdgesFollowed` needs a further invariant, `Followed`, about a state that is copied on
its way to the session: interrupt, queue, owner, edge ring, snapshot, session.
`Traceable` names the newest sample among the first four of these (`Latest`) and says
that the controller has since moved only as its flags still raised tell. `Levelled` is
about readers that do not wait for the edge, as a baseline or a reconciliation that
takes the snapshot: whatever they read is the state of the last edge, or the owner
has another edge to publish (`Stirs`) that will correct them. `Unreconciled` says that no
drop counter has moved while nothing was lost, so no reconciliation starts. The three
must be proved together: a stale snapshot is harmless only because the sample which
made it stale is still traceable.

**HIL runner (`UsbHilProofs`).** A PASS is given far from where a device goes wrong, so
the invariant follows the calls that are left of a case. `Shaped` says of them what
`build_matrix_cases` makes true: an endpoint is checked before and after it is halted
and after it is cleared, a reset is followed by a new payload, and what is read was
written before (`CaseScripted`, `UnitScripted`; a call made keeps it, `CallsLeft`).
What a device did wrong is then unseen for one call at most, or for as long as an echo
kept over a reset has not been read: `Heard` (SET_FEATURE ignored, the next call asks
for it), `Cleared` (CLEAR_FEATURE ignored; `Settled` says that a halted endpoint is only
cleared where the case checks it), `Kept` (an echo of an earlier payload is the first
that will be read, and `Draws` that it cannot be the one compared, as payloads are
numbered when they are drawn). Any other fault ends the run at once, and `Failed` shows
that the handler leaves no PASS behind. `Counts` is the arithmetic of the three
programs. The one assumption about the cases beyond their shape is that they halt
EP_OUT or EP_IN (run_usb_hil.py:503).

**Hot-plug collector (`HotplugProofs`).** Neither property is inductive: one speaks of
cycles already counted, the other of the file. `Watching` follows the cycle under
way: the cable was out at the disconnect that was noted and at the poll before the
next one, and both absences are over once a poll finds the cable back. From these
two moments `OutageShown` gets the outage and, if the cable moved only once, its
length less one interval: two short outages may look like a long one, and then the
two moments lie in different ones. This needs that a sleep is not overslept
(`Clock`), as the model's time stops at the end of a sleep until the collector
goes on; on a loaded machine the slack is the real length of the sleep.
`Bookkeeping` ties the verdict to the counter of the loop and the file to the
evidence at the exit, through failed writes and interrupts.

**Health collectors (`TargetHealthProofs`).** A sample is compared with the one
before, so the invariant must relate a record to the target it was read from,
however long ago. `After` says what a record still implies of the running target:
counters of the same boot have only grown, and by at least what the time since then
allows; those of a later boot are younger than the record. `Follows` is the same
between two records, and `Recent` carries it from the read of a sample to its
verdict. From `Follows`, a restart that all checks of `validate_sample` overlook must
have counted past the sample before since that one was read, which is the exception
that `PassCoversDuration` states. `Handling` is the heartbeat handler store by store: what
the three counters differ by at each place where a debugger may halt it. `Schedule`
is the arithmetic of the polls. Its clock is `Rested`, the time less the work: work
may take any time, in any step, but rest passes in sleeps only, so two samples are as
much rest apart as the sleep between them was to last (`OnTime`, `Due`), which is the
interval or what was left of the duration when the clock was last read. Rest is also
time the target ran, with its timer moving, and that is what `After` counts in: a
rest longer than a period brings a heartbeat, whatever the work beside it. That
gives both the gap bound of `PassCoversDuration` and the exception in
`HealthyFailures`. `Linked` and `Verdicts` tie the file to the samples and to
the USB run.

**Evidence chain (`EvidenceProofs`).** `IInv` is `Files /\ OneFirmware /\ Quiet /\
Untouched`. `OneFirmware` says that all packages and run records between two
firmware documents speak of one firmware, wherever the packager is between its reads,
and gives `LoadSound`. `Quiet` follows the memory of each packager from read to read
while nobody edits (`FirmwareQuiet`, `BackpressureQuiet`, `LoadQuiet`): what it holds
is what the disk holds, and what it wrote is built from that, so that the checks of
the packager imply those of the validator. `Untouched` says that what a packager
writes over committed inputs is what was committed, so a rerun killed anywhere leaves
a mixture of old and new that is the old, and the index, whose records are replaced by
equal ones, stays the list it was (`IndexedOnce`). `AcceptedCovers` needs `Files` only: two
accepted states with one status have the same covered files (`SameCovered`). The
theorems assume of the inputs only that they have their shape (`InputsAssumption`,
`PinnedAssumption`) and that the committed ones are those which the validators pin and
the packagers take (`CommittedAssumption`); TLC evaluates all three.

**Only model-checked.** Liveness (`Drained`, `AllAnswered`, `Settles`, `Concludes`),
as ENABLED and fairness are beyond the prover. `ReconcileExact`: the ranges are
folded over sequences, and induction over data is beyond it too; hence also the
second conjunct of `AcceptedSound`, by which an accepted backpressure document stands
on an exact reconciliation. `HealthyPasses` of `UsbHil` holds of the cases that
`MCUsbHil` gives, as of the real matrix, and not of any: an echo of zero bytes, for one,
would never come back.

## 5. Plan

In this order:

1. `CanOwner` with the batch of the USB task, composed with `UcanEgress`: the wait
   of a batch against HELLO, reconfiguration and resets.
2. The analyzer and bus-off documents of the chain, now one Boolean each.
3. Sequence arithmetic modulo 2^32 on the device: `wrap_inc`, the signed
   difference, the merge of loss ranges at the wrap.
4. The stream decoder: any chunking of a byte stream yields the same frames.
5. The high-low-high time read and the activity latch of the health task.

## 6. Not modelled

Payload codecs (field layouts, pinned by shared vectors), board support and boot
(straight-line), the DEBUG bus-off hook, the Rust host (a blocking client, and a
second implementation of the session for tests), the build, environment and
planning scripts (single-pass programs that compare files with constants), the
validators' caches (`_PACKAGE_CACHE`, `_SHA256_CACHE`: one process, keyed by
metadata), the probes and the vendored logger. Within modelled parts: response contents, diagnostics counters,
filters and their matching, more than one channel or rule.
