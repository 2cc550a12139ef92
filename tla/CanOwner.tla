------------------------------ MODULE CanOwner ------------------------------
(***************************************************************************)
(* The receive path of the CAN channel: the MCAN0 interrupt, its event     *)
(* queue and the owner task (USER/src/app_mcan0_owner.c), which fill a ring*)
(* of frames and a ring of state edges, and the half of the USB owner task *)
(* (USER/src/app_usb_owner.c) that empties them into the session.  The     *)
(* interrupt preempts both tasks, except in their critical sections; the   *)
(* tasks, of equal priority, interleave.  Each access to shared state is a *)
(* step.  The controller and the USB host are external.  Frames are        *)
(* numbered as they arrive.  The shipped build is meant: no DEBUG hook.    *)
(***************************************************************************)
EXTENDS Integers, Sequences, FiniteSets

CONSTANTS
  QueueLength,    \* APP_MCAN0_OWNER_EVENT_QUEUE_LENGTH
  RingCapacity,   \* APP_MCAN0_OWNER_RX_RING_CAPACITY
  EdgeCapacity,   \* APP_MCAN0_OWNER_STATE_EDGE_CAPACITY
  UsbQueueLength, \* APP_USB_OWNER_QUEUE_LENGTH
  LongFrames,     \* the frames with a DLC above 8
  Started,        \* start in a session on a quiet bus, or at boot?
  MaxInputs       \* bound: frames, state changes, faults and USB events, in all

ASSUME CanAssumption ==
  /\ QueueLength \in Nat \ {0} /\ RingCapacity \in Nat \ {0}
  /\ EdgeCapacity \in Nat \ {0} /\ UsbQueueLength \in Nat \ {0}
  /\ LongFrames \subseteq Nat /\ Started \in BOOLEAN /\ MaxInputs \in Nat

VARIABLES
  controller, \* external: error state, interrupt flags, RX FIFO, and counts
  isr,        \* app_mcan0_owner_isr: what it read on entry
  (* app_mcan0_owner.c: *)
  queue,      \* mcan0_event_queue
  state,      \* g_app_mcan0_owner_state
  ring,       \* mcan0_rx_ring
  edges,      \* mcan0_state_edge_ring
  edge_state, \* mcan0_edge_channel_state
  event,      \* the event of mcan0_owner_task
  sample,     \* the locals of refresh_live_diagnostics
  (* app_usb_owner.c: *)
  usb_queue,  \* usb_owner_queue
  latch,      \* can_rx_event_pending
  usb,        \* the owner's static variables, and its session
  diag,       \* the diagnostics of publish_mcan_diagnostic_edges
  (* both: *)
  pc,         \* what each task does next
  history     \* not in the program: what became of frames and changes

mcan == <<queue, state, ring, edges, edge_state, event, sample>>
vars == <<controller, isr, queue, state, ring, edges, edge_state, event, sample,
          usb_queue, latch, usb, diag, pc, history>>
-----------------------------------------------------------------------------
ChannelState == {"listen", "passive", "off"}
Flag     == {"RX", "EP", "BO", "OTHER"}
Fault    == Flag \ {"RX"}                  \* APP_MCAN0_OWNER_FAULT_MASK
Frame    == 1..MaxInputs
Event    == [type: {"RX"}, frame: Frame] \cup [type: {"DIAGNOSTIC"}, status: ChannelState]
Counter  == {"rx_queue_drops", "diagnostic_queue_drops", "state_edge_drops", "ring_drops"}
UsbEvent == {"CAN_RX_READY", "RESET", "HELLO"}
Task     == {"mcan", "usb"}
McanPlace == {"receive", "publish", "capture", "edge", "signal", "send", "unlatch", "count",
              "refresh", "refresh_status", "refresh_store"}
UsbPlace  == {"top", "wait", "wait_1ms", "pop", "drained", "recheck", "signal", "send",
              "unlatch", "snapshot", "edges"}

(* Locals that nothing reads any more are set back to these.                *)
NoIsr    == [active |-> FALSE, flags |-> {}, status |-> "listen"]
NoEvent  == [type |-> "NONE"]
NoSample == [queue_count |-> 0, status |-> "listen"]

(* app_mcan0_owner_get_diagnostics.                                         *)
Snapshot == [status |-> state.last_protocol_status, queue_count |-> state.queue_count,
             drops |-> state.drops]

TypeOK ==
  /\ controller.state \in ChannelState /\ controller.flags \subseteq Flag
  /\ controller.fifo \in Seq(Frame)
  /\ isr \in [active: BOOLEAN, flags: SUBSET Flag, status: ChannelState]
  /\ queue \in Seq(Event) /\ Len(queue) <= QueueLength
  /\ state \in [last_protocol_status: ChannelState, queue_count: 0..QueueLength,
                drops: [Counter -> Nat], invalid_frames: 0..MaxInputs]
  /\ ring \in Seq(Frame) /\ Len(ring) <= RingCapacity
  /\ edges \in Seq(ChannelState) /\ Len(edges) <= EdgeCapacity
  /\ edge_state \in ChannelState
  /\ event \in Event \cup {NoEvent}
  /\ sample \in [queue_count: 0..QueueLength, status: ChannelState]
  /\ usb_queue \in Seq(UsbEvent) /\ Len(usb_queue) <= UsbQueueLength
  /\ latch \in BOOLEAN
  /\ usb \in [negotiated: BOOLEAN, baseline: BOOLEAN, reconcile: BOOLEAN,
              reported: [Counter -> Nat], reported_state: ChannelState,
              channel_state: ChannelState]
  /\ pc \in [Task -> McanPlace \cup UsbPlace]
  /\ pc["mcan"] \in McanPlace /\ pc["usb"] \in UsbPlace

Init ==
  /\ controller = [state |-> "listen", flags |-> {}, fifo |-> <<>>,
                   frames |-> 0, inputs |-> 0]
  /\ isr = NoIsr
  /\ queue = <<>>
  /\ state = [last_protocol_status |-> "listen", queue_count |-> 0,
              drops |-> [c \in Counter |-> 0], invalid_frames |-> 0]
  /\ ring = <<>> /\ edges = <<>> /\ edge_state = "listen"
  /\ event = NoEvent /\ sample = NoSample
  /\ usb_queue = <<>> /\ latch = FALSE
  /\ usb = [negotiated |-> Started, baseline |-> Started, reconcile |-> FALSE,
            reported |-> [c \in Counter |-> 0], reported_state |-> "listen",
            channel_state |-> "listen"]
  /\ diag = Snapshot
  /\ pc = [mcan |-> "receive", usb |-> "top"]
  /\ history = [delivered |-> <<>>, told |-> 0, forgiven |-> 0, lost |-> "never"]
-----------------------------------------------------------------------------
(* If `lost': a step of the controller's state is lost, with an event, with *)
(* an edge, or because its flag was still set from the change before it.    *)
Lose(lost) == history' = [history EXCEPT !.lost = IF lost THEN "since" ELSE @]

(* Both tasks have seen all there is.                                       *)
Quiet ==
  /\ ~isr.active /\ controller.flags = {} /\ queue = <<>> /\ edges = <<>> /\ usb_queue = <<>>
  /\ pc["mcan"] = "receive" /\ pc["usb"] \in {"top", "wait", "wait_1ms"} /\ diag = Snapshot

Session == usb.baseline /\ usb.negotiated
Agrees  == usb.channel_state = controller.state

(* The controller, and the host.                                            *)

FrameArrives ==
  /\ controller.inputs < MaxInputs
  /\ controller' = [controller EXCEPT !.inputs = @ + 1, !.frames = @ + 1,
                                      !.flags = @ \cup {"RX"},
                                      !.fifo = Append(@, controller.frames + 1)]
  /\ UNCHANGED <<isr, mcan, usb_queue, latch, usb, diag, pc, history>>

(* A node that is bus-off recovers to error-active.  Entering or leaving    *)
(* bus-off raises BO, entering or leaving error-passive raises EP.          *)
Change(new) ==
  LET flag == IF "off" \in {new, controller.state} THEN "BO" ELSE "EP"
  IN  /\ controller.inputs < MaxInputs
      /\ new # controller.state
      /\ <<controller.state, new>> \notin {<<"listen", "off">>, <<"off", "passive">>}
      /\ controller' = [controller EXCEPT !.inputs = @ + 1, !.state = new,
                                          !.flags = @ \cup {flag}]
      /\ Lose(flag \in controller.flags \cup isr.flags)
      /\ UNCHANGED <<isr, mcan, usb_queue, latch, usb, diag, pc>>

OtherFault ==
  /\ controller.inputs < MaxInputs
  /\ controller' = [controller EXCEPT !.inputs = @ + 1, !.flags = @ \cup {"OTHER"}]
  /\ UNCHANGED <<isr, mcan, usb_queue, latch, usb, diag, pc, history>>

(* queue_event: an enumeration, or a transfer that holds a HELLO.           *)
UsbInterrupt(type) ==
  /\ controller.inputs < MaxInputs
  /\ controller' = [controller EXCEPT !.inputs = @ + 1]
  /\ usb_queue' = IF Len(usb_queue) < UsbQueueLength THEN Append(usb_queue, type)
                                                     ELSE usb_queue
  /\ UNCHANGED <<isr, mcan, latch, usb, diag, pc, history>>
-----------------------------------------------------------------------------
(* The interrupt.                                                           *)

Rx(frame) == [type |-> "RX", frame |-> frame]

(* Mutant: the queue takes all.                                            *)
KeptAll(seq, n) == seq
Kept(seq, n) == SubSeq(seq, 1, IF Len(seq) < n THEN Len(seq) ELSE n)

(* enqueue_from_isr for each of `events': what fits is queued, the rest is  *)
(* counted.                                                                 *)
EnqueueFromIsr(events, counter) ==
  LET fit == Kept(events, QueueLength - Len(queue))
  IN  /\ queue' = queue \o fit
      /\ state' = [state EXCEPT
                     !.drops[counter] = @ + Len(events) - Len(fit),
                     !.queue_count = IF events = <<>> THEN @ ELSE Len(queue) + Len(fit)]

(* Up to the end of the drain loop.  What arrives while the loop runs is as *)
(* if it had arrived before.                                                *)
IsrEnter ==
  /\ ~isr.active /\ controller.flags # {}
  /\ isr' = [active |-> TRUE, flags |-> controller.flags, status |-> controller.state]
  /\ IF "RX" \in controller.flags
     THEN /\ controller' = [controller EXCEPT !.flags = @ \ {"RX"}, !.fifo = <<>>]
          /\ EnqueueFromIsr([i \in 1..Len(controller.fifo) |-> Rx(controller.fifo[i])],
                            "rx_queue_drops")
     ELSE UNCHANGED <<controller, queue, state>>
  /\ UNCHANGED <<ring, edges, edge_state, event, sample, usb_queue, latch, usb, diag, pc,
                 history>>

(* Mutant: the flag of a frame that arrived meanwhile is cleared too.       *)
ClearAllFlags == Flag
ClearFlags == isr.flags \ {"RX"}

(* The diagnostic event, and the flags.                                     *)
IsrExit ==
  /\ isr.active
  /\ isr' = NoIsr
  /\ EnqueueFromIsr(IF isr.flags \cap Fault # {}
                    THEN <<[type |-> "DIAGNOSTIC", status |-> isr.status]>> ELSE <<>>,
                    "diagnostic_queue_drops")
  /\ Lose(isr.flags \cap Fault # {} /\ Len(queue) = QueueLength)
  /\ controller' = [controller EXCEPT !.flags = @ \ ClearFlags]
  /\ UNCHANGED <<ring, edges, edge_state, event, sample, usb_queue, latch, usb, diag, pc>>
-----------------------------------------------------------------------------
(* Steps of the tasks.                                                      *)

At(task, place)    == ~isr.active /\ pc[task] = place
Goto(task, place)  == pc' = [pc EXCEPT ![task] = place]

(* app_usb_owner_signal_can_rx: test and set the latch, send, and on a full *)
(* queue reset the latch.                                                   *)
SignalReturn == [mcan |-> "count", usb |-> "snapshot"]

SignalCanRx(task) ==
  /\ At(task, "signal")
  /\ latch' = TRUE
  /\ Goto(task, IF latch THEN SignalReturn[task] ELSE "send")
  /\ UNCHANGED <<controller, isr, mcan, usb_queue, usb, diag, history>>

SignalSend(task) ==
  /\ At(task, "send")
  /\ IF Len(usb_queue) < UsbQueueLength
     THEN usb_queue' = Append(usb_queue, "CAN_RX_READY") /\ Goto(task, SignalReturn[task])
     ELSE Goto(task, "unlatch") /\ UNCHANGED usb_queue
  /\ UNCHANGED <<controller, isr, mcan, latch, usb, diag, history>>

SignalFailed(task) ==
  /\ At(task, "unlatch")
  /\ latch' = FALSE
  /\ Goto(task, SignalReturn[task])
  /\ UNCHANGED <<controller, isr, mcan, usb_queue, usb, diag, history>>
-----------------------------------------------------------------------------
(* mcan0_owner_task.                                                        *)

usb_side == <<usb_queue, latch, usb, diag>>

Receive ==
  /\ At("mcan", "receive") /\ queue # <<>>
  /\ event' = Head(queue) /\ queue' = Tail(queue)
  /\ Goto("mcan", IF event'.type = "RX" THEN "publish" ELSE "capture")
  /\ UNCHANGED <<controller, isr, state, ring, edges, edge_state, sample, usb_side, history>>

IdlePoll ==
  /\ At("mcan", "receive") /\ queue = <<>>
  /\ Goto("mcan", "refresh")
  /\ UNCHANGED <<controller, isr, mcan, usb_side, history>>

PublishRx ==
  /\ At("mcan", "publish")
  /\ IF event.frame \in LongFrames
     THEN /\ state' = [state EXCEPT !.invalid_frames = @ + 1]
          /\ Goto("mcan", "count") /\ UNCHANGED ring
     ELSE IF Len(ring) < RingCapacity
     THEN /\ ring' = Append(ring, event.frame)
          /\ Goto("mcan", "signal") /\ UNCHANGED state
     ELSE /\ state' = [state EXCEPT !.drops["ring_drops"] = @ + 1]
          /\ Goto("mcan", "count") /\ UNCHANGED ring
  /\ UNCHANGED <<controller, isr, queue, edges, edge_state, event, sample, usb_side, history>>

CaptureDiagnostics ==
  /\ At("mcan", "capture")
  /\ state' = [state EXCEPT !.last_protocol_status = event.status]
  /\ Goto("mcan", "edge")
  /\ UNCHANGED <<controller, isr, queue, ring, edges, edge_state, event, sample, usb_side,
                 history>>

(* Mutant: the state of the last edge is not kept.                          *)
KeepEdgeState == edge_state
NewEdgeState == event.status

PublishStateEdge ==
  /\ At("mcan", "edge")
  /\ IF event.status = edge_state THEN UNCHANGED <<state, edges, history>>
     ELSE IF Len(edges) < EdgeCapacity
     THEN edges' = Append(edges, event.status) /\ UNCHANGED <<state, history>>
     ELSE /\ state' = [state EXCEPT !.drops["state_edge_drops"] = @ + 1]
          /\ Lose(TRUE)
          /\ UNCHANGED edges
  /\ edge_state' = NewEdgeState
  /\ Goto("mcan", "count")
  /\ UNCHANGED <<controller, isr, queue, ring, event, sample, usb_side>>

CountQueue ==
  /\ At("mcan", "count")
  /\ state' = [state EXCEPT !.queue_count = Len(queue)]
  /\ event' = NoEvent
  /\ Goto("mcan", "refresh")
  /\ UNCHANGED <<controller, isr, queue, ring, edges, edge_state, sample, usb_side, history>>

(* refresh_live_diagnostics: two reads, then one critical section.          *)
Refresh ==
  /\ \/ /\ At("mcan", "refresh") /\ Goto("mcan", "refresh_status")
        /\ sample' = [sample EXCEPT !.queue_count = Len(queue)] /\ UNCHANGED state
     \/ /\ At("mcan", "refresh_status") /\ Goto("mcan", "refresh_store")
        /\ sample' = [sample EXCEPT !.status = controller.state] /\ UNCHANGED state
     \/ /\ At("mcan", "refresh_store") /\ Goto("mcan", "receive")
        /\ state' = [state EXCEPT !.last_protocol_status = sample.status,
                                  !.queue_count = sample.queue_count]
        /\ sample' = NoSample
  /\ UNCHANGED <<controller, isr, queue, ring, edges, edge_state, event, usb_side, history>>

McanTask ==
  \/ Receive \/ IdlePoll \/ PublishRx \/ CaptureDiagnostics \/ PublishStateEdge
  \/ CountQueue \/ Refresh
  \/ SignalCanRx("mcan") \/ SignalSend("mcan") \/ SignalFailed("mcan")
-----------------------------------------------------------------------------
(* usb_owner_task, as far as the CAN channel goes.                          *)

(* The wait is 1 ms while the ring holds frames, else 100 ms.               *)
ChooseWait ==
  /\ At("usb", "top")
  /\ Goto("usb", IF ring = <<>> THEN "wait" ELSE "wait_1ms")
  /\ history' = IF Quiet /\ Session /\ Agrees /\ history.lost = "since"
                THEN [history EXCEPT !.lost = "settled"] ELSE history
  /\ UNCHANGED <<controller, isr, mcan, usb_queue, latch, usb, diag>>

(* Either wait ends by an event or by its time.  CAN_RX_READY is only a wake*)
(* hint; RESET stands for all that leads to reset_protocol_session.         *)
Wake ==
  /\ At("usb", "wait") \/ At("usb", "wait_1ms")
  /\ IF usb_queue = <<>> THEN UNCHANGED <<usb_queue, usb>>
     ELSE /\ usb_queue' = Tail(usb_queue)
          /\ usb' = CASE Head(usb_queue) = "CAN_RX_READY" -> usb
                      [] Head(usb_queue) = "HELLO" -> [usb EXCEPT !.negotiated = TRUE]
                      [] Head(usb_queue) = "RESET" ->
                           [usb EXCEPT !.negotiated = FALSE, !.baseline = FALSE,
                                       !.reconcile = FALSE, !.channel_state = "listen"]
  /\ Goto("usb", "pop")
  /\ UNCHANGED <<controller, isr, mcan, latch, diag, history>>

(* publish_mcan_rx: each frame goes to the session.                         *)
PopRx ==
  /\ At("usb", "pop")
  /\ IF ring = <<>>
     THEN Goto("usb", "drained") /\ UNCHANGED <<ring, history>>
     ELSE /\ ring' = Tail(ring)
          /\ history' = [history EXCEPT !.delivered = Append(@, Head(ring))]
          /\ UNCHANGED pc
  /\ UNCHANGED <<controller, isr, queue, state, edges, edge_state, event, sample, usb_queue,
                 latch, usb, diag>>

(* Mutant: no second look at the ring after the latch is cleared.           *)
AfterClear == "snapshot"
Recheck == "recheck"

(* complete_can_rx_drain.                                                   *)
CompleteDrain ==
  /\ \/ At("usb", "drained") /\ latch' = FALSE /\ Goto("usb", Recheck)
     \/ /\ At("usb", "recheck") /\ UNCHANGED latch
        /\ Goto("usb", IF ring = <<>> THEN "snapshot" ELSE "signal")
  /\ UNCHANGED <<controller, isr, mcan, usb_queue, usb, diag, history>>

TakeSnapshot ==
  /\ At("usb", "snapshot")
  /\ diag' = Snapshot
  /\ Goto("usb", "edges")
  /\ UNCHANGED <<controller, isr, mcan, usb_queue, latch, usb, history>>

(* An edge goes to the session; without one it is thrown away.              *)
PopEdge ==
  /\ At("usb", "edges") /\ edges # <<>>
  /\ edges' = Tail(edges)
  /\ IF Session
     THEN /\ usb' = [usb EXCEPT
                       !.channel_state = IF Head(edges) # usb.reported_state
                                         THEN Head(edges) ELSE @,
                       !.reported_state = Head(edges)]
          /\ UNCHANGED history
     ELSE /\ Lose(Head(edges) # diag.status)
          /\ UNCHANGED usb
  /\ UNCHANGED <<controller, isr, queue, state, ring, edge_state, event, sample, usb_queue,
                 latch, diag, pc>>

(* Mutant: the losses are marked as told from the live counters.            *)
LiveDrops == state.drops
ReportedDrops == diag.drops

New(counter) == diag.drops[counter] - usb.reported[counter]
NewFrameDrops == New("rx_queue_drops") + New("ring_drops")

(* The baseline of a new session: nothing of the past is told.              *)
Baseline ==
  /\ At("usb", "edges") /\ edges = <<>> /\ ~Session
  /\ usb' = [usb EXCEPT !.baseline = TRUE, !.reconcile = FALSE, !.reported = ReportedDrops,
                        !.reported_state = diag.status, !.channel_state = diag.status]
  /\ history' = [history EXCEPT !.forgiven = @ + NewFrameDrops]
  /\ Goto("usb", "top")
  /\ UNCHANGED <<controller, isr, mcan, usb_queue, latch, diag>>

(* The rest of publish_mcan_diagnostic_edges: after a loss of diagnostics   *)
(* the state comes from the snapshot, once it shows an empty queue; lost    *)
(* frames are told.                                                         *)
PublishLosses ==
  /\ At("usb", "edges") /\ edges = <<>> /\ Session
  /\ LET pending == usb.reconcile \/ New("diagnostic_queue_drops") # 0
                                  \/ New("state_edge_drops") # 0
         now     == pending /\ diag.queue_count = 0
     IN  usb' = [usb EXCEPT
                   !.reconcile = pending /\ ~now, !.reported = ReportedDrops,
                   !.channel_state = IF now /\ diag.status # usb.reported_state
                                     THEN diag.status ELSE @,
                   !.reported_state = IF now THEN diag.status ELSE @]
  /\ history' = [history EXCEPT !.told = @ + NewFrameDrops]
  /\ Goto("usb", "top")
  /\ UNCHANGED <<controller, isr, mcan, usb_queue, latch, diag>>

UsbTask ==
  \/ ChooseWait \/ Wake \/ PopRx \/ CompleteDrain
  \/ SignalCanRx("usb") \/ SignalSend("usb") \/ SignalFailed("usb")
  \/ TakeSnapshot \/ PopEdge \/ Baseline \/ PublishLosses
-----------------------------------------------------------------------------
Next ==
  \/ FrameArrives \/ OtherFault
  \/ \E new \in ChannelState : Change(new)
  \/ \E type \in {"RESET", "HELLO"} : UsbInterrupt(type)
  \/ IsrEnter \/ IsrExit
  \/ McanTask \/ UsbTask

Spec == Init /\ [][Next]_vars

(* The interrupt is taken, and the scheduler shares the processor between   *)
(* two tasks of one priority.                                               *)
FairSpec == Spec /\ WF_vars(IsrEnter \/ IsrExit) /\ WF_vars(McanTask) /\ WF_vars(UsbTask)
-----------------------------------------------------------------------------
(* Properties.                                                              *)

(* Frames between the controller and the session, oldest first, with a 0    *)
(* for each diagnostic event that waits among them.                         *)
QueuedFrames ==
  [i \in 1..Len(queue) |-> IF queue[i].type = "RX" THEN queue[i].frame ELSE 0]

Path ==
  history.delivered \o ring \o (IF pc["mcan"] = "publish" THEN <<event.frame>> ELSE <<>>)
    \o QueuedFrames \o controller.fifo

FrameIndexes(path) == {i \in 1..Len(path) : path[i] # 0}
Ordered(path) == \A i, j \in FrameIndexes(path) : i < j => path[i] < path[j]

(* Through FIFO, event queue and ring no frame is doubled or overtaken, and *)
(* each one that is gone is told to the session as lost exactly once,       *)
(* forgiven by the baseline of a new session, still in a counter nobody has *)
(* reported, or counted as invalid.                                         *)
FramesAccounted ==
  /\ Ordered(Path)
  /\ Cardinality(FrameIndexes(Path)) + state.invalid_frames + history.told + history.forgiven
       + (state.drops["rx_queue_drops"] - usb.reported["rx_queue_drops"])
       + (state.drops["ring_drops"] - usb.reported["ring_drops"]) = controller.frames

(* The drain/clear/recheck handshake of the wake latch: the USB task never  *)
(* waits, for 100 ms or for 1, with frames in the ring, nothing in its queue*)
(* and no signal on its way; nor do frames sit in the FIFO with no interrupt*)
(* to come.                                                                 *)
NoLostWakeup ==
  /\ pc["usb"] \in {"wait", "wait_1ms"} /\ ring # <<>> /\ usb_queue = <<>>
       => pc["mcan"] \in {"signal", "send"}
  /\ controller.fifo # <<>> => "RX" \in controller.flags \/ isr.active

(* What the hardware and the interrupt produce is all consumed.             *)
Settles ==
  <>[](controller.fifo = <<>> /\ queue = <<>> /\ ring = <<>> /\ edges = <<>> /\ usb_queue = <<>>)

(* The session's channel state is the controller's whenever all is quiet,  *)
(* if no diagnostic event or edge was lost and the interrupt saw each change*)
(* apart: neither the dropping of repeated states, nor the refreshed        *)
(* snapshot, nor a baseline taken in between leaves it behind.              *)
EdgesReachSession == Quiet /\ Session /\ history.lost = "never" => Agrees

(* "Transient error-passive, bus-off and recovery edges continue to be      *)
(* delivered by CHANNEL_STATE": from a quiet moment at which the session    *)
(* agrees with the controller, it follows the controller until something is *)
(* lost, also when it came to agree by reconciling after an earlier loss.   *)
StaysSettled == Quiet /\ Session /\ history.lost # "since" => Agrees
=============================================================================
