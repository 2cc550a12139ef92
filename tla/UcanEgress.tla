----------------------------- MODULE UcanEgress -----------------------------
(***************************************************************************)
(* The asynchronous (device-to-host) side of one negotiated session of     *)
(* protocol/v1/c/ucan_session.c: the event sequence counter, the two       *)
(* critical rings, the data ring, the DATA_LOSS accumulators, the pending  *)
(* CHANNEL_STATE FIFO, the delivery of CAN_TX_RESULT and FLOW_CONTROL, and *)
(* ucan_session_dequeue, which the USB task calls for the next frame.      *)
(*                                                                         *)
(* All of it runs in the USB owner task, so each entry point is one step.  *)
(* Sequence numbers are unbounded here: their wrap from 2^32 - 1 to 1 is   *)
(* left out.  The loops over `count' in note_rx_ring_loss and              *)
(* note_event_queue_loss are one step per iteration.                       *)
(***************************************************************************)
EXTENDS Integers, Sequences, FiniteSets

CONSTANTS
  CriticalCap,   \* UCAN_QUEUE_CRITICAL_CAP, of each of the two critical rings
  DataCap,       \* UCAN_QUEUE_DATA_CAP
  StateCap,      \* UCAN_PENDING_CHANNEL_STATE_CAP
  NAcc,          \* number of loss accumulators (4 in ucan_session_t)
  NSlots,        \* UCAN_SESSION_MAX_TX_SLOTS
  RxBudget,      \* bound: calls that report a batch, a frame or a loss
  ControlBudget  \* bound: calls that report a result, an edge or pressure

ASSUME EgressAssumption ==
  /\ CriticalCap \in Nat \ {0}
  /\ DataCap \in Nat \ {0}
  /\ StateCap \in Nat \ {0}
  /\ NAcc \in Nat \ {0}
  /\ NSlots \in Nat \ {0}
  /\ RxBudget \in Nat
  /\ ControlBudget \in Nat

VARIABLES
  q_critical,              \* the primary critical ring
  q_critical_pending,      \* the overflow critical ring behind it
  q_data,                  \* CAN_RX_BATCH frames
  q_pending_channel_state, \* channel-state edges waiting for a critical slot
  device_event_sequence,   \* last event sequence allocated
  loss,                    \* the loss accumulators
  delivery_pending,        \* per TX slot: the final result it still owes, or 0
  flow_control_pending,
  config_generation,
  next_channel_sequence,   \* last channel sequence given to a received frame
  (* history and bounds, not in the program: *)
  finals,                  \* final TX results so far
  edges,                   \* channel-state edges reported so far
  unrecorded,              \* dropped event sequences no accumulator took
  host,                    \* what a host that reads every frame knows
  rx_budget,               \* calls left
  control_budget

vars == <<q_critical, q_critical_pending, q_data, q_pending_channel_state,
          device_event_sequence, loss, delivery_pending, flow_control_pending,
          config_generation, next_channel_sequence, finals, edges, unrecorded,
          host, rx_budget, control_budget>>
-----------------------------------------------------------------------------
Acc   == 1..NAcc
Slots == 1..NSlots

(* The loss keys of a one-channel device: source, domain and reason.        *)
EventKey == {"usb_data_overflow", "usb_data_admission", "usb_event_overflow"}
Key      == EventKey \cup {"can_ring"}

Kind == {"rx_batch", "event_loss", "ring_loss", "tx_result",
         "channel_state", "flow_control"}

(* A queued frame.  first..last is the dropped range of a loss notice, and  *)
(* the ordinal (twice) of the result or the edge that another frame carries.*)
Frame   == [kind: Kind, seq: Nat, first: Nat, last: Nat]
LossAcc == [key: Key, generation: Nat, first: Nat, last: Nat]
Free    == [key |-> "free"]

(* A host sees the last event sequence, the sequences it skipped and was    *)
(* not yet told of by a loss notice, the results and the latest edge.       *)
Host == [last: Nat, missing: SUBSET Nat, results: SUBSET Nat, edge: Nat]

TypeOK ==
  /\ q_critical \in Seq(Frame)
  /\ q_critical_pending \in Seq(Frame)
  /\ q_data \in Seq(Frame)
  /\ q_pending_channel_state \in Seq(Nat)
  /\ Len(q_critical) <= CriticalCap
  /\ Len(q_critical_pending) <= CriticalCap
  /\ Len(q_data) <= DataCap
  /\ Len(q_pending_channel_state) <= StateCap
  /\ device_event_sequence \in Nat
  /\ loss \in [Acc -> LossAcc \cup {Free}]
  /\ delivery_pending \in [Slots -> Nat]
  /\ flow_control_pending \in BOOLEAN
  /\ config_generation \in Nat
  /\ next_channel_sequence \in Nat
  /\ finals \in Nat
  /\ edges \in Nat
  /\ unrecorded \in SUBSET Nat
  /\ host \in Host
  /\ rx_budget \in 0..RxBudget
  /\ control_budget \in 0..ControlBudget

Init ==
  /\ q_critical = <<>>
  /\ q_critical_pending = <<>>
  /\ q_data = <<>>
  /\ q_pending_channel_state = <<>>
  /\ device_event_sequence = 0
  /\ loss = [a \in Acc |-> Free]
  /\ delivery_pending = [i \in Slots |-> 0]
  /\ flow_control_pending = FALSE
  /\ config_generation = 1
  /\ next_channel_sequence = 0
  /\ finals = 0
  /\ edges = 0
  /\ unrecorded = {}
  /\ host = [last |-> 0, missing |-> {}, results |-> {}, edge |-> 0]
  /\ rx_budget = RxBudget
  /\ control_budget = ControlBudget
-----------------------------------------------------------------------------
(* Helpers.                                                                 *)

Lesser(a, b)  == IF a <= b THEN a ELSE b
Greater(a, b) == IF a >= b THEN a ELSE b

(* The frames a batch of emissions wants to send, sequence not yet given.   *)
LossNotice(acc) ==
  [kind |-> IF acc.key \in EventKey THEN "event_loss" ELSE "ring_loss",
   seq |-> 0, first |-> acc.first, last |-> acc.last]
TxResult(n)     == [kind |-> "tx_result", seq |-> 0, first |-> n, last |-> n]
ChannelState(n) == [kind |-> "channel_state", seq |-> 0, first |-> n, last |-> n]
FlowControl     == [kind |-> "flow_control", seq |-> 0, first |-> 0, last |-> 0]

(* The loops over accumulators and slots visit them by index: the only      *)
(* member of Ascending(S) lists the indices of S in that order.             *)
Ascending(S) ==
  {f \in [1..Cardinality(S) -> S] :
     \A i, j \in 1..Cardinality(S) : i < j => f[i] < f[j]}

(* Mutant: the flush forgets the results.                                   *)
OwingForgotten == {}

Occupied == {a \in Acc : loss[a] # Free}
Owing    == {i \in Slots : delivery_pending[i] # 0}

(* critical_capacity_available says whether this is positive.               *)
CriticalRoom == 2 * CriticalCap - Len(q_critical) - Len(q_critical_pending)

(* alloc_event_sequence for each frame that gets a place, counting from     *)
(* `base'.                                                                  *)
Stamped(due, n, base) == [k \in 1..n |-> [due[k] EXCEPT !.seq = base + k]]

(* Both rings hold one FIFO, cut after its first `cut' frames.              *)
Rings(fifo, cut) == [primary |-> SubSeq(fifo, 1, cut),
                     pending |-> SubSeq(fifo, cut + 1, Len(fifo))]

(* Mutant: a frame takes a free primary place ahead of waiting frames.      *)
EnqueueAhead(frames) ==
  LET k == Lesser(CriticalCap - Len(q_critical), Len(frames))
  IN  [primary |-> q_critical \o SubSeq(frames, 1, k),
       pending |-> q_critical_pending \o SubSeq(frames, k + 1, Len(frames))]

(* Mutant: the full overflow ring hands nothing on and grows.               *)
EnqueueBehind(frames) ==
  Rings(q_critical \o q_critical_pending \o frames,
        IF q_critical_pending = <<>>
        THEN Lesser(CriticalCap, Len(q_critical) + Len(frames))
        ELSE Len(q_critical))

(* enqueue_critical for frames in turn: while the overflow ring is empty    *)
(* they fill the primary; once it is not they queue behind it, and only a   *)
(* full overflow ring hands its head to the primary.                        *)
EnqueueCritical(frames) ==
  Rings(q_critical \o q_critical_pending \o frames,
        IF q_critical_pending = <<>>
        THEN Lesser(CriticalCap, Len(q_critical) + Len(frames))
        ELSE Len(q_critical) +
             Greater(0, Len(q_critical_pending) + Len(frames) - CriticalCap))

(* How many frames of `due' are admitted.  A sequence is allocated only     *)
(* when a place is sure, so the frames left over burn none.                 *)
Admitted(due) == Lesser(Len(due), CriticalRoom)

Emit(due, base) ==
  LET n     == Admitted(due)
      rings == EnqueueCritical(Stamped(due, n, base))
  IN  /\ q_critical' = rings.primary
      /\ q_critical_pending' = rings.pending
      /\ device_event_sequence' = base + n

SpendRx == /\ rx_budget > 0 /\ rx_budget' = rx_budget - 1
           /\ UNCHANGED control_budget
SpendControl == /\ control_budget > 0 /\ control_budget' = control_budget - 1
                /\ UNCHANGED rx_budget
-----------------------------------------------------------------------------
(* Losses: accumulate_loss.                                                 *)

Matching(key) ==
  {a \in Occupied : loss[a].key = key /\ loss[a].generation = config_generation}

Notices(order) == [k \in 1..Len(order) |-> LossNotice(loss[order[k]])]

(* Mutant: every range is cleared, its notice sent or not.                  *)
FreedAlways(order, n) ==
  [a \in Acc |-> IF \E k \in 1..Len(order) : order[k] = a THEN Free ELSE loss[a]]

(* flush_loss_notice frees an accumulator once its notice is admitted.      *)
Freed(order, n) ==
  [a \in Acc |-> IF \E k \in 1..n : order[k] = a THEN Free ELSE loss[a]]

(* A sequence that continues a range of its key extends it; the ranges of   *)
(* that key met before are sent.                                            *)
ExtendRange(key, s, base) ==
  \E a \in Matching(key) :
    /\ loss[a].last + 1 = s
    /\ \E order \in Ascending({b \in Matching(key) : b < a}) :
         /\ \A k \in 1..Len(order) : loss[order[k]].last + 1 # s
         /\ Emit(Notices(order), base)
         /\ loss' = [Freed(order, Admitted(Notices(order)))
                       EXCEPT ![a].last = s]
    /\ UNCHANGED unrecorded

(* Any other one sends every range of its key and opens a range of its own, *)
(* if an accumulator is free.                                               *)
OpenRange(key, s, base) ==
  /\ \A a \in Matching(key) : loss[a].last + 1 # s
  /\ \E order \in Ascending(Matching(key)) :
       LET left == Freed(order, Admitted(Notices(order)))
       IN  /\ Emit(Notices(order), base)
           /\ \/ \E a \in Acc :
                    /\ left[a] = Free
                    /\ \A b \in 1..a - 1 : left[b] # Free
                    /\ loss' = [left EXCEPT ![a] =
                                  [key |-> key, generation |-> config_generation,
                                   first |-> s, last |-> s]]
                    /\ UNCHANGED unrecorded
              \/ /\ \A a \in Acc : left[a] # Free
                 /\ loss' = left
                 /\ unrecorded' = IF key \in EventKey THEN unrecorded \cup {s}
                                                      ELSE unrecorded

AccumulateLoss(key, s, base) == ExtendRange(key, s, base) \/ OpenRange(key, s, base)
-----------------------------------------------------------------------------
(* Inputs to the session.                                                   *)

(* ucan_session_emit_rx_batch_records_at with valid records and capture on: *)
(* the batch fits the negotiated message size or not, the ring has room or  *)
(* not.                                                                     *)
EmitRxBatch(fits) ==
  LET s == device_event_sequence + 1
  IN  /\ SpendRx
      /\ IF fits /\ Len(q_data) < DataCap
         THEN /\ q_data' = Append(q_data, [kind |-> "rx_batch", seq |-> s,
                                           first |-> 0, last |-> 0])
              /\ device_event_sequence' = s
              /\ UNCHANGED <<q_critical, q_critical_pending, loss, unrecorded>>
         ELSE /\ AccumulateLoss(IF fits THEN "usb_data_overflow"
                                        ELSE "usb_data_admission", s, s)
              /\ UNCHANGED q_data
      /\ UNCHANGED <<q_pending_channel_state, delivery_pending, finals, edges,
                     flow_control_pending, config_generation, next_channel_sequence,
                     host>>

(* One iteration of ucan_session_note_event_queue_loss.                     *)
NoteEventQueueLoss ==
  LET s == device_event_sequence + 1
  IN  /\ SpendRx
      /\ AccumulateLoss("usb_event_overflow", s, s)
      /\ UNCHANGED <<q_data, q_pending_channel_state, delivery_pending, finals,
                     edges, flow_control_pending, config_generation, next_channel_sequence,
                     host>>

(* ucan_session_on_rx past capture and filters: the frame gets its channel  *)
(* sequence before ring admission; without room that sequence is lost.      *)
OnRx(room) ==
  LET s == next_channel_sequence + 1
  IN  /\ SpendRx
      /\ next_channel_sequence' = s
      /\ IF room THEN UNCHANGED <<q_critical, q_critical_pending,
                                  device_event_sequence, loss, unrecorded>>
                 ELSE AccumulateLoss("can_ring", s, device_event_sequence)
      /\ UNCHANGED <<q_data, q_pending_channel_state, delivery_pending, finals, edges,
                     flow_control_pending, config_generation, host>>

(* One iteration of ucan_session_note_rx_ring_loss.                         *)
NoteRxRingLoss == OnRx(FALSE)

(* emit_can_tx_result for the slots in `order', which become FINAL.         *)
Results(order) == [k \in 1..Len(order) |-> TxResult(finals + k)]

(* Mutant: a result without a place is forgotten.                           *)
OweNothing(order, n) == delivery_pending

Owe(order, n) ==
  [i \in Slots |->
     IF \E k \in n + 1..Len(order) : order[k] = i
     THEN finals + (CHOOSE k \in n + 1..Len(order) : order[k] = i)
     ELSE delivery_pending[i]]

(* The slots become FINAL, by index.  A slot that still owes a result is    *)
(* not reclaimed, so it is never PENDING.                                   *)
FinalizeSlots(slots) ==
  /\ SpendControl
  /\ \E order \in Ascending(slots) :
       /\ Emit(Results(order), device_event_sequence)
       /\ delivery_pending' = Owe(order, Admitted(Results(order)))
       /\ finals' = finals + Len(order)
  /\ UNCHANGED <<q_data, q_pending_channel_state, loss, unrecorded, edges,
                 flow_control_pending, next_channel_sequence, host>>

(* can_tx_complete and CAN_TX_CANCEL (one slot), the expiry branch of tick  *)
(* (every PENDING slot).                                                    *)
FinalizeTx(slots) == FinalizeSlots(slots) /\ UNCHANGED config_generation

(* Past their checks, SET_FILTERS, CLEAR_FILTERS and TX_DISARM disarm; they,*)
(* START_CAPTURE, STOP_CAPTURE and TX_ARM (no slots) begin a generation, so *)
(* that a range of losses begun before is not continued.                    *)
Reconfigure(slots) == FinalizeSlots(slots) /\ config_generation' = config_generation + 1

(* Mutant: an edge is sent whenever it can be, past the edges that wait.    *)
OvertakingEdge == <<ChannelState(edges + 1)>>

EdgeToSend == IF q_pending_channel_state = <<>> THEN <<ChannelState(edges + 1)>>
                                               ELSE <<>>

(* persist_channel_state, after disarm_tx made `slots' FINAL: an edge that  *)
(* cannot be sent, or finds others waiting, joins the FIFO if that has room.*)
PersistChannelState(slots) ==
  /\ SpendControl
  /\ \E order \in Ascending(slots) :
       LET due  == Results(order) \o EdgeToSend
           sent == EdgeToSend # <<>> /\ Admitted(due) = Len(due)
       IN  /\ Emit(due, device_event_sequence)
           /\ delivery_pending' = Owe(order, Admitted(due))
           /\ finals' = finals + Len(order)
           /\ q_pending_channel_state' =
                IF sent \/ Len(q_pending_channel_state) >= StateCap
                THEN q_pending_channel_state
                ELSE Append(q_pending_channel_state, edges + 1)
  /\ edges' = edges + 1
  /\ UNCHANGED <<q_data, loss, unrecorded, flow_control_pending,
                 next_channel_sequence, host>>

(* ucan_session_note_channel_state; bus-off disarms first.                  *)
NoteChannelState(slots) ==
  PersistChannelState(slots) /\ UNCHANGED config_generation

(* CONFIG_CHANNEL past its checks: disarm, new generation, CONFIG_APPLIED.  *)
ConfigChannel(slots) ==
  PersistChannelState(slots) /\ config_generation' = config_generation + 1

(* ucan_session_poll_flow_control: under pressure, when the rate limit (any *)
(* time here) allows, or to retry.                                          *)
PollFlowControl ==
  /\ SpendControl
  /\ \/ flow_control_pending
     \/ (Len(q_critical) + Len(q_critical_pending)) * 4 >= 2 * CriticalCap * 3
     \/ Len(q_data) * 4 >= DataCap * 3
  /\ Emit(<<FlowControl>>, device_event_sequence)
  /\ flow_control_pending' = (CriticalRoom = 0)
  /\ UNCHANGED <<q_data, q_pending_channel_state, loss, delivery_pending, finals,
                 edges, unrecorded, config_generation, next_channel_sequence, host>>
-----------------------------------------------------------------------------
(* flush_pending: refill the primary ring from the overflow ring; if that   *)
(* leaves room, admit what waits: loss notices, results, edges, flow        *)
(* control, in that order and as far as the rings go.                       *)
FlushResult(accs, slots) ==
  LET edgeFrames == [k \in 1..Len(q_pending_channel_state) |->
                       ChannelState(q_pending_channel_state[k])]
      due   == Notices(accs)
                 \o [k \in 1..Len(slots) |-> TxResult(delivery_pending[slots[k]])]
                 \o edgeFrames
                 \o IF flow_control_pending THEN <<FlowControl>> ELSE <<>>
      held  == Len(q_critical) + Len(q_critical_pending)
      n     == IF held >= CriticalCap THEN 0 ELSE Admitted(due)
      fifo  == q_critical \o q_critical_pending
                 \o Stamped(due, n, device_event_sequence)
      (* how many frames of a group of `size' that starts after `before' got in *)
      share(before, size) == Lesser(size, Greater(0, n - before))
      edgesBefore == Len(accs) + Len(slots)
      edgesIn     == share(edgesBefore, Len(edgeFrames))
  IN  [rings   |-> Rings(fifo, Lesser(CriticalCap, Len(fifo))),
       seq     |-> device_event_sequence + n,
       loss    |-> Freed(accs, share(0, Len(accs))),
       owed    |-> [i \in Slots |->
                      IF \E k \in 1..share(Len(accs), Len(slots)) : slots[k] = i
                      THEN 0 ELSE delivery_pending[i]],
       edges   |-> SubSeq(q_pending_channel_state, edgesIn + 1, Len(edgeFrames)),
       flow    |-> flow_control_pending /\ n < Len(due)]

HostReceives(frame) ==
  [last    |-> frame.seq,
   missing |-> (host.missing \cup (host.last + 1 .. frame.seq - 1)) \
                 (IF frame.kind = "event_loss" THEN frame.first..frame.last ELSE {}),
   results |-> IF frame.kind = "tx_result" THEN host.results \cup {frame.first}
                                           ELSE host.results,
   edge    |-> IF frame.kind = "channel_state" THEN frame.first ELSE host.edge]

(* Mutant: critical frames first, the priority of an earlier protocol draft.*)
CriticalFirst(critical) == critical # <<>>

(* Critical and data frames share one sequence domain: the older goes first.*)
TakesCritical(critical) ==
  /\ critical # <<>>
  /\ q_data # <<>> => critical[1].seq < q_data[1].seq

(* ucan_session_dequeue: flush, then the older of the two ring heads, if it *)
(* fits the caller's buffer.                                                *)
Dequeue(fits) ==
  /\ \E accs \in Ascending(Occupied), slots \in Ascending(Owing) :
       LET flush    == FlushResult(accs, slots)
           critical == flush.rings.primary
       IN  /\ device_event_sequence' = flush.seq
           /\ q_critical_pending' = flush.rings.pending
           /\ loss' = flush.loss
           /\ delivery_pending' = flush.owed
           /\ q_pending_channel_state' = flush.edges
           /\ flow_control_pending' = flush.flow
           /\ \/ /\ fits /\ TakesCritical(critical)
                 /\ q_critical' = Tail(critical)
                 /\ host' = HostReceives(critical[1])
                 /\ UNCHANGED q_data
              \/ /\ fits /\ ~TakesCritical(critical) /\ q_data # <<>>
                 /\ q_data' = Tail(q_data)
                 /\ host' = HostReceives(q_data[1])
                 /\ q_critical' = critical
              \/ /\ ~fits \/ (critical = <<>> /\ q_data = <<>>)
                 /\ q_critical' = critical
                 /\ UNCHANGED <<q_data, host>>
  /\ UNCHANGED <<config_generation, next_channel_sequence, finals, edges,
                 unrecorded, rx_budget, control_budget>>
-----------------------------------------------------------------------------
Quiet == Slots \ Owing

Next ==
  \/ \E fits \in BOOLEAN : EmitRxBatch(fits)
  \/ NoteEventQueueLoss
  \/ OnRx(TRUE)
  \/ NoteRxRingLoss
  \/ \E slots \in SUBSET Quiet : slots # {} /\ FinalizeTx(slots)
  \/ \E slots \in SUBSET Quiet : Reconfigure(slots)
  \/ \E slots \in SUBSET Quiet : NoteChannelState(slots)
  \/ \E slots \in SUBSET Quiet : ConfigChannel(slots)
  \/ PollFlowControl
  \/ \E fits \in BOOLEAN : Dequeue(fits)

Spec == Init /\ [][Next]_vars

(* start_next_in_transfer asks for the next frame after every completed     *)
(* transfer, with a buffer that takes any frame when it is empty.           *)
FairSpec == Spec /\ WF_vars(Dequeue(TRUE))
-----------------------------------------------------------------------------
(* Properties.                                                              *)

(* The critical rings as the one FIFO they are meant to be.                 *)
Critical == q_critical \o q_critical_pending

Increasing(frames) ==
  \A i, j \in 1..Len(frames) : i < j => frames[i].seq < frames[j].seq

(* A queue whose frames are in event order, above lo and up to hi.          *)
Within(frames, lo, hi) ==
  /\ Increasing(frames)
  /\ \A i \in 1..Len(frames) : lo < frames[i].seq /\ frames[i].seq <= hi

(* Each queue holds its frames in event order, all newer than what the host *)
(* has seen, and no sequence is in both, so that comparing two heads in     *)
(* ucan_session_dequeue finds the oldest frame of all.                      *)
EventOrder ==
  /\ host.last <= device_event_sequence
  /\ Within(Critical, host.last, device_event_sequence)
  /\ Within(q_data, host.last, device_event_sequence)
  /\ \A i \in 1..Len(Critical), j \in 1..Len(q_data) : Critical[i].seq # q_data[j].seq

(* ucan_session_dequeue never hands out an event after a later one, though  *)
(* three rings, two retry lists and a refill lie between an event's         *)
(* sequence and its delivery.                                               *)
InOrderDelivery == [][host' # host => host'.last > host.last]_vars

SequencesOf(frames) == {frames[i].seq : i \in 1..Len(frames)}

(* The abstract stream, with the three queues as one set.                   *)
Stream == INSTANCE EventStream WITH
            allocated <- device_event_sequence,
            queued    <- SequencesOf(Critical) \cup SequencesOf(q_data),
            last      <- host.last,
            missing   <- host.missing

(* The session implements the stream: whatever is shed, retried and moved   *)
(* between rings, a frame once queued is delivered, the oldest of all first,*)
(* and the host's gaps are only those it saw.                               *)
ImplementsStream == Stream!Spec

(* A sequence the host will not receive as a frame is told exactly once: at *)
(* any time each sequence that is unseen or missing is in one place, a      *)
(* queue, one loss notice, one accumulator or the unrecorded set, and a     *)
(* sequence the host knows about is in none.                                *)
EveryGapExplained ==
  LET queued(s)   == {<<"critical", i>> : i \in {i \in 1..Len(Critical) : Critical[i].seq = s}}
                       \cup {<<"data", i>> : i \in {i \in 1..Len(q_data) : q_data[i].seq = s}}
      notices(s)  == {i \in 1..Len(Critical) : /\ Critical[i].kind = "event_loss"
                                              /\ s \in Critical[i].first..Critical[i].last}
      ranges(s)   == {a \in Occupied : loss[a].key \in EventKey
                                       /\ s \in loss[a].first..loss[a].last}
      places(s)   == Cardinality(queued(s)) + Cardinality(notices(s))
                       + Cardinality(ranges(s)) + Cardinality({s} \cap unrecorded)
  IN  \A s \in 1..device_event_sequence :
        places(s) = IF s > host.last \/ s \in host.missing THEN 1 ELSE 0

(* emit_can_tx_result with its delivery_pending retries delivers every final*)
(* result exactly once: it is owed by one slot, or queued once, or received.*)
ResultExactlyOnce ==
  \A n \in 1..finals :
     Cardinality({i \in Slots : delivery_pending[i] = n})
       + Cardinality({i \in 1..Len(Critical) : /\ Critical[i].kind = "tx_result"
                                               /\ Critical[i].first = n})
       + Cardinality({n} \cap host.results) = 1

(* persist_channel_state: no edge overtakes an earlier one, neither in the  *)
(* rings nor on the way through the pending FIFO.                           *)
EdgeOrder ==
  LET sent == {i \in 1..Len(Critical) : Critical[i].kind = "channel_state"}
      q    == q_pending_channel_state
  IN  /\ \A i, j \in sent : i < j => Critical[i].first < Critical[j].first
      /\ \A i, j \in 1..Len(q) : i < j => q[i] < q[j]
      /\ \A i \in sent, j \in 1..Len(q) : Critical[i].first < q[j]
      /\ \A i \in sent : host.edge < Critical[i].first
      /\ \A j \in 1..Len(q) : host.edge < q[j]

(* Everything owed reaches the host if it keeps reading: the retries of     *)
(* flush_pending lose nothing and never wait for one another.               *)
Drained ==
  <>[](/\ Critical = <<>> /\ q_data = <<>> /\ q_pending_channel_state = <<>>
       /\ Occupied = {} /\ ~flow_control_pending
       /\ \A i \in Slots : delivery_pending[i] = 0)

(* "No accumulator slot: counters still record the drop", "so the loss is   *)
(* never silent": every dropped event sequence is recorded for the host.    *)
EveryLossRecorded == unrecorded = {}
=============================================================================
