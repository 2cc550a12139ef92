------------------------------ MODULE UsbOwner ------------------------------
(***************************************************************************)
(* The transport owner of USER/src/app_usb_owner.c: the USB interrupt      *)
(* handlers, the event queue and the owner task with its bulk OUT, bulk IN *)
(* and zero-length-packet handshakes.  The interrupts (priority 4) preempt *)
(* the task between any two accesses to the state they share, so a task    *)
(* step makes at most one write to that state; the bus and the host are    *)
(* external.  Every request is well formed and gets an answer; what the    *)
(* session does with it is the business of UcanControl, UcanTx and         *)
(* UcanEgress.  CAN_RX_READY, a wake hint, is left out.                    *)
(***************************************************************************)
EXTENDS Integers, Sequences, FiniteSets

CONSTANTS
  QueueLength,      \* APP_USB_OWNER_QUEUE_LENGTH
  MaxChunk,         \* most requests in one bulk OUT transfer
  ConfigureAnytime, \* may CONFIGURED find the task at work?
  Lockstep,         \* does the host wait for all answers before it sends again?
  MaxGeneration,    \* bound: bus resets and disconnects
  MaxRequests,      \* bound: requests the host sends between two resets
  MaxDue            \* bound: event frames that wait in the session

ASSUME UsbAssumption ==
  /\ QueueLength \in Nat \ {0} /\ MaxChunk \in Nat \ {0}
  /\ ConfigureAnytime \in BOOLEAN /\ Lockstep \in BOOLEAN
  /\ MaxGeneration \in Nat /\ MaxRequests \in Nat /\ MaxDue \in Nat

VARIABLES
  usb,       \* g_app_usb_owner_state and the flags the interrupts write
  queue,     \* usb_owner_queue
  (* the task: *)
  pc,        \* what the task does next
  ret,       \* where start_next_in_transfer returns to
  event,     \* the event being processed
  chunk,     \* usb_chunk_length and usb_chunk_offset, in requests
  response,  \* response_pending
  in_buffer, \* usb_in_buffer: the frames in it
  session,   \* ucan_session: its number, and the events it has to send
  (* external: *)
  bus,       \* the USB controller, with usb_transfer_buffer
  host

vars == <<usb, queue, pc, ret, event, chunk, response, in_buffer, session, bus, host>>
-----------------------------------------------------------------------------
Request  == [generation: Nat, n: Nat]
Frame    == [kind: {"answer", "event"}, session: Nat, generation: Nat, n: Nat]
Transfer == {"idle", "zlp", "data", "full"}  \* full: a multiple of the packet size
Event    == [type: {"CONFIGURED", "RX_COMPLETE", "TX_COMPLETE"}, generation: Nat,
             length: 0..MaxChunk, full: BOOLEAN]

TypeOK ==
  /\ usb \in [generation: 0..MaxGeneration, configured: BOOLEAN, out_armed: BOOLEAN,
              in_flight: BOOLEAN, zlp_pending: BOOLEAN, zlp_in_flight: BOOLEAN,
              reset_pending: BOOLEAN]
  /\ queue \in Seq(Event) /\ Len(queue) <= QueueLength
  /\ ret \in {"wait", "dispatch", "arm", "tx_arm"}
  /\ event \in Event
  /\ chunk \in [length: 0..MaxChunk, offset: 0..MaxChunk] /\ chunk.offset <= chunk.length
  /\ response \in BOOLEAN
  /\ in_buffer \in Seq(Frame)
  /\ \A i \in 1..Len(in_buffer) : in_buffer[i].kind = "answer" => Len(in_buffer) = 1
  /\ response => in_buffer # <<>>
  /\ session \in [id: Nat, negotiated: BOOLEAN, due: 0..MaxDue]
  /\ bus \in [open: BOOLEAN, out: BOOLEAN, in: Transfer, data: [1..MaxChunk -> Request]]
  /\ host.handled \in Seq([n: Nat, session: Nat]) /\ host.answers \in Seq(Nat)

Init ==
  /\ usb = [generation |-> 0, configured |-> FALSE, out_armed |-> FALSE,
            in_flight |-> FALSE, zlp_pending |-> FALSE, zlp_in_flight |-> FALSE,
            reset_pending |-> FALSE]
  /\ queue = <<>>
  /\ pc = "wait" /\ ret = "wait"
  /\ event = [type |-> "CONFIGURED", generation |-> 0, length |-> 0, full |-> FALSE]
  /\ chunk = [length |-> 0, offset |-> 0]
  /\ response = FALSE
  /\ in_buffer = <<>>
  /\ session = [id |-> 1, negotiated |-> FALSE, due |-> 0]
  /\ bus = [open |-> FALSE, out |-> FALSE, in |-> "idle",
            data |-> [i \in 1..MaxChunk |-> [generation |-> 0, n |-> 0]]]
  /\ host = [sent |-> 0, floor |-> 0, handled |-> <<>>, answers |-> <<>>,
             stale |-> FALSE, unterminated |-> FALSE]
-----------------------------------------------------------------------------
(* The answers to requests of this bus session among the frames of a buffer:*)
(* at most one, for an answer is alone in its buffer.                       *)
Answers(frames) ==
  IF frames # <<>> /\ frames[1].kind = "answer" /\ frames[1].generation = usb.generation
  THEN <<frames[1].n>> ELSE <<>>

(* queue_event: a full queue drops the event.                               *)
QueueEvent(type, length, full) ==
  queue' = IF Len(queue) < QueueLength
           THEN Append(queue, [type |-> type, generation |-> usb.generation,
                               length |-> length, full |-> full])
           ELSE queue

task == <<pc, ret, event, chunk, response, in_buffer, session>>

(* usb_event_handler, RESET and DISCONNECTED: invalidate_session.  The bus  *)
(* drops its transfers, and the host starts over.                           *)
BusReset ==
  /\ usb.generation < MaxGeneration
  /\ usb' = [generation |-> usb.generation + 1, configured |-> FALSE,
             out_armed |-> FALSE, in_flight |-> FALSE, zlp_pending |-> FALSE,
             zlp_in_flight |-> FALSE, reset_pending |-> TRUE]
  /\ bus' = [bus EXCEPT !.open = FALSE, !.out = FALSE, !.in = "idle"]
  /\ host' = [sent |-> 0, floor |-> session.id, handled |-> <<>>, answers |-> <<>>,
              stale |-> FALSE, unterminated |-> FALSE]
  /\ UNCHANGED <<queue, task>>

(* usb_event_handler, CONFIGURED.  A bus reset and enumeration take tens of *)
(* milliseconds, in which the task goes back to sleep unless it is starved. *)
Configured ==
  /\ ~bus.open
  /\ ConfigureAnytime \/ (pc = "wait" /\ queue = <<>>)
  /\ usb' = [usb EXCEPT !.configured = TRUE]
  /\ bus' = [bus EXCEPT !.open = TRUE]
  /\ QueueEvent("CONFIGURED", 0, FALSE)
  /\ UNCHANGED <<task, host>>

(* usb_out_complete: the host has sent `k' requests.                        *)
UsbOutComplete(k) ==
  /\ bus.out /\ host.sent + k <= MaxRequests
  /\ Lockstep => Len(host.answers) = host.sent
  /\ bus' = [bus EXCEPT !.out = FALSE,
               !.data = [i \in 1..MaxChunk |->
                           IF i <= k THEN [generation |-> usb.generation, n |-> host.sent + i]
                                     ELSE bus.data[i]]]
  /\ host' = [host EXCEPT !.sent = @ + k]
  /\ usb' = [usb EXCEPT !.out_armed = FALSE]
  /\ QueueEvent("RX_COMPLETE", k, FALSE)
  /\ UNCHANGED task

(* usb_in_complete: the host has read what the buffer now holds.            *)
UsbInComplete ==
  /\ bus.in # "idle"
  /\ bus' = [bus EXCEPT !.in = "idle"]
  /\ host' = IF bus.in = "zlp" THEN [host EXCEPT !.unterminated = FALSE]
             ELSE [host EXCEPT
                     !.answers = @ \o Answers(in_buffer),
                     !.stale = @ \/ \E i \in 1..Len(in_buffer) : in_buffer[i].session <= host.floor,
                     !.unterminated = (bus.in = "full")]
  /\ QueueEvent("TX_COMPLETE", 0, bus.in = "full")
  /\ UNCHANGED <<usb, task>>
-----------------------------------------------------------------------------
(* The task.                                                                *)

Receive ==
  /\ pc = "wait" /\ queue # <<>>
  /\ event' = Head(queue) /\ queue' = Tail(queue)
  /\ pc' = "event"
  /\ UNCHANGED <<usb, ret, chunk, response, in_buffer, session, bus, host>>

PollTimeout ==
  /\ pc = "wait" /\ queue = <<>>
  /\ pc' = "reset_check"
  /\ UNCHANGED <<usb, queue, ret, event, chunk, response, in_buffer, session, bus, host>>

(* process_event: stale events are dropped.                                 *)
ProcessEvent ==
  /\ pc = "event"
  /\ pc' = IF event.generation = usb.generation /\ usb.configured
           THEN event.type ELSE "reset_check"
  /\ UNCHANGED <<usb, queue, ret, event, chunk, response, in_buffer, session, bus, host>>

(* reset_protocol_session, up to its last assignment.                       *)
ReinitSession ==
  /\ \/ pc = "CONFIGURED" /\ pc' = "configured_clear"
     \/ pc = "reinit" /\ pc' = "reinit_clear"
  /\ session' = [id |-> session.id + 1, negotiated |-> FALSE, due |-> 0]
  /\ UNCHANGED <<usb, queue, ret, event, chunk, response, in_buffer, bus, host>>

ClearReset == [usb EXCEPT !.reset_pending = FALSE]

ReinitDone ==
  /\ \/ pc = "configured_clear" /\ pc' = "configured"
     \/ pc = "reinit_clear" /\ pc' = "publish"
  /\ usb' = ClearReset
  /\ UNCHANGED <<queue, ret, event, chunk, response, in_buffer, session, bus, host>>

(* Mutant: an answer that waits survives the new configuration.             *)
ConfiguredKeepsAnswer ==
  /\ pc = "configured"
  /\ chunk' = [length |-> 0, offset |-> 0]
  /\ usb' = [usb EXCEPT !.zlp_pending = FALSE, !.zlp_in_flight = FALSE, !.in_flight = FALSE]
  /\ pc' = "arm"
  /\ UNCHANGED <<queue, ret, event, response, in_buffer, session, bus, host>>

(* process_event, CONFIGURED, after the reset.                              *)
ProcessConfigured ==
  /\ pc = "configured"
  /\ chunk' = [length |-> 0, offset |-> 0]
  /\ response' = FALSE
  /\ usb' = [usb EXCEPT !.zlp_pending = FALSE, !.zlp_in_flight = FALSE, !.in_flight = FALSE]
  /\ pc' = "arm"
  /\ UNCHANGED <<queue, ret, event, in_buffer, session, bus, host>>

(* arm_out_transfer: usbd_ep_start_read, then the flag.  Its last caller is *)
(* always process_event.                                                    *)
ArmOutTransfer ==
  /\ pc = "arm"
  /\ IF bus.open THEN bus' = [bus EXCEPT !.out = TRUE] /\ pc' = "armed"
                 ELSE pc' = "reset_check" /\ UNCHANGED bus
  /\ UNCHANGED <<usb, queue, ret, event, chunk, response, in_buffer, session, host>>

OutArmed ==
  /\ pc = "armed"
  /\ usb' = [usb EXCEPT !.out_armed = TRUE]
  /\ pc' = "reset_check"
  /\ UNCHANGED <<queue, ret, event, chunk, response, in_buffer, session, bus, host>>

ProcessRxComplete ==
  /\ pc = "RX_COMPLETE"
  /\ chunk' = [length |-> event.length, offset |-> 0]
  /\ pc' = "dispatch"
  /\ UNCHANGED <<usb, queue, ret, event, response, in_buffer, session, bus, host>>

(* Mutant: a finished ZLP leaves the IN endpoint busy.                      *)
CompletedData ==
  [usb EXCEPT !.zlp_in_flight = FALSE,
              !.zlp_pending = @ \/ (~usb.zlp_in_flight /\ event.full),
              !.in_flight = usb.zlp_in_flight]

(* After a transfer that a short packet does not end, a ZLP is owed.        *)
Completed ==
  [usb EXCEPT !.zlp_in_flight = FALSE,
              !.zlp_pending = @ \/ (~usb.zlp_in_flight /\ event.full),
              !.in_flight = FALSE]

ProcessTxComplete ==
  /\ pc = "TX_COMPLETE"
  /\ usb' = Completed
  /\ pc' = "dispatch"
  /\ UNCHANGED <<queue, ret, event, chunk, response, in_buffer, session, bus, host>>

(* Mutants: a request is handled over a waiting answer; past the chunk.     *)
DispatchOverwrites == ~usb.in_flight /\ chunk.offset < chunk.length
DispatchPastEnd == ~usb.in_flight /\ ~response /\ chunk.offset < MaxChunk

MayDispatch == ~usb.in_flight /\ ~response /\ chunk.offset < chunk.length

(* dispatch_usb_chunk: decode and handle one request, which may cause an    *)
(* event; its answer goes into usb_in_buffer.                               *)
Dispatch ==
  /\ pc = "dispatch" /\ MayDispatch
  /\ LET request == bus.data[chunk.offset + 1]
     IN  /\ in_buffer' = <<[kind |-> "answer", session |-> session.id,
                            generation |-> request.generation, n |-> request.n]>>
         /\ host' = IF request.generation = usb.generation
                    THEN [host EXCEPT !.handled =
                            Append(@, [n |-> request.n, session |-> session.id])]
                    ELSE host
  /\ \E due \in {session.due, session.due + 1} :
       due <= MaxDue /\ session' = [session EXCEPT !.negotiated = TRUE, !.due = due]
  /\ chunk' = [chunk EXCEPT !.offset = @ + 1]
  /\ response' = TRUE
  /\ pc' = "start" /\ ret' = "dispatch"
  /\ UNCHANGED <<usb, queue, event, bus>>

DispatchDone ==
  /\ pc = "dispatch" /\ ~MayDispatch
  /\ pc' = IF event.type = "RX_COMPLETE" THEN "rx_tail" ELSE "tx_tail"
  /\ UNCHANGED <<usb, queue, ret, event, chunk, response, in_buffer, session, bus, host>>

ZlpNext == usb.zlp_pending

(* start_next_in_transfer, up to the call of usbd_ep_start_write: the ZLP,  *)
(* else the answer, else all events that wait, in one transfer.             *)
StartNextInTransfer ==
  /\ pc = "start"
  /\ IF usb.in_flight \/ ~usb.configured
     THEN pc' = ret /\ UNCHANGED <<response, in_buffer, session>>
     ELSE IF ZlpNext
     THEN pc' = "write_zlp" /\ UNCHANGED <<response, in_buffer, session>>
     ELSE IF response
     THEN pc' = "write" /\ UNCHANGED <<response, in_buffer, session>>
     ELSE IF session.due = 0
     THEN pc' = ret /\ UNCHANGED <<response, in_buffer, session>>
     ELSE /\ in_buffer' = [i \in 1..session.due |->
                             [kind |-> "event", session |-> session.id,
                              generation |-> 0, n |-> 0]]
          /\ response' = TRUE
          /\ session' = [session EXCEPT !.due = 0]
          /\ pc' = "write"
  /\ UNCHANGED <<usb, queue, ret, event, chunk, bus, host>>

(* usbd_ep_start_write, which fails on a closed endpoint.                   *)
StartWrite ==
  /\ pc \in {"write", "write_zlp"}
  /\ IF bus.open
     THEN /\ \E transfer \in IF pc = "write" THEN {"data", "full"} ELSE {"zlp"} :
               bus' = [bus EXCEPT !.in = transfer]
          /\ pc' = IF pc = "write" THEN "sent" ELSE "sent_zlp"
     ELSE pc' = ret /\ UNCHANGED bus
  /\ UNCHANGED <<usb, queue, ret, event, chunk, response, in_buffer, session, host>>

(* The rest of start_next_in_transfer.                                      *)
Sent ==
  /\ pc \in {"sent", "sent_zlp"}
  /\ IF pc = "sent"
     THEN usb' = [usb EXCEPT !.in_flight = TRUE] /\ response' = FALSE
     ELSE /\ usb' = [usb EXCEPT !.zlp_pending = FALSE, !.zlp_in_flight = TRUE,
                                !.in_flight = TRUE]
          /\ UNCHANGED response
  /\ pc' = ret
  /\ UNCHANGED <<queue, ret, event, chunk, in_buffer, session, bus, host>>

(* The buffer may be handed back to the controller.                         *)
OutFree == chunk.offset = chunk.length /\ ~response

RxTail ==
  /\ pc = "rx_tail"
  /\ IF OutFree /\ ~usb.in_flight
     THEN pc' = "start" /\ ret' = "arm"
     ELSE pc' = "reset_check" /\ UNCHANGED ret
  /\ UNCHANGED <<usb, queue, event, chunk, response, in_buffer, session, bus, host>>

TxTail ==
  /\ \/ /\ pc = "tx_tail"
        /\ IF usb.in_flight THEN pc' = "tx_arm" /\ UNCHANGED ret
                            ELSE pc' = "start" /\ ret' = "tx_arm"
     \/ /\ pc = "tx_arm"
        /\ pc' = IF OutFree /\ ~usb.out_armed THEN "arm" ELSE "reset_check"
        /\ UNCHANGED ret
  /\ UNCHANGED <<usb, queue, event, chunk, response, in_buffer, session, bus, host>>

ResetCheck ==
  /\ pc = "reset_check"
  /\ pc' = IF usb.reset_pending THEN "reinit" ELSE "publish"
  /\ UNCHANGED <<usb, queue, ret, event, chunk, response, in_buffer, session, bus, host>>

(* The rest of the loop: CAN frames, edges and pressure may become events.  *)
Publish ==
  /\ pc = "publish"
  /\ \E due \in {session.due, session.due + 1} :
       /\ due <= MaxDue /\ (~session.negotiated => due = session.due)
       /\ session' = [session EXCEPT !.due = due]
  /\ IF usb.configured /\ ~usb.in_flight THEN pc' = "start" /\ ret' = "wait"
                                         ELSE pc' = "wait" /\ UNCHANGED ret
  /\ UNCHANGED <<usb, queue, event, chunk, response, in_buffer, bus, host>>

Task ==
  \/ Receive \/ PollTimeout \/ ProcessEvent
  \/ ReinitSession \/ ReinitDone \/ ProcessConfigured
  \/ ArmOutTransfer \/ OutArmed
  \/ ProcessRxComplete \/ ProcessTxComplete
  \/ Dispatch \/ DispatchDone
  \/ StartNextInTransfer \/ StartWrite \/ Sent
  \/ RxTail \/ TxTail \/ ResetCheck \/ Publish

Next ==
  \/ Task
  \/ BusReset \/ Configured
  \/ \E k \in 1..MaxChunk : UsbOutComplete(k)
  \/ UsbInComplete

Spec == Init /\ [][Next]_vars

(* The scheduler runs the task, and the host reads the IN endpoint.         *)
FairSpec == Spec /\ WF_vars(Task) /\ WF_vars(UsbInComplete)
-----------------------------------------------------------------------------
(* Properties.                                                              *)

(* usb_transfer_buffer has one owner: between two resets every request is   *)
(* handled once and in order, for the controller never writes over requests *)
(* that dispatch_usb_chunk has yet to read; and one session, begun after the*)
(* last reset, handles them all.                                            *)
RequestsInOrder ==
  \A i \in 1..Len(host.handled) :
     /\ host.handled[i].n = i /\ i <= host.sent
     /\ host.handled[i].session = host.handled[1].session
     /\ host.handled[i].session > host.floor

(* usb_in_buffer has one owner: each handled request is answered once and in*)
(* order, its answer read by the host, in transfer or waiting, whatever     *)
(* events, ZLPs and failed writes come between.                             *)
HandledAnswered ==
  [i \in 1..Len(host.handled) |-> host.handled[i].n] =
    host.answers
      \o (IF bus.in \in {"data", "full"} THEN Answers(in_buffer) ELSE <<>>)
      \o (IF response /\ ~(pc = "sent" /\ bus.open) THEN Answers(in_buffer) ELSE <<>>)

(* The i-th answer that the host reads is that to the i-th request it sent. *)
AnswersInOrder ==
  \A i \in 1..Len(host.answers) : host.answers[i] = i /\ i <= host.sent

(* A transfer whose length is a multiple of the packet size is followed by a*)
(* ZLP before any other data, and no other transfer is.                     *)
ZlpTerminates ==
  /\ bus.in \in {"data", "full"} => ~host.unterminated
  /\ bus.in = "zlp" => host.unterminated

(* The exchange on the bus: requests handled and answered once each, in the *)
(* order the host sent them, and every transfer ended.                      *)
ExchangeInOrder == RequestsInOrder /\ HandledAnswered /\ AnswersInOrder /\ ZlpTerminates

(* Once the bus stays up, the host gets the answer to all that was handled. *)
AllAnswered == <>[](Len(host.answers) = Len(host.handled))

(* "transport recovery does not resend messages of the old session": no     *)
(* frame built before a bus reset is read after it.                         *)
NothingStale == ~host.stale

(* "OUT is not rearmed until the matching IN transfer completes, so the     *)
(* 2048-byte DMA buffer retains a single owner": the controller may write to*)
(* the OUT buffer only when the task has read all that is in it.            *)
SingleOwner ==
  bus.out => /\ chunk.offset = chunk.length
             /\ \A i \in 1..Len(queue) : queue[i].type = "RX_COMPLETE" =>
                  queue[i].generation # usb.generation

(* "OUT armed, no IN transfer left in flight": when an open bus is quiet and*)
(* the task has nothing to do, the OUT endpoint is armed.                   *)
OutNotStranded ==
  /\ bus.open /\ bus.in = "idle" /\ queue = <<>>
  /\ pc = "wait" /\ ~response
  => bus.out
=============================================================================
