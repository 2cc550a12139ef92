--------------------------- MODULE UsbOwnerProofs ---------------------------
(***************************************************************************)
(* Proofs about UsbOwner for every length of the event queue and every     *)
(* bound: its types; and, while an enumeration finds the task asleep, that *)
(* no frame built before a bus reset is read after it, that each request   *)
(* handled is answered once and in order, that each transfer is terminated,*)
(* and, for a host that waits for its answers, that each request is handled*)
(* once and in order by one session.                                       *)
(***************************************************************************)
EXTENDS UsbOwner, SequenceTheorems, TLAPS

Place == {"wait", "event", "CONFIGURED", "configured_clear", "configured", "arm", "armed",
          "RX_COMPLETE", "TX_COMPLETE", "dispatch", "start", "write", "write_zlp", "sent",
          "sent_zlp", "rx_tail", "tx_tail", "tx_arm", "reset_check", "reinit", "reinit_clear",
          "publish"}

Usbs     == [generation: 0..MaxGeneration, configured: BOOLEAN, out_armed: BOOLEAN,
             in_flight: BOOLEAN, zlp_pending: BOOLEAN, zlp_in_flight: BOOLEAN,
             reset_pending: BOOLEAN]
Chunks   == [length: 0..MaxChunk, offset: 0..MaxChunk]
Sessions == [id: Nat, negotiated: BOOLEAN, due: 0..MaxDue]
Buses    == [open: BOOLEAN, out: BOOLEAN, in: Transfer, data: [1..MaxChunk -> Request]]
Handled  == [n: Nat, session: Nat]
Hosts    == [sent: 0..MaxRequests, floor: Nat, handled: Seq(Handled), answers: Seq(Nat),
             stale: BOOLEAN, unterminated: BOOLEAN]

(* The types.                                                               *)
Types ==
  /\ usb \in Usbs
  /\ queue \in Seq(Event) /\ Len(queue) <= QueueLength
  /\ pc \in Place
  /\ ret \in {"wait", "dispatch", "arm", "tx_arm"}
  /\ event \in Event
  /\ chunk \in Chunks /\ chunk.offset <= chunk.length
  /\ response \in BOOLEAN
  /\ in_buffer \in Seq(Frame)
  /\ \A i \in 1..Len(in_buffer) : in_buffer[i].kind = "answer" => Len(in_buffer) = 1
  /\ response => in_buffer # <<>>
  /\ pc \in {"write", "sent"} => response
  /\ session \in Sessions
  /\ bus \in Buses
  /\ host \in Hosts

(* A bus session opens with the CONFIGURED event, which finds the task      *)
(* asleep and is the first it takes; the session is live when the task has  *)
(* started over for it.                                                     *)
Starting ==
  bus.open /\ \/ pc = "wait" /\ queue # <<>> /\ queue[1].type = "CONFIGURED"
              \/ pc = "event" /\ event.type = "CONFIGURED"
              \/ pc \in {"CONFIGURED", "configured_clear", "configured"}

Live == bus.open /\ ~Starting

(* Before that, nothing of the new bus session has happened.                *)
Fresh ==
  /\ ~bus.out /\ bus.in = "idle"
  /\ host.handled = <<>> /\ host.answers = <<>> /\ host.sent = 0
  /\ ~host.stale /\ ~host.unterminated

(* The requests in usb_transfer_buffer that the task may yet dispatch.      *)
Unread == {i \in 1..MaxChunk : \/ chunk.offset < i /\ i <= chunk.length
                               \/ pc = "RX_COMPLETE" /\ i <= event.length}

(* The generations tell the events, requests and answers of the live bus    *)
(* session from older ones.                                                 *)
Generations ==
  /\ usb.configured = bus.open
  /\ \A i \in 1..Len(queue) :
       IF bus.open THEN queue[i].generation = usb.generation
                   ELSE queue[i].generation < usb.generation
  /\ bus.open /\ pc \in {"event", "RX_COMPLETE", "TX_COMPLETE"}
       => event.generation = usb.generation
  /\ pc \in {"RX_COMPLETE", "TX_COMPLETE"} => event.type = pc
  /\ \A i \in 1..MaxChunk : bus.data[i].generation <= usb.generation
  /\ \A i \in 1..Len(in_buffer) :
       in_buffer[i].kind = "answer" => in_buffer[i].generation <= usb.generation
  /\ ~Live => /\ Fresh
              /\ \A i \in Unread : bus.data[i].generation < usb.generation
              /\ \A i \in 1..Len(in_buffer) :
                   in_buffer[i].kind = "answer" => in_buffer[i].generation < usb.generation

(* The session is new, and stays the same.                                  *)
Renewed ==
  /\ host.floor <= session.id
  /\ Starting => /\ Len(queue) = (IF pc = "wait" THEN 1 ELSE 0)
                 /\ pc \in {"configured_clear", "configured"} => host.floor < session.id
                 /\ pc = "configured" => ~usb.reset_pending
  /\ Live => /\ host.floor < session.id /\ ~usb.reset_pending
             /\ pc \notin {"reinit", "reinit_clear"}
             /\ \A i \in 1..Len(queue) : queue[i].type # "CONFIGURED"

(* The IN endpoint is in use from the call of usbd_ep_start_write.          *)
Busy == usb.in_flight \/ pc \in {"sent", "sent_zlp"}

InTransfer == bus.in \in {"data", "full"}

(* One IN transfer at a time.                                               *)
OneTransfer ==
  /\ bus.in # "idle" => Busy /\ \A i \in 1..Len(queue) : queue[i].type # "TX_COMPLETE"
  /\ (\E i \in 1..Len(queue) : queue[i].type = "TX_COMPLETE") => Busy
  /\ \A i, j \in 1..Len(queue) :
       queue[i].type = "TX_COMPLETE" /\ queue[j].type = "TX_COMPLETE" => i = j
  /\ pc \in {"event", "TX_COMPLETE"} /\ event.type = "TX_COMPLETE"
       => /\ usb.in_flight /\ bus.in = "idle"
          /\ \A i \in 1..Len(queue) : queue[i].type # "TX_COMPLETE"
  /\ pc \in {"write", "write_zlp", "sent", "sent_zlp"} => ~usb.in_flight

(* What is in usb_in_buffer.                                                *)
Buffered ==
  /\ ~host.stale
  /\ InTransfer => pc = "sent" \/ ~response
  /\ usb.in_flight /\ ~usb.zlp_in_flight => ~response
  /\ response \/ InTransfer => \A i \in 1..Len(in_buffer) : in_buffer[i].session > host.floor

(* A ZLP is owed exactly when the host has read a transfer that needs one.  *)
ZlpPhase == usb.zlp_in_flight \/ pc = "sent_zlp"

ZlpOwed ==
  /\ usb.zlp_in_flight => usb.in_flight
  /\ usb.in_flight => ~usb.zlp_pending
  /\ ~Busy => host.unterminated = usb.zlp_pending
  /\ pc \in {"write", "sent"} => ~usb.zlp_pending
  /\ pc \in {"write_zlp", "sent_zlp"} => usb.zlp_pending
  /\ InTransfer => ~ZlpPhase /\ ~host.unterminated
  /\ bus.in = "zlp" => ZlpPhase /\ host.unterminated
  /\ \A i \in 1..Len(queue) : queue[i].type = "TX_COMPLETE" =>
       IF ZlpPhase THEN ~queue[i].full /\ ~host.unterminated
                   ELSE queue[i].full = host.unterminated
  /\ pc \in {"event", "TX_COMPLETE"} /\ event.type = "TX_COMPLETE" =>
       IF ZlpPhase THEN ~event.full /\ ~host.unterminated
                   ELSE event.full = host.unterminated

(* A host that waits for its answers: what it has sent and the task has not *)
(* yet handled is in the buffer, in the event or in the chunk.              *)
Pending(first, last) ==
  /\ host.sent = Len(host.handled) + (last - first + 1)
  /\ \A i \in first..last : bus.data[i] = [generation |-> usb.generation,
                                           n |-> Len(host.handled) + 1 + i - first]

ReceivedBy(e) ==
  /\ e.length > 0 /\ chunk.offset = chunk.length
  /\ Pending(1, e.length)

InLockstep ==
  /\ \A i \in 1..Len(host.handled) :
       host.handled[i] = [n |-> i, session |-> session.id]
  /\ Len(host.handled) <= host.sent
  /\ chunk.offset < chunk.length => Pending(chunk.offset + 1, chunk.length)
  /\ \A i \in 1..Len(queue) : queue[i].type = "RX_COMPLETE" => ReceivedBy(queue[i])
  /\ pc \in {"event", "RX_COMPLETE"} /\ event.type = "RX_COMPLETE" => ReceivedBy(event)
  /\ \A i, j \in 1..Len(queue) :
       queue[i].type = "RX_COMPLETE" /\ queue[j].type = "RX_COMPLETE" => i = j
  /\ pc \in {"event", "RX_COMPLETE"} /\ event.type = "RX_COMPLETE"
       => \A i \in 1..Len(queue) : queue[i].type # "RX_COMPLETE"

IInv ==
  /\ Types /\ Generations /\ Renewed
  /\ Live => OneTransfer /\ Buffered /\ ZlpOwed
  /\ HandledAnswered

LInv == IInv /\ (Live => InLockstep)
-----------------------------------------------------------------------------
(* Helpers.                                                                 *)

(* The parts of the records.                                                *)
LEMMA Parts ==
  ASSUME Types
  PROVE  /\ usb \in Usbs /\ usb.generation \in 0..MaxGeneration
         /\ usb.configured \in BOOLEAN /\ usb.out_armed \in BOOLEAN /\ usb.in_flight \in BOOLEAN
         /\ usb.zlp_pending \in BOOLEAN /\ usb.zlp_in_flight \in BOOLEAN
         /\ usb.reset_pending \in BOOLEAN
         /\ chunk \in Chunks /\ chunk.length \in 0..MaxChunk /\ chunk.offset \in 0..MaxChunk
         /\ chunk.offset <= chunk.length
         /\ session \in Sessions /\ session.id \in Nat /\ session.negotiated \in BOOLEAN
         /\ session.due \in 0..MaxDue
         /\ event \in Event /\ event.type \in {"CONFIGURED", "RX_COMPLETE", "TX_COMPLETE"}
         /\ event.generation \in Nat /\ event.length \in 0..MaxChunk /\ event.full \in BOOLEAN
BY DEF Types, Usbs, Chunks, Sessions, Event

LEMMA BusParts ==
  ASSUME Types
  PROVE  /\ bus \in Buses /\ bus.open \in BOOLEAN /\ bus.out \in BOOLEAN /\ bus.in \in Transfer
         /\ bus.data \in [1..MaxChunk -> Request]
         /\ \A i \in 1..MaxChunk : /\ bus.data[i] \in Request /\ bus.data[i].n \in Nat
                                   /\ bus.data[i].generation \in Nat
<1>1. bus \in Buses
  BY DEF Types
<1>2. bus.data \in [1..MaxChunk -> Request]
  BY <1>1 DEF Buses
<1>3. \A i \in 1..MaxChunk : bus.data[i] \in Request
  BY <1>2
<1>4. QED
  BY <1>1, <1>2, <1>3 DEF Buses, Request

LEMMA HostParts ==
  ASSUME Types
  PROVE  /\ host \in Hosts /\ host.sent \in 0..MaxRequests /\ host.floor \in Nat
         /\ host.handled \in Seq(Handled) /\ host.answers \in Seq(Nat)
         /\ host.stale \in BOOLEAN /\ host.unterminated \in BOOLEAN
         /\ Len(host.handled) \in Nat /\ Len(host.answers) \in Nat
<1>1. host \in Hosts
  BY DEF Types
<1>2. host.handled \in Seq(Handled) /\ host.answers \in Seq(Nat)
  BY <1>1 DEF Hosts
<1>3. QED
  BY <1>1, <1>2, LenProperties DEF Hosts

LEMMA QueueParts ==
  ASSUME Types
  PROVE  /\ queue \in Seq(Event) /\ Len(queue) \in 0..QueueLength
         /\ in_buffer \in Seq(Frame) /\ Len(in_buffer) \in Nat
         /\ QueueLength \in Nat /\ QueueLength > 0 /\ MaxChunk \in Nat /\ MaxChunk > 0
         /\ MaxGeneration \in Nat /\ MaxRequests \in Nat /\ MaxDue \in Nat
<1>1. queue \in Seq(Event) /\ Len(queue) <= QueueLength /\ in_buffer \in Seq(Frame)
  BY DEF Types
<1>2. Len(queue) \in Nat /\ Len(in_buffer) \in Nat
  BY <1>1, LenProperties
<1>3. QED
  BY <1>1, <1>2, UsbAssumption

(* The event that an interrupt queues, if there is room for it.             *)
NewEvent(type, length, full) ==
  [type |-> type, generation |-> usb.generation, length |-> length, full |-> full]

LEMMA Queued ==
  ASSUME Types, NEW type \in {"CONFIGURED", "RX_COMPLETE", "TX_COMPLETE"},
         NEW length \in 0..MaxChunk, NEW full \in BOOLEAN, QueueEvent(type, length, full)
  PROVE  \E e \in Event :
             /\ e = NewEvent(type, length, full) /\ e.type = type
             /\ e.generation = usb.generation /\ e.length = length /\ e.full = full
             /\ queue' \in Seq(Event) /\ Len(queue') <= QueueLength
             /\ \/ queue' = queue
                \/ /\ Len(queue') = Len(queue) + 1 /\ queue'[Len(queue) + 1] = e
                   /\ \A i \in 1..Len(queue) : queue'[i] = queue[i]
             /\ queue = <<>> => queue' = <<e>>
<1>1. PICK e \in Event : e = NewEvent(type, length, full)
  <2>1. NewEvent(type, length, full) \in Event
    BY Parts, QueueParts DEF Event, NewEvent
  <2>2. QED
    BY <2>1
<1>2. e.type = type /\ e.generation = usb.generation /\ e.length = length /\ e.full = full
  BY <1>1 DEF NewEvent
<1>3. queue' = IF Len(queue) < QueueLength THEN Append(queue, e) ELSE queue
  BY <1>1 DEF QueueEvent, NewEvent
<1>4. CASE Len(queue) < QueueLength
  <2>1. /\ queue' \in Seq(Event) /\ Len(queue') = Len(queue) + 1
        /\ \A i \in 1..Len(queue) : queue'[i] = queue[i]
        /\ queue'[Len(queue) + 1] = e
    BY <1>3, <1>4, AppendProperties, QueueParts
  <2>2. queue = <<>> => queue' = <<e>>
    BY <1>3, <1>4
  <2>3. QED
    BY <1>1, <1>2, <1>4, <2>1, <2>2, QueueParts
<1>5. CASE ~(Len(queue) < QueueLength)
  <2>1. queue' = queue /\ queue # <<>>
    BY <1>3, <1>5, QueueParts, EmptySeq
  <2>2. QED
    BY <1>1, <1>2, <2>1, QueueParts
<1>6. QED
  BY <1>4, <1>5

(* What each interrupt queues.                                              *)
LEMMA InQueues ==
  ASSUME Types, UsbInComplete
  PROVE  \/ queue' = queue
         \/ /\ Len(queue') = Len(queue) + 1
            /\ queue'[Len(queue) + 1].type = "TX_COMPLETE"
            /\ queue'[Len(queue) + 1].generation = usb.generation
            /\ queue'[Len(queue) + 1].full = (bus.in = "full")
            /\ \A i \in 1..Len(queue) : queue'[i] = queue[i]
<1>1. 0 \in 0..MaxChunk
  BY QueueParts
<1>2. "TX_COMPLETE" \in {"CONFIGURED", "RX_COMPLETE", "TX_COMPLETE"}
  OBVIOUS
<1>3. CASE bus.in = "full"
  <2>1. QueueEvent("TX_COMPLETE", 0, TRUE)
    BY <1>3 DEF UsbInComplete
  <2>2. TRUE \in BOOLEAN
    OBVIOUS
  <2>3. \E e \in Event :
             /\ e = NewEvent("TX_COMPLETE", 0, TRUE) /\ e.type = "TX_COMPLETE"
             /\ e.generation = usb.generation /\ e.length = 0 /\ e.full = TRUE
             /\ queue' \in Seq(Event) /\ Len(queue') <= QueueLength
             /\ \/ queue' = queue
                \/ /\ Len(queue') = Len(queue) + 1 /\ queue'[Len(queue) + 1] = e
                   /\ \A i \in 1..Len(queue) : queue'[i] = queue[i]
             /\ queue = <<>> => queue' = <<e>>
    BY <1>1, <1>2, <2>1, <2>2, Queued, Zenon
  <2>4. QED
    BY <1>3, <2>3
<1>4. CASE bus.in # "full"
  <2>1. QueueEvent("TX_COMPLETE", 0, FALSE)
    BY <1>4 DEF UsbInComplete
  <2>2. FALSE \in BOOLEAN
    OBVIOUS
  <2>3. \E e \in Event :
             /\ e = NewEvent("TX_COMPLETE", 0, FALSE) /\ e.type = "TX_COMPLETE"
             /\ e.generation = usb.generation /\ e.length = 0 /\ e.full = FALSE
             /\ queue' \in Seq(Event) /\ Len(queue') <= QueueLength
             /\ \/ queue' = queue
                \/ /\ Len(queue') = Len(queue) + 1 /\ queue'[Len(queue) + 1] = e
                   /\ \A i \in 1..Len(queue) : queue'[i] = queue[i]
             /\ queue = <<>> => queue' = <<e>>
    BY <1>1, <1>2, <2>1, <2>2, Queued, Zenon
  <2>4. QED
    BY <1>4, <2>3
<1>5. QED
  BY <1>3, <1>4

LEMMA OutQueues ==
  ASSUME Types, NEW k \in 1..MaxChunk, UsbOutComplete(k)
  PROVE  \/ queue' = queue
         \/ /\ Len(queue') = Len(queue) + 1
            /\ queue'[Len(queue) + 1].type = "RX_COMPLETE"
            /\ queue'[Len(queue) + 1].generation = usb.generation
            /\ queue'[Len(queue) + 1].length = k
            /\ \A i \in 1..Len(queue) : queue'[i] = queue[i]
<1>1. k \in 0..MaxChunk /\ FALSE \in BOOLEAN
  BY QueueParts
<1>2. QueueEvent("RX_COMPLETE", k, FALSE)
  BY DEF UsbOutComplete
<1>3. "RX_COMPLETE" \in {"CONFIGURED", "RX_COMPLETE", "TX_COMPLETE"}
  OBVIOUS
<1>4. \E e \in Event :
             /\ e = NewEvent("RX_COMPLETE", k, FALSE) /\ e.type = "RX_COMPLETE"
             /\ e.generation = usb.generation /\ e.length = k /\ e.full = FALSE
             /\ queue' \in Seq(Event) /\ Len(queue') <= QueueLength
             /\ \/ queue' = queue
                \/ /\ Len(queue') = Len(queue) + 1 /\ queue'[Len(queue) + 1] = e
                   /\ \A i \in 1..Len(queue) : queue'[i] = queue[i]
             /\ queue = <<>> => queue' = <<e>>
  BY <1>1, <1>2, <1>3, Queued, Zenon
<1>5. QED
  BY <1>4

(* The event that the task takes.                                           *)
LEMMA Dequeued ==
  ASSUME Types, queue # <<>>
  PROVE  /\ Head(queue) = queue[1] /\ Head(queue) \in Event /\ Tail(queue) \in Seq(Event)
         /\ Len(queue) > 0 /\ Len(Tail(queue)) = Len(queue) - 1
         /\ \A i \in 1..Len(Tail(queue)) : i + 1 \in 1..Len(queue) /\ Tail(queue)[i] = queue[i + 1]
<1>1. /\ Head(queue) \in Event /\ Tail(queue) \in Seq(Event) /\ Len(Tail(queue)) = Len(queue) - 1
      /\ \A i \in 1..Len(Tail(queue)) : Tail(queue)[i] = queue[i + 1]
  BY HeadTailProperties, QueueParts
<1>2. Len(queue) # 0 /\ Len(queue) \in Nat
  BY EmptySeq, QueueParts
<1>3. Head(queue) = queue[1]
  OBVIOUS
<1>4. \A i \in 1..Len(Tail(queue)) : i + 1 \in 1..Len(queue)
  BY <1>1, <1>2
<1>5. QED
  BY <1>1, <1>2, <1>3, <1>4
-----------------------------------------------------------------------------
(* Types.                                                                   *)

LEMMA InitTypes == Init => Types
<1> SUFFICES ASSUME Init PROVE Types
  OBVIOUS
<1> USE UsbAssumption
<1>1. usb \in Usbs /\ chunk \in Chunks /\ event \in Event /\ session \in Sessions
  BY DEF Init, Usbs, Chunks, Event, Sessions
<1>2. bus \in Buses
  <2>1. [i \in 1..MaxChunk |-> [generation |-> 0, n |-> 0]] \in [1..MaxChunk -> Request]
    BY DEF Request
  <2>2. QED
    BY <2>1 DEF Init, Buses, Transfer
<1>3. <<>> \in Seq(Event) /\ <<>> \in Seq(Frame) /\ <<>> \in Seq(Handled) /\ <<>> \in Seq(Nat)
      /\ Len(<<>>) = 0
  BY EmptySeq
<1>4. host \in Hosts
  BY <1>3 DEF Init, Hosts
<1>5. /\ queue = <<>> /\ in_buffer = <<>> /\ response = FALSE /\ pc = "wait" /\ ret = "wait"
      /\ chunk.offset <= chunk.length
  BY DEF Init
<1>6. Len(queue) <= QueueLength /\ 1..Len(in_buffer) = {}
  BY <1>3, <1>5
<1>7. QED
  BY <1>1, <1>2, <1>3, <1>4, <1>5, <1>6 DEF Types, Place

LEMMA DispatchTypes == Types /\ Dispatch => Types'
<1> SUFFICES ASSUME Types, Dispatch PROVE Types'
  OBVIOUS
<1>1. chunk.offset + 1 \in 1..MaxChunk /\ chunk.offset + 1 <= chunk.length
  <2>1. PICK o \in Nat, l \in Nat : o = chunk.offset /\ l = chunk.length /\ l <= MaxChunk
    BY Parts, QueueParts
  <2>2. o < l
    BY <2>1 DEF Dispatch, MayDispatch
  <2>3. QED
    BY <2>1, <2>2, QueueParts
<1>2. PICK request \in Request : request = bus.data[chunk.offset + 1]
  BY <1>1, BusParts
<1>3. /\ request.generation \in Nat /\ request.n \in Nat
  BY DEF Request
<1>4. PICK f \in Frame : f = [kind |-> "answer", session |-> session.id,
                              generation |-> request.generation, n |-> request.n]
  BY <1>3, Parts DEF Frame
<1>5. in_buffer' = <<f>>
  BY <1>2, <1>4 DEF Dispatch
<1>6. in_buffer' \in Seq(Frame) /\ Len(in_buffer') = 1 /\ in_buffer' # <<>>
  BY <1>5
<1>7. host' \in Hosts
  <2>1. [n |-> request.n, session |-> session.id] \in Handled
    BY <1>3, Parts DEF Handled
  <2>2. Append(host.handled, [n |-> request.n, session |-> session.id]) \in Seq(Handled)
    BY <2>1, AppendProperties, HostParts
  <2>3. \/ host' = host
        \/ host' = [host EXCEPT !.handled = Append(host.handled,
                                  [n |-> request.n, session |-> session.id])]
    BY <1>2 DEF Dispatch
  <2>4. QED
    BY <2>2, <2>3, HostParts DEF Hosts
<1>8. session' \in Sessions
  <2>1. PICK due \in {session.due, session.due + 1} :
          due <= MaxDue /\ session' = [session EXCEPT !.negotiated = TRUE, !.due = due]
    BY DEF Dispatch
  <2>2. due \in 0..MaxDue
    BY <2>1, Parts, QueueParts
  <2>3. QED
    BY <2>1, <2>2, Parts DEF Sessions
<1>9. chunk' \in Chunks /\ chunk'.offset <= chunk'.length
  <2>1. chunk' = [chunk EXCEPT !.offset = @ + 1]
    BY DEF Dispatch
  <2>2. QED
    BY <1>1, <2>1, Parts, QueueParts DEF Chunks
<1>10. QED
  BY <1>6, <1>7, <1>8, <1>9 DEF Dispatch, Types, Place

LEMMA StartTypes == Types /\ StartNextInTransfer => Types'
<1> SUFFICES ASSUME Types, StartNextInTransfer PROVE Types'
  OBVIOUS
<1>1. /\ ret \in {"wait", "dispatch", "arm", "tx_arm"}
      /\ UNCHANGED <<usb, queue, ret, event, chunk, bus, host>>
  BY DEF StartNextInTransfer, Types
<1>2. CASE UNCHANGED <<response, in_buffer, session>> /\ pc' \in {ret, "write_zlp"}
  BY <1>1, <1>2 DEF Types, Place
<1>3. CASE UNCHANGED <<response, in_buffer, session>> /\ response /\ pc' = "write"
  BY <1>1, <1>3 DEF Types, Place
<1>4. CASE session.due # 0 /\ response' = TRUE /\ pc' = "write"
           /\ session' = [session EXCEPT !.due = 0]
           /\ in_buffer' = [i \in 1..session.due |->
                              [kind |-> "event", session |-> session.id,
                               generation |-> 0, n |-> 0]]
  <2>1. PICK n \in Nat \ {0} : n = session.due
    BY <1>4, Parts, QueueParts
  <2>2. PICK f \in Frame : f = [kind |-> "event", session |-> session.id,
                                generation |-> 0, n |-> 0]
    <3>1. session.id \in Nat /\ 0 \in Nat
      BY Parts
    <3>2. [kind |-> "event", session |-> session.id, generation |-> 0, n |-> 0] \in Frame
      BY <3>1 DEF Frame
    <3>3. QED
      BY <3>2
  <2>3. in_buffer' = [i \in 1..n |-> f]
    BY <1>4, <2>1, <2>2
  <2>4. in_buffer' \in [1..n -> Frame]
    BY <2>3
  <2>5. in_buffer' \in Seq(Frame)
    BY <2>4, SeqDef
  <2>6. Len(in_buffer') = n
    BY <2>3, <2>5, LenProperties
  <2>7. \A i \in 1..Len(in_buffer') : in_buffer'[i].kind # "answer"
    BY <2>2, <2>3, <2>6
  <2>8. in_buffer' # <<>>
    BY <2>6, EmptySeq
  <2>9. session' \in Sessions
    <3>1. 0 \in 0..MaxDue
      BY QueueParts
    <3>2. session' = [session EXCEPT !.due = 0]
      BY <1>4
    <3>3. QED
      BY <3>1, <3>2, Parts DEF Sessions
  <2>10. QED
    BY <1>1, <1>4, <2>5, <2>7, <2>8, <2>9 DEF Types, Place
<1>5. QED
  BY <1>2, <1>3, <1>4 DEF StartNextInTransfer

LEMMA TypesStep == Types /\ [Next]_vars => Types'
<1> SUFFICES ASSUME Types, [Next]_vars PROVE Types'
  OBVIOUS
<1>1. CASE BusReset
  <2>1. usb.generation + 1 \in 0..MaxGeneration
    BY <1>1, Parts, QueueParts DEF BusReset
  <2>2. usb' \in Usbs
    BY <1>1, <2>1 DEF BusReset, Usbs
  <2>3. bus' \in Buses
    BY <1>1, BusParts DEF BusReset, Buses, Transfer
  <2>4. <<>> \in Seq(Handled) /\ <<>> \in Seq(Nat)
    OBVIOUS
  <2>5. host' \in Hosts
    BY <1>1, <2>4, Parts, QueueParts DEF BusReset, Hosts
  <2>6. QED
    BY <1>1, <2>2, <2>3, <2>5 DEF BusReset, Types, task
<1>2. CASE Configured
  <2>1. usb' \in Usbs
    BY <1>2, Parts DEF Configured, Usbs
  <2>2. bus' \in Buses
    BY <1>2, BusParts DEF Configured, Buses
  <2>3. QueueEvent("CONFIGURED", 0, FALSE)
    BY <1>2 DEF Configured
  <2>4. queue' \in Seq(Event) /\ Len(queue') <= QueueLength
    <3>1. 0 \in 0..MaxChunk /\ FALSE \in BOOLEAN
      BY QueueParts
    <3>2. QED
      BY <2>3, <3>1, Queued
  <2>5. QED
    BY <1>2, <2>1, <2>2, <2>4 DEF Configured, Types, task
<1>3. ASSUME NEW k \in 1..MaxChunk, UsbOutComplete(k) PROVE Types'
  <2>1. usb' \in Usbs
    BY <1>3, Parts DEF UsbOutComplete, Usbs
  <2>2. bus' \in Buses
    <3>1. PICK data : data = [i \in 1..MaxChunk |->
                         IF i <= k THEN [generation |-> usb.generation, n |-> host.sent + i]
                                   ELSE bus.data[i]]
      OBVIOUS
    <3>2. \A i \in 1..MaxChunk : [generation |-> usb.generation, n |-> host.sent + i] \in Request
      <4>1. PICK g \in Nat, s \in Nat : g = usb.generation /\ s = host.sent
        BY Parts, HostParts, QueueParts
      <4>2. \A i \in 1..MaxChunk : s + i \in Nat
        BY QueueParts
      <4>3. QED
        BY <4>1, <4>2 DEF Request
    <3>3. data \in [1..MaxChunk -> Request]
      BY <3>1, <3>2, BusParts
    <3>4. bus' = [bus EXCEPT !.out = FALSE, !.data = data]
      BY <1>3, <3>1 DEF UsbOutComplete
    <3>5. QED
      BY <3>3, <3>4, BusParts DEF Buses
  <2>3. host' \in Hosts
    <3>1. host.sent + k \in 0..MaxRequests
      BY <1>3, HostParts, QueueParts DEF UsbOutComplete
    <3>2. QED
      BY <1>3, <3>1, HostParts DEF UsbOutComplete, Hosts
  <2>4. QueueEvent("RX_COMPLETE", k, FALSE)
    BY <1>3 DEF UsbOutComplete
  <2>5. queue' \in Seq(Event) /\ Len(queue') <= QueueLength
    <3>1. k \in 0..MaxChunk /\ FALSE \in BOOLEAN
      BY QueueParts
    <3>2. QED
      BY <2>4, <3>1, Queued
  <2>6. QED
    BY <1>3, <2>1, <2>2, <2>3, <2>5 DEF UsbOutComplete, Types, task
<1>4. CASE UsbInComplete
  <2>1. bus' \in Buses
    BY <1>4, BusParts DEF UsbInComplete, Buses, Transfer
  <2>2. Answers(in_buffer) \in Seq(Nat)
    <3>1. in_buffer # <<>> => in_buffer[1] \in Frame
      BY QueueParts, EmptySeq, ElementOfSeq
    <3>2. in_buffer # <<>> => in_buffer[1].n \in Nat
      BY <3>1 DEF Frame
    <3>3. QED
      BY <3>2 DEF Answers
  <2>3. host' \in Hosts
    <3>1. host.answers \o Answers(in_buffer) \in Seq(Nat)
      BY <2>2, ConcatProperties, HostParts
    <3>2. CASE bus.in = "zlp"
      BY <1>4, <3>2, HostParts DEF UsbInComplete, Hosts
    <3>3. CASE bus.in # "zlp"
      <4>1. PICK stale \in BOOLEAN :
              stale = (host.stale \/ \E i \in 1..Len(in_buffer) : in_buffer[i].session <= host.floor)
        OBVIOUS
      <4>2. host' = [host EXCEPT !.answers = host.answers \o Answers(in_buffer),
                                 !.stale = stale, !.unterminated = (bus.in = "full")]
        BY <1>4, <3>3, <4>1 DEF UsbInComplete
      <4>3. QED
        BY <3>1, <4>2, HostParts DEF Hosts
    <3>4. QED
      BY <3>2, <3>3
  <2>4. QueueEvent("TX_COMPLETE", 0, bus.in = "full") /\ 0 \in 0..MaxChunk
    BY <1>4, QueueParts DEF UsbInComplete
  <2>5. (bus.in = "full") \in BOOLEAN
    OBVIOUS
  <2>6. queue' \in Seq(Event) /\ Len(queue') <= QueueLength
    BY <2>4, <2>5, Queued
  <2>7. QED
    BY <1>4, <2>1, <2>3, <2>6 DEF UsbInComplete, Types, task
<1>5. CASE Receive
  <2>1. event' \in Event /\ queue' \in Seq(Event) /\ Len(queue') <= QueueLength
    BY <1>5, Dequeued, QueueParts DEF Receive
  <2>2. QED
    BY <1>5, <2>1 DEF Receive, Types, Place
<1>6. CASE PollTimeout \/ DispatchDone \/ RxTail \/ TxTail \/ ResetCheck
  BY <1>6 DEF PollTimeout, DispatchDone, RxTail, TxTail, ResetCheck, Types, Place
<1>7. CASE ProcessEvent
  BY <1>7, Parts DEF ProcessEvent, Types, Place
<1>8. CASE ReinitSession
  <2>1. session' \in Sessions
    BY <1>8, Parts, QueueParts DEF ReinitSession, Sessions
  <2>2. QED
    BY <1>8, <2>1 DEF ReinitSession, Types, Place
<1>9. CASE ReinitDone
  <2>1. usb' \in Usbs
    BY <1>9, Parts DEF ReinitDone, ClearReset, Usbs
  <2>2. QED
    BY <1>9, <2>1 DEF ReinitDone, Types, Place
<1>10. CASE ProcessConfigured
  <2>1. usb' \in Usbs
    BY <1>10, Parts DEF ProcessConfigured, Usbs
  <2>2. chunk' \in Chunks /\ chunk'.offset <= chunk'.length
    BY <1>10, QueueParts DEF ProcessConfigured, Chunks
  <2>3. QED
    BY <1>10, <2>1, <2>2 DEF ProcessConfigured, Types, Place
<1>11. CASE ArmOutTransfer
  <2>1. bus' \in Buses
    BY <1>11, BusParts DEF ArmOutTransfer, Buses
  <2>2. QED
    BY <1>11, <2>1 DEF ArmOutTransfer, Types, Place
<1>12. CASE OutArmed
  <2>1. usb' \in Usbs
    BY <1>12, Parts DEF OutArmed, Usbs
  <2>2. QED
    BY <1>12, <2>1 DEF OutArmed, Types, Place
<1>13. CASE ProcessRxComplete
  <2>1. chunk' \in Chunks /\ chunk'.offset <= chunk'.length
    BY <1>13, Parts, QueueParts DEF ProcessRxComplete, Chunks
  <2>2. QED
    BY <1>13, <2>1 DEF ProcessRxComplete, Types, Place
<1>14. CASE ProcessTxComplete
  <2>1. usb' \in Usbs
    BY <1>14, Parts DEF ProcessTxComplete, Completed, Usbs
  <2>2. QED
    BY <1>14, <2>1 DEF ProcessTxComplete, Types, Place
<1>15. CASE Dispatch
  BY <1>15, DispatchTypes
<1>16. CASE StartNextInTransfer
  BY <1>16, StartTypes
<1>17. CASE StartWrite
  <2>1. bus' \in Buses
    BY <1>17, BusParts DEF StartWrite, Buses, Transfer
  <2>2. QED
    BY <1>17, <2>1 DEF StartWrite, Types, Place
<1>18. CASE Sent
  <2>1. usb' \in Usbs
    BY <1>18, Parts DEF Sent, Usbs
  <2>2. response' \in BOOLEAN /\ (response' => response)
    BY <1>18 DEF Sent, Types
  <2>3. QED
    BY <1>18, <2>1, <2>2 DEF Sent, Types, Place
<1>19. CASE Publish
  <2>1. session' \in Sessions
    <3>1. PICK due \in {session.due, session.due + 1} :
            due <= MaxDue /\ session' = [session EXCEPT !.due = due]
      BY <1>19 DEF Publish
    <3>2. due \in 0..MaxDue
      BY <3>1, Parts, QueueParts
    <3>3. QED
      BY <3>1, <3>2, Parts DEF Sessions
  <2>2. QED
    BY <1>19, <2>1 DEF Publish, Types, Place
<1>20. CASE UNCHANGED vars
  BY <1>20 DEF vars, Types
<1>21. QED
  BY <1>1, <1>2, <1>3, <1>4, <1>5, <1>6, <1>7, <1>8, <1>9, <1>10, <1>11, <1>12, <1>13, <1>14, <1>15,
     <1>16, <1>17, <1>18, <1>19, <1>20 DEF Next, Task
-----------------------------------------------------------------------------
(* The stages of a bus session.                                             *)

(* Only the start over makes it live.                                       *)
LEMMA Stage ==
  ASSUME Types, Types', Generations, Renewed, Task
  PROVE  /\ bus'.open = bus.open
         /\ pc # "configured" => (Starting' <=> Starting) /\ (Live' <=> Live)
         /\ pc = "configured" => ~Starting' /\ (Live' <=> bus.open) /\ ~Live
<1>1. bus'.open = bus.open
  <2>1. CASE ArmOutTransfer \/ StartWrite
    BY <2>1, BusParts DEF ArmOutTransfer, StartWrite, Buses
  <2>2. CASE ~(ArmOutTransfer \/ StartWrite)
    BY <2>2 DEF Task, Receive, PollTimeout, ProcessEvent, ReinitSession, ReinitDone,
       ProcessConfigured, OutArmed, ProcessRxComplete, ProcessTxComplete, Dispatch, DispatchDone,
       StartNextInTransfer, Sent, RxTail, TxTail, ResetCheck, Publish
  <2>3. QED
    BY <2>1, <2>2
<1>2. pc # "configured" => (Starting' <=> Starting)
  <2>1. SUFFICES ASSUME pc # "configured", bus.open, bus'.open PROVE Starting' <=> Starting
    BY <1>1 DEF Starting
  <2>2. queue # <<>> => Len(queue) > 0 /\ 1 \in 1..Len(queue)
    BY QueueParts, EmptySeq
  <2>3. CASE Receive
    BY <2>1, <2>3, Dequeued DEF Receive, Starting
  <2>4. CASE ProcessEvent
    <3>1. event.type = "CONFIGURED" => event.generation = usb.generation /\ usb.configured
      BY <2>1, <2>4 DEF ProcessEvent, Generations
    <3>2. QED
      BY <2>1, <2>4, <3>1, Parts DEF ProcessEvent, Starting
  <2>5. CASE ReinitSession \/ ReinitDone
    BY <2>1, <2>5 DEF ReinitSession, ReinitDone, Starting
  <2>6. CASE pc \notin {"wait", "event", "CONFIGURED", "configured_clear", "configured"}
    <3>1. ~Starting
      BY <2>6 DEF Starting
    <3>2. queue' = queue /\ pc' \notin {"event", "CONFIGURED", "configured_clear", "configured"}
      BY <2>6 DEF Types, Task, Receive, PollTimeout, ProcessEvent, ReinitSession, ReinitDone,
         ProcessConfigured, ArmOutTransfer, OutArmed, ProcessRxComplete, ProcessTxComplete,
         Dispatch, DispatchDone, StartNextInTransfer, StartWrite, Sent, RxTail, TxTail,
         ResetCheck, Publish
    <3>3. queue # <<>> => queue[1].type # "CONFIGURED"
      BY <2>1, <2>2, <3>1 DEF Renewed, Live
    <3>4. QED
      BY <3>1, <3>2, <3>3 DEF Starting
  <2>7. CASE PollTimeout
    BY <2>1, <2>7 DEF PollTimeout, Starting
  <2>8. QED
    BY <2>1, <2>3, <2>4, <2>5, <2>6, <2>7 DEF Task, ProcessConfigured, ArmOutTransfer, OutArmed,
       ProcessRxComplete, ProcessTxComplete, Dispatch, DispatchDone, StartNextInTransfer,
       StartWrite, Sent, RxTail, TxTail, ResetCheck, Publish
<1>3. pc = "configured" => ~Starting' /\ ~Live
  <2> SUFFICES ASSUME pc = "configured" PROVE ~Starting' /\ ~Live
    OBVIOUS
  <2>1. pc' = "arm"
    BY DEF Task, Receive, PollTimeout, ProcessEvent, ReinitSession, ReinitDone,
       ProcessConfigured, ArmOutTransfer, OutArmed, ProcessRxComplete, ProcessTxComplete,
       Dispatch, DispatchDone, StartNextInTransfer, StartWrite, Sent, RxTail, TxTail,
       ResetCheck, Publish
  <2>2. QED
    BY <2>1 DEF Starting, Live
<1>4. QED
  BY <1>1, <1>2, <1>3 DEF Live

(* The completions are those of a live session.                             *)
LEMMA CompletionsLive ==
  ASSUME Types, Generations, UsbInComplete \/ \E k \in 1..MaxChunk : UsbOutComplete(k)
  PROVE  Live /\ pc' = pc /\ event' = event /\ bus'.open = bus.open
         /\ usb'.generation = usb.generation
<1>1. bus.out \/ bus.in # "idle"
  BY DEF UsbInComplete, UsbOutComplete
<1>2. Live
  BY <1>1 DEF Generations, Fresh
<1>3. bus'.open = bus.open /\ usb'.generation = usb.generation
  BY Parts, BusParts DEF UsbInComplete, UsbOutComplete, Buses, Usbs
<1>4. QED
  BY <1>2, <1>3 DEF UsbInComplete, UsbOutComplete, task

LEMMA StageOfCompletions ==
  ASSUME Types, Types', Generations, Renewed,
         UsbInComplete \/ \E k \in 1..MaxChunk : UsbOutComplete(k)
  PROVE  Live /\ Live'
<1>1. Live /\ pc' = pc /\ event' = event /\ bus'.open = bus.open
  BY CompletionsLive
<1>2. \A i \in 1..Len(queue) : queue[i].type # "CONFIGURED"
  BY <1>1 DEF Renewed
<1>3. queue' # <<>> => queue'[1].type # "CONFIGURED"
  <2>1. \/ queue' = queue
        \/ /\ Len(queue') = Len(queue) + 1
           /\ queue'[Len(queue) + 1].type # "CONFIGURED"
           /\ \A i \in 1..Len(queue) : queue'[i] = queue[i]
    BY InQueues, OutQueues
  <2>2. queue # <<>> => 1 \in 1..Len(queue)
    BY QueueParts, EmptySeq
  <2>3. queue = <<>> => Len(queue) + 1 = 1
    BY EmptySeq
  <2>4. QED
    BY <1>2, <2>1, <2>2, <2>3
<1>4. QED
  BY <1>1, <1>3 DEF Live, Starting
-----------------------------------------------------------------------------
(* Generations.                                                             *)

(* Most steps of the task leave all that is numbered alone.                 *)
LEMMA GenerationsKept ==
  ASSUME Types, Types', Generations, Renewed, Task, bus' = bus, host' = host,
         usb'.generation = usb.generation, usb'.configured = usb.configured,
         queue' = queue, in_buffer' = in_buffer, event' = event,
         pc' \in {"event", "RX_COMPLETE", "TX_COMPLETE"} => pc = "event" /\ event.type = pc'
                                                         /\ event.generation = usb.generation,
         Live' \/ Unread' \subseteq Unread
  PROVE  Generations'
<1>1. ~Live' => ~Live
  BY Stage
<1>2. ~Live' => Fresh' /\ \A i \in Unread' : i \in Unread
  BY <1>1 DEF Generations, Fresh
<1>3. \A i \in 1..MaxChunk : bus'.data[i].generation <= usb'.generation
  BY DEF Generations
<1>4. \A i \in 1..Len(in_buffer') :
        in_buffer'[i].kind = "answer" => in_buffer'[i].generation <= usb'.generation
  BY DEF Generations
<1>5. \A i \in 1..Len(queue') :
        IF bus'.open THEN queue'[i].generation = usb'.generation
                     ELSE queue'[i].generation < usb'.generation
  BY DEF Generations
<1>6. ~Live' => /\ \A i \in Unread' : bus'.data[i].generation < usb'.generation
                /\ \A i \in 1..Len(in_buffer') :
                     in_buffer'[i].kind = "answer" => in_buffer'[i].generation < usb'.generation
  BY <1>1, <1>2 DEF Generations
<1>7. /\ usb'.configured = bus'.open
      /\ bus'.open /\ pc' \in {"event", "RX_COMPLETE", "TX_COMPLETE"}
           => event'.generation = usb'.generation
      /\ pc' \in {"RX_COMPLETE", "TX_COMPLETE"} => event'.type = pc'
  BY DEF Generations
<1>8. QED
  BY <1>2, <1>3, <1>4, <1>5, <1>6, <1>7 DEF Generations

LEMMA GenerationsTask ==
  ASSUME Types, Types', Generations, Renewed, Task
  PROVE  Generations'
<1>1. CASE Receive
  <2>1. /\ bus' = bus /\ host' = host /\ usb' = usb /\ in_buffer' = in_buffer /\ chunk' = chunk
        /\ queue # <<>> /\ queue' = Tail(queue) /\ event' = Head(queue) /\ pc = "wait"
        /\ pc' = "event"
    BY <1>1 DEF Receive
  <2>2. \A i \in 1..Len(queue') :
          IF bus'.open THEN queue'[i].generation = usb'.generation
                       ELSE queue'[i].generation < usb'.generation
    BY <2>1, Dequeued DEF Generations
  <2>3. bus'.open => event'.generation = usb'.generation
    BY <2>1, Dequeued DEF Generations
  <2>4. ~Live' => ~Live
    BY <2>1, Stage
  <2>5. \A i \in Unread' : i \in Unread
    BY <2>1 DEF Unread
  <2>6. ~Live' => /\ Fresh'
                  /\ \A i \in Unread' : bus'.data[i].generation < usb'.generation
                  /\ \A i \in 1..Len(in_buffer') : in_buffer'[i].kind = "answer"
                       => in_buffer'[i].generation < usb'.generation
    BY <2>1, <2>4, <2>5 DEF Generations, Fresh
  <2>7. /\ \A i \in 1..MaxChunk : bus'.data[i].generation <= usb'.generation
        /\ \A i \in 1..Len(in_buffer') :
             in_buffer'[i].kind = "answer" => in_buffer'[i].generation <= usb'.generation
    BY <2>1 DEF Generations
  <2>8. usb'.configured = bus'.open /\ pc' \notin {"RX_COMPLETE", "TX_COMPLETE"}
    BY <2>1 DEF Generations
  <2>9. QED
    BY <2>2, <2>3, <2>6, <2>7, <2>8 DEF Generations
<1>2. CASE PollTimeout \/ DispatchDone \/ RxTail \/ TxTail \/ ResetCheck
  <2>1. /\ bus' = bus /\ host' = host /\ usb' = usb /\ in_buffer' = in_buffer /\ chunk' = chunk
        /\ queue' = queue /\ event' = event
        /\ pc' \notin {"event", "RX_COMPLETE", "TX_COMPLETE"}
    BY <1>2 DEF PollTimeout, DispatchDone, RxTail, TxTail, ResetCheck
  <2>2. Unread' \subseteq Unread
    BY <2>1 DEF Unread
  <2>3. QED
    BY <2>1, <2>2, GenerationsKept
<1>3. CASE ProcessEvent
  <2>1. /\ bus' = bus /\ host' = host /\ usb' = usb /\ in_buffer' = in_buffer /\ chunk' = chunk
        /\ queue' = queue /\ event' = event /\ pc = "event"
        /\ pc' = IF event.generation = usb.generation /\ usb.configured
                 THEN event.type ELSE "reset_check"
    BY <1>3 DEF ProcessEvent
  <2>2. pc' \in {"event", "RX_COMPLETE", "TX_COMPLETE"}
          => event.type = pc' /\ event.generation = usb.generation /\ usb.configured
    BY <2>1, Parts
  <2>3. pc' \in {"RX_COMPLETE", "TX_COMPLETE"} => Live
    BY <2>1, <2>2 DEF Generations, Live, Starting
  <2>4. Live' \/ Unread' \subseteq Unread
    <3>1. CASE pc' = "RX_COMPLETE"
      BY <2>1, <2>3, <3>1, Stage
    <3>2. CASE pc' # "RX_COMPLETE"
      BY <2>1, <3>2 DEF Unread
    <3>3. QED
      BY <3>1, <3>2
  <2>5. QED
    BY <2>1, <2>2, <2>4, GenerationsKept
<1>4. CASE ReinitSession \/ Publish
  <2>1. /\ bus' = bus /\ host' = host /\ usb' = usb /\ in_buffer' = in_buffer /\ chunk' = chunk
        /\ queue' = queue /\ event' = event
        /\ pc' \notin {"event", "RX_COMPLETE", "TX_COMPLETE"}
    BY <1>4 DEF ReinitSession, Publish
  <2>2. Unread' \subseteq Unread
    BY <2>1 DEF Unread
  <2>3. QED
    BY <2>1, <2>2, GenerationsKept
<1>5. CASE ReinitDone \/ OutArmed \/ Sent
  <2>1. /\ bus' = bus /\ host' = host /\ in_buffer' = in_buffer /\ chunk' = chunk
        /\ queue' = queue /\ event' = event
        /\ pc' \notin {"event", "RX_COMPLETE", "TX_COMPLETE"}
    BY <1>5 DEF ReinitDone, OutArmed, Sent, Types
  <2>2. usb'.generation = usb.generation /\ usb'.configured = usb.configured
    BY <1>5, Parts DEF ReinitDone, OutArmed, Sent, ClearReset, Usbs
  <2>3. Unread' \subseteq Unread
    BY <2>1 DEF Unread
  <2>4. QED
    BY <2>1, <2>2, <2>3, GenerationsKept
<1>6. CASE ProcessConfigured
  <2>1. /\ bus' = bus /\ host' = host /\ in_buffer' = in_buffer
        /\ queue' = queue /\ event' = event /\ pc' = "arm"
        /\ chunk' = [length |-> 0, offset |-> 0]
    BY <1>6 DEF ProcessConfigured
  <2>2. usb'.generation = usb.generation /\ usb'.configured = usb.configured
    BY <1>6, Parts DEF ProcessConfigured, Usbs
  <2>3. Unread' \subseteq Unread
    BY <2>1 DEF Unread
  <2>4. QED
    BY <2>1, <2>2, <2>3, GenerationsKept
<1>7. CASE ProcessRxComplete
  <2>1. /\ bus' = bus /\ host' = host /\ usb' = usb /\ in_buffer' = in_buffer
        /\ queue' = queue /\ event' = event /\ pc = "RX_COMPLETE" /\ pc' = "dispatch"
        /\ chunk' = [length |-> event.length, offset |-> 0]
    BY <1>7 DEF ProcessRxComplete
  <2>2. Unread' \subseteq Unread
    BY <2>1 DEF Unread
  <2>3. QED
    BY <2>1, <2>2, GenerationsKept
<1>8. CASE ProcessTxComplete
  <2>1. /\ bus' = bus /\ host' = host /\ in_buffer' = in_buffer /\ chunk' = chunk
        /\ queue' = queue /\ event' = event /\ pc' = "dispatch"
    BY <1>8 DEF ProcessTxComplete
  <2>2. usb'.generation = usb.generation /\ usb'.configured = usb.configured
    BY <1>8, Parts DEF ProcessTxComplete, Completed, Usbs
  <2>3. Unread' \subseteq Unread
    BY <2>1 DEF Unread
  <2>4. QED
    BY <2>1, <2>2, <2>3, GenerationsKept
<1>9. CASE Dispatch
  <2> DEFINE request == bus.data[chunk.offset + 1]
  <2>1. /\ bus' = bus /\ usb' = usb /\ queue' = queue /\ event' = event /\ pc' = "start"
        /\ pc = "dispatch"
        /\ in_buffer' = <<[kind |-> "answer", session |-> session.id,
                           generation |-> request.generation, n |-> request.n]>>
        /\ request.generation # usb.generation => host' = host
        /\ chunk' = [chunk EXCEPT !.offset = @ + 1] /\ chunk.offset < chunk.length
    BY <1>9 DEF Dispatch, MayDispatch
  <2>2. PICK o \in Nat, l \in 0..MaxChunk : o = chunk.offset /\ l = chunk.length /\ o + 1 <= l
    BY <2>1, Parts, QueueParts
  <2>3. chunk'.offset = o + 1 /\ chunk'.length = l
    BY <2>1, <2>2, Parts DEF Chunks
  <2>4. o + 1 \in Unread /\ o + 1 \in 1..MaxChunk /\ Unread' \subseteq Unread
    BY <2>1, <2>2, <2>3, QueueParts DEF Unread
  <2>5. /\ request.generation <= usb.generation
        /\ ~Live => request.generation < usb.generation
    BY <2>2, <2>4 DEF Generations
  <2>6. Len(in_buffer') = 1 /\ in_buffer'[1].generation = request.generation
    BY <2>1
  <2>7. ~Live' => ~Live
    BY <2>1, Stage
  <2>8. ~Live' => host' = host
    BY <2>1, <2>2, <2>4, <2>5, <2>7, Parts, BusParts
  <2>9. \A i \in 1..Len(in_buffer') :
          /\ in_buffer'[i].generation <= usb'.generation
          /\ ~Live' => in_buffer'[i].generation < usb'.generation
    BY <2>1, <2>5, <2>6, <2>7
  <2> HIDE DEF request
  <2>10. ~Live' => Fresh' /\ \A i \in Unread' : bus'.data[i].generation < usb'.generation
    BY <2>1, <2>4, <2>7, <2>8 DEF Generations, Fresh
  <2>11. /\ \A i \in 1..Len(queue') :
              IF bus'.open THEN queue'[i].generation = usb'.generation
                           ELSE queue'[i].generation < usb'.generation
         /\ \A i \in 1..MaxChunk : bus'.data[i].generation <= usb'.generation
         /\ usb'.configured = bus'.open
    BY <2>1 DEF Generations
  <2>12. QED
    BY <2>1, <2>9, <2>10, <2>11 DEF Generations
<1>10. CASE StartNextInTransfer
  <2>1. /\ bus' = bus /\ host' = host /\ usb' = usb /\ chunk' = chunk /\ event' = event
        /\ queue' = queue /\ pc' \notin {"event", "RX_COMPLETE", "TX_COMPLETE"}
    BY <1>10 DEF StartNextInTransfer, Types
  <2>2. Unread' \subseteq Unread
    BY <2>1 DEF Unread
  <2>3. CASE in_buffer' = in_buffer
    BY <2>1, <2>2, <2>3, GenerationsKept
  <2>4. CASE in_buffer' = [i \in 1..session.due |-> [kind |-> "event", session |-> session.id,
                                                     generation |-> 0, n |-> 0]]
    <3>1. \A i \in DOMAIN in_buffer' : in_buffer'[i].kind # "answer"
      BY <2>4
    <3>2. \A i \in 1..Len(in_buffer') : in_buffer'[i].kind # "answer"
      BY <3>1, LenProperties DEF Types
    <3>3. ~Live' => ~Live
      BY Stage
    <3>4. ~Live' => Fresh' /\ \A i \in Unread' : bus'.data[i].generation < usb'.generation
      BY <2>1, <2>2, <3>3 DEF Generations, Fresh
    <3>5. /\ \A i \in 1..Len(queue') :
               IF bus'.open THEN queue'[i].generation = usb'.generation
                            ELSE queue'[i].generation < usb'.generation
          /\ \A i \in 1..MaxChunk : bus'.data[i].generation <= usb'.generation
          /\ usb'.configured = bus'.open
      BY <2>1 DEF Generations
    <3>6. QED
      BY <2>1, <3>2, <3>4, <3>5 DEF Generations
  <2>5. QED
    BY <1>10, <2>3, <2>4 DEF StartNextInTransfer
<1>11. CASE ArmOutTransfer \/ StartWrite
  <2>1. /\ host' = host /\ usb' = usb /\ chunk' = chunk /\ event' = event /\ queue' = queue
        /\ in_buffer' = in_buffer /\ pc' \notin {"event", "RX_COMPLETE", "TX_COMPLETE"}
    BY <1>11 DEF ArmOutTransfer, StartWrite, Types
  <2>2. Unread' \subseteq Unread
    BY <2>1 DEF Unread
  <2>3. CASE bus' = bus
    BY <2>1, <2>2, <2>3, GenerationsKept
  <2>4. CASE bus.open
    <3>1. bus'.open = bus.open /\ bus'.data = bus.data
      BY <1>11, BusParts DEF ArmOutTransfer, StartWrite, Buses
    <3>2. Live /\ Live'
      <4>1. Live
        BY <1>11, <2>4 DEF ArmOutTransfer, StartWrite, Live, Starting
      <4>2. QED
        BY <4>1, Stage
    <3>3. QED
      BY <2>1, <3>1, <3>2 DEF Generations
  <2>5. QED
    BY <1>11, <2>3, <2>4 DEF ArmOutTransfer, StartWrite
<1>12. QED
  BY <1>1, <1>2, <1>3, <1>4, <1>5, <1>6, <1>7, <1>8, <1>9, <1>10, <1>11 DEF Task

LEMMA BusResetStage ==
  ASSUME Types, BusReset
  PROVE  ~bus'.open /\ ~Live' /\ ~Starting'
<1>1. ~bus'.open
  BY BusParts DEF BusReset, Buses
<1>2. QED
  BY <1>1 DEF Live, Starting

LEMMA BusResetGenerations ==
  ASSUME Types, Types', Generations, BusReset
  PROVE  Generations'
<1>1. /\ usb'.generation = usb.generation + 1 /\ ~usb'.configured
      /\ ~bus'.open /\ ~bus'.out /\ bus'.in = "idle" /\ bus'.data = bus.data
  BY BusParts DEF BusReset, Buses
<1>2. queue' = queue /\ pc' = pc /\ event' = event /\ chunk' = chunk /\ in_buffer' = in_buffer
  BY DEF BusReset, task
<1>3. PICK g \in Nat : g = usb.generation /\ g < usb'.generation
  BY <1>1, Parts, QueueParts
<1>4. Fresh'
  BY <1>1 DEF BusReset, Fresh
<1>5. \A i \in 1..Len(queue') : queue'[i].generation < usb'.generation
  <2>1. \A i \in 1..Len(queue) : queue[i].generation <= g /\ queue[i].generation \in Nat
    <3>1. \A i \in 1..Len(queue) : queue[i] \in Event
      BY QueueParts, ElementOfSeq
    <3>2. \A i \in 1..Len(queue) : queue[i].generation \in Nat
      BY <3>1 DEF Event
    <3>3. QED
      BY <1>3, <3>2 DEF Generations
  <2>2. QED
    BY <1>1, <1>2, <1>3, <2>1
<1>6. \A i \in 1..MaxChunk : bus'.data[i].generation < usb'.generation
  <2>1. \A i \in 1..MaxChunk : bus.data[i].generation <= g /\ bus.data[i].generation \in Nat
    BY <1>3, BusParts DEF Generations
  <2>2. QED
    BY <1>1, <1>3, <2>1
<1>7. \A i \in 1..Len(in_buffer') :
        in_buffer'[i].kind = "answer" => in_buffer'[i].generation < usb'.generation
  <2>1. \A i \in 1..Len(in_buffer) : in_buffer[i] \in Frame
    BY QueueParts, ElementOfSeq
  <2>2. \A i \in 1..Len(in_buffer) : in_buffer[i].generation \in Nat
    BY <2>1 DEF Frame
  <2>3. QED
    BY <1>1, <1>2, <1>3, <2>2 DEF Generations
<1>8. \A i \in 1..MaxChunk : bus'.data[i].generation <= usb'.generation
  BY <1>1, <1>3, <1>6, BusParts
<1>9. \A i \in 1..Len(in_buffer') :
        in_buffer'[i].kind = "answer" => in_buffer'[i].generation <= usb'.generation
  <2>1. \A i \in 1..Len(in_buffer) : in_buffer[i] \in Frame
    BY QueueParts, ElementOfSeq
  <2>2. \A i \in 1..Len(in_buffer) : in_buffer[i].generation \in Nat
    BY <2>1 DEF Frame
  <2>3. QED
    BY <1>1, <1>2, <1>3, <1>7, <2>2
<1>10. \A i \in Unread' : bus'.data[i].generation < usb'.generation
  BY <1>6 DEF Unread
<1>11. /\ usb'.configured = bus'.open
       /\ \A i \in 1..Len(queue') :
            IF bus'.open THEN queue'[i].generation = usb'.generation
                         ELSE queue'[i].generation < usb'.generation
  <2>1. usb'.configured = FALSE /\ bus'.open = FALSE
    BY BusParts DEF BusReset, Buses
  <2>2. QED
    BY <1>5, <2>1
<1>12. /\ bus'.open /\ pc' \in {"event", "RX_COMPLETE", "TX_COMPLETE"}
            => event'.generation = usb'.generation
       /\ pc' \in {"RX_COMPLETE", "TX_COMPLETE"} => event'.type = pc'
  BY <1>1, <1>2 DEF Generations
<1>13. QED
  BY <1>4, <1>7, <1>8, <1>9, <1>10, <1>11, <1>12 DEF Generations

LEMMA ConfiguredStage ==
  ASSUME Types, ConfigureAnytime = FALSE, Configured
  PROVE  /\ bus'.open /\ Starting' /\ ~Live' /\ ~Live /\ ~Starting
         /\ Len(queue') = 1 /\ queue'[1].type = "CONFIGURED"
         /\ queue'[1].generation = usb.generation /\ pc' = pc /\ pc = "wait"
<1>1. pc' = pc /\ pc = "wait" /\ queue = <<>> /\ ~bus.open
  BY DEF Configured, task
<1>2. bus'.open
  BY BusParts DEF Configured, Buses
<1>3. 0 \in 0..MaxChunk /\ FALSE \in BOOLEAN
  BY QueueParts
<1>4. QueueEvent("CONFIGURED", 0, FALSE)
  BY DEF Configured
<1>5. PICK e : queue' = <<e>> /\ e.type = "CONFIGURED" /\ e.generation = usb.generation
  <2>1. "CONFIGURED" \in {"CONFIGURED", "RX_COMPLETE", "TX_COMPLETE"}
    OBVIOUS
  <2>2. \E e \in Event :
             /\ e = NewEvent("CONFIGURED", 0, FALSE) /\ e.type = "CONFIGURED"
             /\ e.generation = usb.generation /\ e.length = 0 /\ e.full = FALSE
             /\ queue' \in Seq(Event) /\ Len(queue') <= QueueLength
             /\ \/ queue' = queue
                \/ /\ Len(queue') = Len(queue) + 1 /\ queue'[Len(queue) + 1] = e
                   /\ \A i \in 1..Len(queue) : queue'[i] = queue[i]
             /\ queue = <<>> => queue' = <<e>>
    BY <1>3, <1>4, <2>1, Queued, Zenon
  <2>3. QED
    BY <1>1, <2>2
<1>6. Len(queue') = 1 /\ queue'[1] = e /\ queue' # <<>>
  BY <1>5
<1>7. QED
  BY <1>1, <1>2, <1>5, <1>6 DEF Live, Starting

LEMMA ConfiguredGenerations ==
  ASSUME Types, Types', Generations, ConfigureAnytime = FALSE, Configured
  PROVE  Generations'
<1>1. /\ usb'.generation = usb.generation /\ usb'.configured
      /\ bus'.open /\ bus'.out = bus.out /\ bus'.in = bus.in /\ bus'.data = bus.data
  BY Parts, BusParts DEF Configured, Usbs, Buses
<1>2. host' = host /\ event' = event /\ chunk' = chunk /\ in_buffer' = in_buffer
  BY DEF Configured, task
<1>3. /\ ~Live' /\ ~Live /\ Len(queue') = 1 /\ queue'[1].generation = usb.generation
      /\ pc' = pc /\ pc = "wait"
  BY ConfiguredStage
<1>4. Fresh'
  BY <1>1, <1>2, <1>3 DEF Generations, Fresh
<1>5. \A i \in 1..Len(queue') : queue'[i].generation = usb'.generation
  BY <1>1, <1>3
<1>6. \A i \in Unread' : bus'.data[i].generation < usb'.generation
  BY <1>1, <1>2, <1>3 DEF Generations, Unread
<1>7. QED
  BY <1>1, <1>2, <1>3, <1>4, <1>5, <1>6 DEF Generations

LEMMA CompletionGenerations ==
  ASSUME Types, Types', Generations, Renewed,
         UsbInComplete \/ \E k \in 1..MaxChunk : UsbOutComplete(k)
  PROVE  Generations'
<1>1. /\ Live /\ pc' = pc /\ event' = event /\ bus'.open = bus.open /\ bus.open
      /\ usb'.generation = usb.generation /\ Live'
  BY CompletionsLive, StageOfCompletions DEF Live
<1>2. usb'.configured = usb.configured /\ in_buffer' = in_buffer /\ chunk' = chunk
  BY Parts DEF UsbInComplete, UsbOutComplete, Usbs, task
<1>3. \/ queue' = queue
      \/ /\ Len(queue') = Len(queue) + 1
         /\ queue'[Len(queue) + 1].generation = usb.generation
         /\ \A i \in 1..Len(queue) : queue'[i] = queue[i]
  BY InQueues, OutQueues
<1>4. \A i \in 1..Len(queue') : queue'[i].generation = usb'.generation
  <2>1. Len(queue) \in Nat /\ \A i \in 1..Len(queue) : queue[i].generation = usb.generation
    BY <1>1, QueueParts DEF Generations
  <2>2. QED
    BY <1>1, <1>3, <2>1
<1>5. \A i \in 1..MaxChunk : bus'.data[i].generation <= usb'.generation
  <2>1. CASE UsbInComplete
    <3>1. bus'.data = bus.data
      BY <2>1, BusParts DEF UsbInComplete, Buses
    <3>2. QED
      BY <1>1, <3>1 DEF Generations
  <2>2. CASE \E k \in 1..MaxChunk : UsbOutComplete(k)
    <3>1. PICK k \in 1..MaxChunk :
            bus' = [bus EXCEPT !.out = FALSE,
                      !.data = [i \in 1..MaxChunk |->
                                  IF i <= k THEN [generation |-> usb.generation,
                                                  n |-> host.sent + i]
                                            ELSE bus.data[i]]]
      BY <2>2 DEF UsbOutComplete
    <3>2. bus'.data = [i \in 1..MaxChunk |->
                         IF i <= k THEN [generation |-> usb.generation, n |-> host.sent + i]
                                   ELSE bus.data[i]]
      BY <3>1, BusParts DEF Buses
    <3>3. \A i \in 1..MaxChunk : bus'.data[i].generation \in {usb.generation,
                                                              bus.data[i].generation}
      BY <3>2
    <3>4. usb.generation <= usb.generation
      BY Parts, QueueParts
    <3>5. QED
      BY <1>1, <3>3, <3>4 DEF Generations
  <2>3. QED
    BY <2>1, <2>2
<1>6. QED
  BY <1>1, <1>2, <1>4, <1>5 DEF Generations

LEMMA GenerationsStep ==
  ASSUME Types, Types', Generations, Renewed, ConfigureAnytime = FALSE, [Next]_vars
  PROVE  Generations'
<1>1. CASE UNCHANGED vars
  BY <1>1 DEF vars, Generations, Fresh, Live, Starting, Unread
<1>2. QED
  BY <1>1, GenerationsTask, BusResetGenerations, ConfiguredGenerations, CompletionGenerations
     DEF Next
-----------------------------------------------------------------------------
(* The session is renewed.                                                  *)

(* What the task never does: to change the host's floor, to take back a     *)
(* session, to ask for a reset.                                             *)
LEMMA TaskKeeps ==
  ASSUME Types, Task
  PROVE  /\ host'.floor = host.floor /\ session'.id \in Nat /\ session.id <= session'.id
         /\ usb'.reset_pending => usb.reset_pending
         /\ session' = session \/ session'.id = session.id \/ ReinitSession
<1>1. PICK n \in Nat : n = session.id
  BY Parts
<1>2. CASE ReinitSession
  BY <1>1, <1>2 DEF ReinitSession
<1>3. CASE Dispatch
  <2>1. host'.floor = host.floor
    BY <1>3, HostParts DEF Dispatch, Hosts
  <2>2. session'.id = session.id
    BY <1>3, Parts DEF Dispatch, Sessions
  <2>3. usb' = usb
    BY <1>3 DEF Dispatch
  <2>4. QED
    BY <1>1, <2>1, <2>2, <2>3
<1>4. CASE StartNextInTransfer \/ Publish
  <2>1. session'.id = session.id
    BY <1>4, Parts DEF StartNextInTransfer, Publish, Sessions
  <2>2. host' = host /\ usb' = usb
    BY <1>4 DEF StartNextInTransfer, Publish
  <2>3. QED
    BY <1>1, <2>1, <2>2
<1>5. CASE ReinitDone \/ ProcessConfigured \/ OutArmed \/ ProcessTxComplete \/ Sent
  <2>1. usb'.reset_pending => usb.reset_pending
    BY <1>5, Parts DEF ReinitDone, ProcessConfigured, OutArmed, ProcessTxComplete, Sent,
       ClearReset, Completed, Usbs
  <2>2. host' = host /\ session' = session
    BY <1>5 DEF ReinitDone, ProcessConfigured, OutArmed, ProcessTxComplete, Sent
  <2>3. QED
    BY <1>1, <2>1, <2>2
<1>6. CASE \/ Receive \/ PollTimeout \/ ProcessEvent \/ ArmOutTransfer \/ ProcessRxComplete
           \/ DispatchDone \/ StartWrite \/ RxTail \/ TxTail \/ ResetCheck
  <2>1. host' = host /\ session' = session /\ usb' = usb
    BY <1>6 DEF Receive, PollTimeout, ProcessEvent, ArmOutTransfer, ProcessRxComplete,
       DispatchDone, StartWrite, RxTail, TxTail, ResetCheck
  <2>2. QED
    BY <1>1, <2>1
<1>7. QED
  BY <1>2, <1>3, <1>4, <1>5, <1>6 DEF Task

LEMMA RenewedTask ==
  ASSUME Types, Types', Generations, Renewed, Task
  PROVE  Renewed'
<1>1. PICK f \in Nat, n \in Nat, m \in Nat :
        /\ f = host.floor /\ f = host'.floor /\ n = session.id /\ m = session'.id
        /\ n <= m /\ f <= n
  BY TaskKeeps, Parts, HostParts DEF Renewed
<1>2. host'.floor <= session'.id
  BY <1>1
<1>3. ASSUME Starting'
      PROVE  /\ Len(queue') = (IF pc' = "wait" THEN 1 ELSE 0)
             /\ pc' \in {"configured_clear", "configured"} => host'.floor < session'.id
             /\ pc' = "configured" => ~usb'.reset_pending
  <2>1. Starting /\ pc # "configured"
    BY <1>3, Stage
  <2>2. Len(queue) = (IF pc = "wait" THEN 1 ELSE 0)
    BY <2>1 DEF Renewed
  <2>3. CASE Receive
    BY <2>2, <2>3, Dequeued DEF Receive
  <2>4. CASE ProcessEvent
    BY <2>1, <2>2, <2>4, Parts DEF ProcessEvent, Starting
  <2>5. CASE ReinitSession
    <3>1. session'.id = session.id + 1
      BY <2>5 DEF ReinitSession
    <3>2. QED
      BY <1>1, <2>1, <2>2, <2>5, <3>1 DEF ReinitSession, Starting
  <2>6. CASE ReinitDone
    <3>1. ~usb'.reset_pending
      BY <2>6, Parts DEF ReinitDone, ClearReset, Usbs
    <3>2. pc = "configured_clear"
      BY <2>1, <2>6 DEF ReinitDone, Starting
    <3>3. f < n
      BY <1>1, <2>1, <3>2 DEF Renewed
    <3>4. QED
      BY <1>1, <2>2, <2>6, <3>1, <3>2, <3>3 DEF ReinitDone
  <2>7. CASE PollTimeout
    BY <2>1, <2>7 DEF PollTimeout, Starting
  <2>8. QED
    BY <2>1, <2>3, <2>4, <2>5, <2>6, <2>7 DEF Starting, Task, ProcessConfigured, ArmOutTransfer,
       OutArmed, ProcessRxComplete, ProcessTxComplete, Dispatch, DispatchDone,
       StartNextInTransfer, StartWrite, Sent, RxTail, TxTail, ResetCheck, Publish
<1>4. ASSUME Live'
      PROVE  /\ host'.floor < session'.id /\ ~usb'.reset_pending
             /\ pc' \notin {"reinit", "reinit_clear"}
             /\ \A i \in 1..Len(queue') : queue'[i].type # "CONFIGURED"
  <2>1. CASE pc = "configured"
    <3>1. Starting
      BY <1>4, <2>1, Stage DEF Starting
    <3>2. Len(queue) = 0 /\ f < n /\ ~usb.reset_pending
      BY <1>1, <2>1, <3>1 DEF Renewed
    <3>3. ProcessConfigured
      BY <2>1 DEF Task, Receive, PollTimeout, ProcessEvent, ReinitSession, ReinitDone,
         ArmOutTransfer, OutArmed, ProcessRxComplete, ProcessTxComplete, Dispatch, DispatchDone,
         StartNextInTransfer, StartWrite, Sent, RxTail, TxTail, ResetCheck, Publish
    <3>4. queue' = queue /\ pc' = "arm"
      BY <3>3 DEF ProcessConfigured
    <3>5. QED
      BY <1>1, <3>2, <3>4, TaskKeeps
  <2>2. CASE pc # "configured"
    <3>1. Live
      BY <1>4, <2>2, Stage
    <3>2. /\ f < n /\ ~usb.reset_pending /\ pc \notin {"reinit", "reinit_clear"}
          /\ \A i \in 1..Len(queue) : queue[i].type # "CONFIGURED"
      BY <1>1, <3>1 DEF Renewed
    <3>3. pc' \notin {"reinit", "reinit_clear"}
      BY <3>2, Parts DEF Types, Task, Receive, PollTimeout, ProcessEvent, ReinitSession, ReinitDone,
         ProcessConfigured, ArmOutTransfer, OutArmed, ProcessRxComplete, ProcessTxComplete,
         Dispatch, DispatchDone, StartNextInTransfer, StartWrite, Sent, RxTail, TxTail,
         ResetCheck, Publish
    <3>4. \A i \in 1..Len(queue') : queue'[i].type # "CONFIGURED"
      <4>1. CASE Receive
        BY <3>2, <4>1, Dequeued DEF Receive
      <4>2. CASE ~Receive
        <5>1. queue' = queue
          BY <4>2 DEF Task, PollTimeout, ProcessEvent, ReinitSession, ReinitDone,
             ProcessConfigured, ArmOutTransfer, OutArmed, ProcessRxComplete, ProcessTxComplete,
             Dispatch, DispatchDone, StartNextInTransfer, StartWrite, Sent, RxTail, TxTail,
             ResetCheck, Publish
        <5>2. QED
          BY <3>2, <5>1
      <4>3. QED
        BY <4>1, <4>2
    <3>5. QED
      BY <1>1, <3>2, <3>3, <3>4, TaskKeeps
  <2>3. QED
    BY <2>1, <2>2
<1>5. QED
  BY <1>2, <1>3, <1>4 DEF Renewed

LEMMA RenewedStep ==
  ASSUME Types, Types', Generations, Renewed, ConfigureAnytime = FALSE, [Next]_vars
  PROVE  Renewed'
<1>1. CASE Task
  BY <1>1, RenewedTask
<1>2. CASE BusReset
  <2>1. host'.floor = session.id /\ session' = session
    BY <1>2 DEF BusReset, task
  <2>2. host'.floor <= session'.id
    BY <2>1, Parts
  <2>3. QED
    BY <1>2, <2>2, BusResetStage DEF Renewed
<1>3. CASE Configured
  <2>1. host' = host /\ session' = session
    BY <1>3 DEF Configured, task
  <2>2. QED
    BY <1>3, <2>1, ConfiguredStage DEF Renewed
<1>4. CASE UsbInComplete \/ \E k \in 1..MaxChunk : UsbOutComplete(k)
  <2>1. Live /\ Live'
    BY <1>4, StageOfCompletions
  <2>2. host'.floor = host.floor /\ session' = session /\ pc' = pc
    BY <1>4, HostParts DEF UsbInComplete, UsbOutComplete, Hosts, task
  <2>3. usb'.reset_pending = usb.reset_pending
    BY <1>4, Parts DEF UsbInComplete, UsbOutComplete, Usbs
  <2>4. \/ queue' = queue
        \/ /\ Len(queue') = Len(queue) + 1
           /\ queue'[Len(queue) + 1].type # "CONFIGURED"
           /\ \A i \in 1..Len(queue) : queue'[i] = queue[i]
    BY <1>4, InQueues, OutQueues
  <2>5. \A i \in 1..Len(queue') : queue'[i].type # "CONFIGURED"
    BY <2>1, <2>4, QueueParts DEF Renewed
  <2>6. ~Starting'
    BY <2>1 DEF Live
  <2>7. QED
    BY <2>1, <2>2, <2>3, <2>5, <2>6 DEF Renewed
<1>5. CASE UNCHANGED vars
  BY <1>5 DEF vars, Renewed, Starting, Live
<1>6. QED
  BY <1>1, <1>2, <1>3, <1>4, <1>5 DEF Next
-----------------------------------------------------------------------------
(* The IN endpoint of a live bus session.                                   *)

(* Most steps of the task leave it alone.                                   *)
LEMMA TransferKept ==
  ASSUME Types, OneTransfer, Buffered, ZlpOwed,
         usb'.in_flight = usb.in_flight, usb'.zlp_in_flight = usb.zlp_in_flight,
         usb'.zlp_pending = usb.zlp_pending, bus'.in = bus.in, host' = host,
         queue' = queue, event' = event, response' = response, in_buffer' = in_buffer,
         pc \notin {"sent", "sent_zlp"}, pc' \notin {"write", "write_zlp", "sent", "sent_zlp"},
         pc' \in {"event", "TX_COMPLETE"} => pc = "event"
  PROVE  OneTransfer' /\ Buffered' /\ ZlpOwed'
<1>1. (Busy' <=> Busy) /\ (ZlpPhase' <=> ZlpPhase) /\ (InTransfer' <=> InTransfer)
  BY DEF Busy, ZlpPhase, InTransfer
<1>2. OneTransfer'
  BY <1>1 DEF OneTransfer
<1>3. Buffered'
  BY <1>1 DEF Buffered
<1>4. ZlpOwed'
  BY <1>1 DEF ZlpOwed
<1>5. QED
  BY <1>2, <1>3, <1>4

(* The start over resets it.                                                *)
LEMMA TransferStarted ==
  ASSUME Types, Types', Generations, Renewed, ProcessConfigured, Live'
  PROVE  OneTransfer' /\ Buffered' /\ ZlpOwed'
<1>1. /\ ~usb'.in_flight /\ ~usb'.zlp_in_flight /\ ~usb'.zlp_pending
  BY Parts DEF ProcessConfigured, Usbs
<1>2. /\ pc = "configured" /\ pc' = "arm" /\ ~response' /\ queue' = queue /\ bus' = bus
      /\ host' = host
  BY DEF ProcessConfigured
<1>3. Starting
  BY <1>2 DEF Starting, Live
<1>4. Len(queue') = 0 /\ 1..Len(queue') = {}
  BY <1>2, <1>3 DEF Renewed
<1>5. bus'.in = "idle" /\ ~host'.stale /\ ~host'.unterminated
  BY <1>2, <1>3 DEF Generations, Live, Fresh
<1>6. ~Busy' /\ ~InTransfer' /\ ~ZlpPhase'
  BY <1>1, <1>2, <1>5 DEF Busy, InTransfer, ZlpPhase
<1>7. OneTransfer'
  BY <1>2, <1>4, <1>5, <1>6 DEF OneTransfer
<1>8. Buffered'
  BY <1>1, <1>2, <1>5, <1>6 DEF Buffered
<1>9. ZlpOwed'
  <2>1. host'.unterminated = usb'.zlp_pending
    <3>1. host'.unterminated = FALSE
      BY <1>2, <1>5, HostParts
    <3>2. usb'.zlp_pending = FALSE
      BY Parts DEF ProcessConfigured, Usbs
    <3>3. QED
      BY <3>1, <3>2
  <2>2. QED
    BY <1>1, <1>2, <1>4, <1>5, <1>6, <2>1 DEF ZlpOwed
<1>10. QED
  BY <1>7, <1>8, <1>9

(* The task takes an event: a completion finds the endpoint idle.           *)
LEMMA TransferReceive ==
  ASSUME Types, Receive, OneTransfer, Buffered, ZlpOwed
  PROVE  OneTransfer' /\ Buffered' /\ ZlpOwed'
<1>1. /\ pc = "wait" /\ pc' = "event" /\ queue # <<>> /\ queue' = Tail(queue)
      /\ event' = Head(queue) /\ usb' = usb /\ bus' = bus /\ host' = host
      /\ response' = response /\ in_buffer' = in_buffer
  BY DEF Receive
<1>2. /\ event' = queue[1] /\ 1 \in 1..Len(queue) /\ Len(queue) \in Nat
      /\ \A i \in 1..Len(queue') : i + 1 \in 1..Len(queue) /\ queue'[i] = queue[i + 1]
  BY <1>1, Dequeued, QueueParts
<1>3. (Busy' <=> Busy) /\ (ZlpPhase' <=> ZlpPhase) /\ (InTransfer' <=> InTransfer)
  BY <1>1 DEF Busy, ZlpPhase, InTransfer
<1>4. event'.type = "TX_COMPLETE" =>
        /\ usb.in_flight /\ bus.in = "idle"
        /\ \A i \in 1..Len(queue') : queue'[i].type # "TX_COMPLETE"
  <2> SUFFICES ASSUME event'.type = "TX_COMPLETE"
               PROVE  /\ usb.in_flight /\ bus.in = "idle"
                      /\ \A i \in 1..Len(queue') : queue'[i].type # "TX_COMPLETE"
    OBVIOUS
  <2>1. usb.in_flight /\ bus.in = "idle"
    BY <1>1, <1>2 DEF OneTransfer, Busy
  <2>2. \A i \in 1..Len(queue') : queue[i + 1].type # "TX_COMPLETE"
    <3>1. \A i \in 1..Len(queue') : i + 1 # 1
      OBVIOUS
    <3>2. QED
      BY <1>2, <3>1 DEF OneTransfer
  <2>3. QED
    BY <1>2, <2>1, <2>2
<1>5. OneTransfer'
  <2>1. bus.in # "idle" => Busy /\ \A i \in 1..Len(queue') : queue'[i].type # "TX_COMPLETE"
    BY <1>2 DEF OneTransfer
  <2>2. (\E i \in 1..Len(queue') : queue'[i].type = "TX_COMPLETE") => Busy
    BY <1>2 DEF OneTransfer
  <2>3. \A i, j \in 1..Len(queue') :
          queue'[i].type = "TX_COMPLETE" /\ queue'[j].type = "TX_COMPLETE" => i = j
    <3>1. \A i, j \in 1..Len(queue') :
            queue'[i].type = "TX_COMPLETE" /\ queue'[j].type = "TX_COMPLETE" => i + 1 = j + 1
      BY <1>2 DEF OneTransfer
    <3>2. QED
      BY <3>1
  <2>4. QED
    BY <1>1, <1>3, <1>4, <2>1, <2>2, <2>3 DEF OneTransfer
<1>6. Buffered'
  BY <1>1, <1>3 DEF Buffered
<1>7. ZlpOwed'
  BY <1>1, <1>2, <1>3 DEF ZlpOwed
<1>8. QED
  BY <1>5, <1>6, <1>7

(* A completion: the endpoint is free, a ZLP may be owed.                   *)
LEMMA TransferCompleted ==
  ASSUME Types, ProcessTxComplete, Generations, OneTransfer, Buffered, ZlpOwed
  PROVE  OneTransfer' /\ Buffered' /\ ZlpOwed'
<1>1. /\ pc = "TX_COMPLETE" /\ pc' = "dispatch" /\ queue' = queue /\ bus' = bus /\ host' = host
      /\ response' = response /\ in_buffer' = in_buffer /\ event' = event
      /\ event.type = "TX_COMPLETE"
  BY DEF ProcessTxComplete, Generations
<1>2. /\ usb'.in_flight = FALSE /\ usb'.zlp_in_flight = FALSE
      /\ usb'.zlp_pending = (usb.zlp_pending \/ (~usb.zlp_in_flight /\ event.full))
  BY Parts DEF ProcessTxComplete, Completed, Usbs
<1>3. /\ usb.in_flight /\ bus.in = "idle"
      /\ \A i \in 1..Len(queue) : queue[i].type # "TX_COMPLETE"
  BY <1>1 DEF OneTransfer
<1>4. ~Busy' /\ ~ZlpPhase' /\ ~InTransfer'
  BY <1>1, <1>2, <1>3 DEF Busy, ZlpPhase, InTransfer
<1>5. host'.unterminated = usb'.zlp_pending
  <2>1. ZlpPhase <=> usb.zlp_in_flight
    BY <1>1 DEF ZlpPhase
  <2>2. usb.zlp_pending = FALSE
    BY <1>3, Parts DEF ZlpOwed
  <2>3. IF ZlpPhase THEN ~event.full /\ ~host.unterminated
                    ELSE event.full = host.unterminated
    BY <1>1 DEF ZlpOwed
  <2>4. QED
    BY <1>1, <1>2, <2>1, <2>2, <2>3, Parts, HostParts
<1>6. OneTransfer'
  BY <1>1, <1>3, <1>4 DEF OneTransfer
<1>7. Buffered'
  BY <1>1, <1>2, <1>4 DEF Buffered, InTransfer
<1>8. ZlpOwed'
  BY <1>1, <1>2, <1>3, <1>4, <1>5 DEF ZlpOwed
<1>9. QED
  BY <1>6, <1>7, <1>8

(* Something is written only to a free endpoint.                            *)
LEMMA FreeEndpoint ==
  ASSUME Types, OneTransfer, ZlpOwed, ~Busy
  PROVE  /\ bus.in = "idle" /\ ~InTransfer /\ ~ZlpPhase /\ ~usb.in_flight /\ ~usb.zlp_in_flight
         /\ \A i \in 1..Len(queue) : queue[i].type # "TX_COMPLETE"
         /\ host.unterminated = usb.zlp_pending
BY DEF OneTransfer, ZlpOwed, Busy, InTransfer, ZlpPhase

LEMMA TransferDispatch ==
  ASSUME Types, Types', Dispatch, Live, Renewed, OneTransfer, Buffered, ZlpOwed
  PROVE  OneTransfer' /\ Buffered' /\ ZlpOwed'
<1>1. /\ pc = "dispatch" /\ pc' = "start" /\ ~usb.in_flight /\ usb' = usb /\ queue' = queue
      /\ bus' = bus /\ event' = event
  BY DEF Dispatch, MayDispatch
<1>2. ~Busy /\ ~Busy' /\ ~ZlpPhase /\ ~ZlpPhase' /\ bus.in = "idle" /\ ~InTransfer'
      /\ ~usb.zlp_in_flight /\ \A i \in 1..Len(queue) : queue[i].type # "TX_COMPLETE"
      /\ host.unterminated = usb.zlp_pending
  <2>1. ~Busy
    BY <1>1 DEF Busy
  <2>2. QED
    BY <1>1, <2>1, FreeEndpoint DEF Busy, ZlpPhase, InTransfer
<1>3. host'.unterminated = host.unterminated /\ host'.stale = host.stale
      /\ host'.floor = host.floor
  BY HostParts DEF Dispatch, Hosts
<1>4. \A i \in 1..Len(in_buffer') : in_buffer'[i].session > host'.floor
  <2>1. in_buffer' = <<[kind |-> "answer", session |-> session.id,
                        generation |-> bus.data[chunk.offset + 1].generation,
                        n |-> bus.data[chunk.offset + 1].n]>>
    BY DEF Dispatch
  <2>2. Len(in_buffer') = 1 /\ in_buffer'[1].session = session.id
    BY <2>1
  <2>3. session.id > host.floor
    BY Parts, HostParts DEF Renewed
  <2>4. QED
    BY <1>3, <2>2, <2>3
<1>5. OneTransfer'
  BY <1>1, <1>2 DEF OneTransfer
<1>6. Buffered'
  BY <1>1, <1>2, <1>3, <1>4 DEF Buffered
<1>7. ZlpOwed'
  BY <1>1, <1>2, <1>3 DEF ZlpOwed
<1>8. QED
  BY <1>5, <1>6, <1>7

LEMMA TransferStart ==
  ASSUME Types, Types', StartNextInTransfer, Live, Renewed, OneTransfer, Buffered, ZlpOwed
  PROVE  OneTransfer' /\ Buffered' /\ ZlpOwed'
<1>1. /\ pc = "start" /\ usb' = usb /\ queue' = queue /\ bus' = bus /\ event' = event
      /\ host' = host
  BY DEF StartNextInTransfer
<1>2. CASE UNCHANGED <<response, in_buffer, session>> /\ pc' = ret
  BY <1>1, <1>2, TransferKept DEF Types
<1>3. CASE ~usb.in_flight /\ pc' \in {"write", "write_zlp"}
  <2>1. /\ ~Busy /\ ~Busy' /\ ~ZlpPhase /\ ~ZlpPhase' /\ bus.in = "idle" /\ ~InTransfer'
        /\ ~usb.zlp_in_flight /\ \A i \in 1..Len(queue) : queue[i].type # "TX_COMPLETE"
        /\ host.unterminated = usb.zlp_pending
    <3>1. ~Busy
      BY <1>1, <1>3 DEF Busy
    <3>2. QED
      BY <1>1, <1>3, <3>1, FreeEndpoint DEF Busy, ZlpPhase, InTransfer
  <2>2. (pc' = "write_zlp") => usb.zlp_pending
    BY <1>3 DEF StartNextInTransfer, Types, ZlpNext
  <2>3. (pc' = "write") => ~usb.zlp_pending
    BY <1>3 DEF StartNextInTransfer, Types, ZlpNext
  <2>4. response' => \A i \in 1..Len(in_buffer') : in_buffer'[i].session > host.floor
    <3>1. CASE UNCHANGED <<response, in_buffer>>
      BY <3>1 DEF Buffered
    <3>2. CASE in_buffer' = [i \in 1..session.due |-> [kind |-> "event", session |-> session.id,
                                                       generation |-> 0, n |-> 0]]
      <4>1. \A i \in DOMAIN in_buffer' : in_buffer'[i].session = session.id
        BY <3>2
      <4>2. \A i \in 1..Len(in_buffer') : in_buffer'[i].session = session.id
        BY <4>1, LenProperties DEF Types
      <4>3. session.id > host.floor
        BY Parts, HostParts DEF Renewed
      <4>4. QED
        BY <4>2, <4>3
    <3>3. QED
      BY <3>1, <3>2 DEF StartNextInTransfer
  <2>5. OneTransfer'
    BY <1>1, <1>3, <2>1 DEF OneTransfer
  <2>6. Buffered'
    BY <1>1, <1>3, <2>1, <2>4 DEF Buffered
  <2>7. ZlpOwed'
    BY <1>1, <1>3, <2>1, <2>2, <2>3 DEF ZlpOwed
  <2>8. QED
    BY <2>5, <2>6, <2>7
<1>4. QED
  BY <1>2, <1>3 DEF StartNextInTransfer

LEMMA TransferWrite ==
  ASSUME Types, StartWrite, Live, OneTransfer, Buffered, ZlpOwed
  PROVE  OneTransfer' /\ Buffered' /\ ZlpOwed'
<1>1. /\ pc \in {"write", "write_zlp"} /\ bus.open /\ usb' = usb /\ queue' = queue
      /\ event' = event /\ host' = host /\ response' = response /\ in_buffer' = in_buffer
      /\ pc' = (IF pc = "write" THEN "sent" ELSE "sent_zlp")
  BY DEF StartWrite, Live
<1>2. /\ ~usb.in_flight /\ ~Busy /\ Busy' /\ ~usb.zlp_in_flight
      /\ \A i \in 1..Len(queue) : queue[i].type # "TX_COMPLETE"
      /\ host.unterminated = usb.zlp_pending
  <2>1. ~usb.in_flight /\ ~Busy
    BY <1>1 DEF OneTransfer, Busy
  <2>2. QED
    BY <1>1, <2>1, FreeEndpoint DEF Busy
<1>3. bus'.in \in (IF pc = "write" THEN {"data", "full"} ELSE {"zlp"})
  BY <1>1, BusParts DEF StartWrite, Buses
<1>4. /\ ZlpPhase' <=> pc = "write_zlp"
      /\ InTransfer' <=> pc = "write"
  BY <1>1, <1>2, <1>3 DEF ZlpPhase, InTransfer
<1>5. pc = "write" => ~usb.zlp_pending /\ response
  BY DEF ZlpOwed, Types
<1>6. pc = "write_zlp" => usb.zlp_pending
  BY DEF ZlpOwed
<1>7. OneTransfer'
  BY <1>1, <1>2 DEF OneTransfer
<1>8. Buffered'
  BY <1>1, <1>2, <1>4, <1>5 DEF Buffered
<1>9. ZlpOwed'
  BY <1>1, <1>2, <1>3, <1>4, <1>5, <1>6 DEF ZlpOwed
<1>10. QED
  BY <1>7, <1>8, <1>9

LEMMA TransferSent ==
  ASSUME Types, Sent, OneTransfer, Buffered, ZlpOwed
  PROVE  OneTransfer' /\ Buffered' /\ ZlpOwed'
<1>1. /\ pc \in {"sent", "sent_zlp"} /\ bus' = bus /\ queue' = queue /\ event' = event
      /\ host' = host /\ in_buffer' = in_buffer /\ ~usb.in_flight
      /\ pc' \in {"wait", "dispatch", "arm", "tx_arm"}
  BY DEF Sent, Types, OneTransfer
<1>2. /\ usb'.in_flight = TRUE
      /\ usb'.zlp_in_flight = (pc = "sent_zlp") /\ usb'.zlp_pending = FALSE
  <2>1. ~usb.zlp_in_flight /\ (pc = "sent" => ~usb.zlp_pending)
    BY <1>1 DEF ZlpOwed
  <2>2. usb.zlp_in_flight = FALSE /\ (pc = "sent" => usb.zlp_pending = FALSE)
    BY <2>1, Parts
  <2>3. CASE pc = "sent"
    BY <2>2, <2>3, Parts DEF Sent, Usbs
  <2>4. CASE pc = "sent_zlp"
    BY <2>4, Parts DEF Sent, Usbs
  <2>5. QED
    BY <1>1, <2>3, <2>4
<1>3. Busy /\ Busy' /\ (ZlpPhase <=> pc = "sent_zlp") /\ (ZlpPhase' <=> pc = "sent_zlp")
      /\ (InTransfer' <=> InTransfer)
  <2>1. ~usb.zlp_in_flight
    BY <1>1 DEF ZlpOwed
  <2>2. QED
    BY <1>1, <1>2, <2>1 DEF Busy, ZlpPhase, InTransfer
<1>4. /\ pc = "sent" => ~response'
      /\ pc = "sent_zlp" => response' = response
  BY DEF Sent
<1>5. pc = "sent_zlp" => ~InTransfer
  BY <1>3 DEF ZlpOwed
<1>6. OneTransfer'
  BY <1>1, <1>2, <1>3 DEF OneTransfer
<1>7. Buffered'
  <2>1. CASE pc = "sent"
    BY <1>1, <1>3, <1>4, <2>1 DEF Buffered
  <2>2. CASE pc = "sent_zlp"
    <3>1. ~InTransfer' /\ usb'.zlp_in_flight /\ response' = response
      BY <1>2, <1>3, <1>4, <1>5, <2>2
    <3>2. QED
      BY <1>1, <3>1 DEF Buffered
  <2>3. QED
    BY <1>1, <2>1, <2>2
<1>8. ZlpOwed'
  BY <1>1, <1>2, <1>3 DEF ZlpOwed
<1>9. QED
  BY <1>6, <1>7, <1>8

(* The host has read what was in transfer.                                  *)
LEMMA TransferIn ==
  ASSUME Types, Types', UsbInComplete, Generations, OneTransfer, Buffered, ZlpOwed
  PROVE  OneTransfer' /\ Buffered' /\ ZlpOwed'
<1>1. /\ bus.in # "idle" /\ usb' = usb /\ pc' = pc /\ event' = event /\ response' = response
      /\ in_buffer' = in_buffer
  BY DEF UsbInComplete, task
<1>2. bus'.in = "idle"
  BY BusParts DEF UsbInComplete, Buses
<1>3. /\ Busy /\ Busy' /\ ~InTransfer' /\ (ZlpPhase' <=> ZlpPhase)
      /\ \A i \in 1..Len(queue) : queue[i].type # "TX_COMPLETE"
  BY <1>1, <1>2 DEF OneTransfer, Busy, InTransfer, ZlpPhase
<1>4. ~(pc \in {"event", "TX_COMPLETE"} /\ event.type = "TX_COMPLETE")
  BY <1>1 DEF OneTransfer
<1>5. /\ ZlpPhase <=> bus.in = "zlp"
      /\ ZlpPhase => bus.in # "full"
  BY <1>1, BusParts DEF ZlpOwed, InTransfer, Transfer
<1>6. host'.floor = host.floor /\ host'.unterminated = (bus.in = "full")
  <2>1. CASE bus.in = "zlp"
    BY <2>1, HostParts DEF UsbInComplete, Hosts
  <2>2. CASE bus.in # "zlp"
    BY <2>2, HostParts DEF UsbInComplete, Hosts
  <2>3. QED
    BY <2>1, <2>2
<1>7. ~host'.stale
  <2>1. CASE bus.in = "zlp"
    BY <2>1, HostParts DEF UsbInComplete, Hosts, Buffered
  <2>2. CASE bus.in # "zlp"
    <3>1. InTransfer
      BY <1>1, <2>2, BusParts DEF InTransfer, Transfer
    <3>2. \A i \in 1..Len(in_buffer) : ~(in_buffer[i].session <= host.floor)
      <4>1. \A i \in 1..Len(in_buffer) : in_buffer[i] \in Frame
        BY QueueParts, ElementOfSeq
      <4>2. \A i \in 1..Len(in_buffer) : in_buffer[i].session \in Nat
        BY <4>1 DEF Frame
      <4>3. QED
        BY <3>1, <4>2, HostParts DEF Buffered
    <3>3. PICK stale : /\ stale = (host.stale \/ \E i \in 1..Len(in_buffer) :
                                       in_buffer[i].session <= host.floor)
                       /\ host'.stale = stale
      BY <2>2, HostParts DEF UsbInComplete, Hosts
    <3>4. QED
      BY <3>2, <3>3 DEF Buffered
  <2>3. QED
    BY <2>1, <2>2
<1>8. \/ queue' = queue
      \/ /\ Len(queue') = Len(queue) + 1
         /\ queue'[Len(queue) + 1].type = "TX_COMPLETE"
         /\ queue'[Len(queue) + 1].full = (bus.in = "full")
         /\ \A i \in 1..Len(queue) : queue'[i] = queue[i]
  BY InQueues
<1>9. \A i \in 1..Len(queue') : queue'[i].type = "TX_COMPLETE" =>
        i = Len(queue) + 1 /\ queue'[i].full = (bus.in = "full")
  BY <1>3, <1>8, QueueParts
<1>10. OneTransfer'
  <2>1. \A i, j \in 1..Len(queue') :
          queue'[i].type = "TX_COMPLETE" /\ queue'[j].type = "TX_COMPLETE" => i = j
    BY <1>9
  <2>2. pc \in {"write", "write_zlp", "sent", "sent_zlp"} => ~usb.in_flight
    BY DEF OneTransfer
  <2>3. QED
    BY <1>1, <1>2, <1>3, <1>4, <2>1, <2>2 DEF OneTransfer
<1>11. Buffered'
  BY <1>1, <1>3, <1>6, <1>7 DEF Buffered
<1>12. ZlpOwed'
  <2>1. \A i \in 1..Len(queue') : queue'[i].type = "TX_COMPLETE" =>
          IF ZlpPhase' THEN ~queue'[i].full /\ ~host'.unterminated
                       ELSE queue'[i].full = host'.unterminated
    BY <1>3, <1>5, <1>6, <1>9
  <2>2. QED
    BY <1>1, <1>2, <1>3, <1>4, <2>1 DEF ZlpOwed
<1>13. QED
  BY <1>10, <1>11, <1>12

LEMMA TransferOut ==
  ASSUME Types, NEW k \in 1..MaxChunk, UsbOutComplete(k), OneTransfer, Buffered, ZlpOwed
  PROVE  OneTransfer' /\ Buffered' /\ ZlpOwed'
<1>1. /\ pc' = pc /\ event' = event /\ response' = response /\ in_buffer' = in_buffer
  BY DEF UsbOutComplete, task
<1>2. /\ usb'.in_flight = usb.in_flight /\ usb'.zlp_in_flight = usb.zlp_in_flight
      /\ usb'.zlp_pending = usb.zlp_pending /\ bus'.in = bus.in
      /\ host'.stale = host.stale /\ host'.unterminated = host.unterminated
      /\ host'.floor = host.floor
  BY Parts, BusParts, HostParts DEF UsbOutComplete, Usbs, Buses, Hosts
<1>3. (Busy' <=> Busy) /\ (ZlpPhase' <=> ZlpPhase) /\ (InTransfer' <=> InTransfer)
  BY <1>1, <1>2 DEF Busy, ZlpPhase, InTransfer
<1>4. \/ queue' = queue
      \/ /\ Len(queue') = Len(queue) + 1
         /\ queue'[Len(queue) + 1].type = "RX_COMPLETE"
         /\ \A i \in 1..Len(queue) : queue'[i] = queue[i]
  BY OutQueues
<1>5. \A i \in 1..Len(queue') : queue'[i].type = "TX_COMPLETE" =>
        i \in 1..Len(queue) /\ queue'[i] = queue[i]
  BY <1>4, QueueParts
<1>6. OneTransfer'
  BY <1>1, <1>2, <1>3, <1>5 DEF OneTransfer
<1>7. Buffered'
  BY <1>1, <1>2, <1>3 DEF Buffered
<1>8. ZlpOwed'
  BY <1>1, <1>2, <1>3, <1>5 DEF ZlpOwed
<1>9. QED
  BY <1>6, <1>7, <1>8

LEMMA TransferTask ==
  ASSUME Types, Types', Generations, Renewed, Task, Live',
         Live => OneTransfer /\ Buffered /\ ZlpOwed
  PROVE  OneTransfer' /\ Buffered' /\ ZlpOwed'
<1>1. CASE ProcessConfigured
  BY <1>1, TransferStarted
<1>2. CASE ~ProcessConfigured
  <2>1. pc # "configured"
    BY <1>2 DEF Task, Receive, PollTimeout, ProcessEvent, ReinitSession, ReinitDone,
       ArmOutTransfer, OutArmed, ProcessRxComplete, ProcessTxComplete, Dispatch, DispatchDone,
       StartNextInTransfer, StartWrite, Sent, RxTail, TxTail, ResetCheck, Publish
  <2>2. Live /\ OneTransfer /\ Buffered /\ ZlpOwed
    BY <2>1, Stage
  <2>3. CASE Receive
    BY <2>2, <2>3, TransferReceive
  <2>4. CASE ProcessTxComplete
    BY <2>2, <2>4, TransferCompleted
  <2>5. CASE Dispatch
    BY <2>2, <2>5, TransferDispatch
  <2>6. CASE StartNextInTransfer
    BY <2>2, <2>6, TransferStart
  <2>7. CASE StartWrite
    BY <2>2, <2>7, TransferWrite
  <2>8. CASE Sent
    BY <2>2, <2>8, TransferSent
  <2>9. CASE PollTimeout \/ DispatchDone \/ RxTail \/ TxTail \/ ResetCheck \/ ProcessEvent
             \/ ProcessRxComplete \/ ReinitSession \/ Publish
    <3>1. /\ usb' = usb /\ bus' = bus /\ host' = host /\ queue' = queue /\ event' = event
          /\ response' = response /\ in_buffer' = in_buffer
          /\ pc \notin {"sent", "sent_zlp"} /\ pc' \notin {"write", "write_zlp", "sent", "sent_zlp"}
          /\ pc' \in {"event", "TX_COMPLETE"} => pc = "event"
      BY <2>9, Parts DEF PollTimeout, DispatchDone, RxTail, TxTail, ResetCheck, ProcessEvent,
         ProcessRxComplete, ReinitSession, Publish
    <3>2. QED
      BY <2>2, <3>1, TransferKept
  <2>10. CASE ReinitDone \/ OutArmed
    <3>1. /\ bus' = bus /\ host' = host /\ queue' = queue /\ event' = event
          /\ response' = response /\ in_buffer' = in_buffer
          /\ pc \notin {"sent", "sent_zlp"}
          /\ pc' \notin {"write", "write_zlp", "sent", "sent_zlp", "event", "TX_COMPLETE"}
      BY <2>10 DEF ReinitDone, OutArmed
    <3>2. /\ usb'.in_flight = usb.in_flight /\ usb'.zlp_in_flight = usb.zlp_in_flight
          /\ usb'.zlp_pending = usb.zlp_pending
      BY <2>10, Parts DEF ReinitDone, OutArmed, ClearReset, Usbs
    <3>3. QED
      BY <2>2, <3>1, <3>2, TransferKept
  <2>11. CASE ArmOutTransfer
    <3>1. /\ usb' = usb /\ host' = host /\ queue' = queue /\ event' = event
          /\ response' = response /\ in_buffer' = in_buffer
          /\ pc \notin {"sent", "sent_zlp"}
          /\ pc' \notin {"write", "write_zlp", "sent", "sent_zlp", "event", "TX_COMPLETE"}
      BY <2>11 DEF ArmOutTransfer
    <3>2. bus'.in = bus.in
      BY <2>11, BusParts DEF ArmOutTransfer, Buses
    <3>3. QED
      BY <2>2, <3>1, <3>2, TransferKept
  <2>12. QED
    BY <1>2, <2>3, <2>4, <2>5, <2>6, <2>7, <2>8, <2>9, <2>10, <2>11 DEF Task
<1>3. QED
  BY <1>1, <1>2

LEMMA TransferStep ==
  ASSUME Types, Types', Generations, Renewed, ConfigureAnytime = FALSE, [Next]_vars, Live',
         Live => OneTransfer /\ Buffered /\ ZlpOwed
  PROVE  OneTransfer' /\ Buffered' /\ ZlpOwed'
<1>1. CASE Task
  BY <1>1, TransferTask
<1>2. CASE BusReset \/ Configured
  BY <1>2, BusResetStage, ConfiguredStage
<1>3. CASE UsbInComplete
  BY <1>3, CompletionsLive, TransferIn
<1>4. ASSUME NEW k \in 1..MaxChunk, UsbOutComplete(k)
      PROVE  OneTransfer' /\ Buffered' /\ ZlpOwed'
  BY <1>4, CompletionsLive, TransferOut
<1>5. CASE UNCHANGED vars
  <2>1. Live
    BY <1>5 DEF vars, Live, Starting
  <2>2. (Busy' <=> Busy) /\ (ZlpPhase' <=> ZlpPhase) /\ (InTransfer' <=> InTransfer)
    BY <1>5 DEF vars, Busy, ZlpPhase, InTransfer
  <2>3. OneTransfer' /\ Buffered'
    BY <1>5, <2>1, <2>2 DEF vars, OneTransfer, Buffered
  <2>4. ZlpOwed'
    BY <1>5, <2>1, <2>2 DEF vars, ZlpOwed
  <2>5. QED
    BY <2>3, <2>4
<1>6. QED
  BY <1>1, <1>2, <1>3, <1>4, <1>5 DEF Next
-----------------------------------------------------------------------------
(* The answers.                                                             *)

Numbers  == [i \in 1..Len(host.handled) |-> host.handled[i].n]
UnderWay == IF bus.in \in {"data", "full"} THEN Answers(in_buffer) ELSE <<>>
Waiting  == IF response /\ ~(pc = "sent" /\ bus.open) THEN Answers(in_buffer) ELSE <<>>

LEMMA AnswerSeqs ==
  ASSUME Types
  PROVE  /\ Answers(in_buffer) \in Seq(Nat) /\ UnderWay \in Seq(Nat) /\ Waiting \in Seq(Nat)
         /\ Numbers \in Seq(Nat) /\ Len(Numbers) = Len(host.handled)
         /\ host.answers \in Seq(Nat)
<1>1. Answers(in_buffer) \in Seq(Nat)
  <2>1. in_buffer # <<>> => in_buffer[1] \in Frame
    BY QueueParts, EmptySeq, ElementOfSeq
  <2>2. in_buffer # <<>> => in_buffer[1].n \in Nat
    BY <2>1 DEF Frame
  <2>3. QED
    BY <2>2 DEF Answers
<1>2. UnderWay \in Seq(Nat) /\ Waiting \in Seq(Nat)
  BY <1>1 DEF UnderWay, Waiting
<1>3. Numbers \in Seq(Nat) /\ Len(Numbers) = Len(host.handled)
  <2>1. \A i \in 1..Len(host.handled) : host.handled[i] \in Handled
    BY HostParts, ElementOfSeq
  <2>2. \A i \in 1..Len(host.handled) : host.handled[i].n \in Nat
    BY <2>1 DEF Handled
  <2>3. PICK l \in Nat : l = Len(host.handled)
    BY HostParts
  <2>4. Numbers \in [1..l -> Nat]
    BY <2>2, <2>3 DEF Numbers
  <2>5. Numbers \in Seq(Nat)
    BY <2>4, SeqDef
  <2>6. Len(Numbers) = l
    BY <2>4, <2>5, LenProperties
  <2>7. QED
    BY <2>3, <2>5, <2>6
<1>4. QED
  BY <1>1, <1>2, <1>3, HostParts

LEMMA Joined ==
  ASSUME NEW s \in Seq(Nat), NEW t \in Seq(Nat)
  PROVE  s \o <<>> \o t = s \o t /\ s \o t \o <<>> = s \o t /\ s \o <<>> = s
<1>1. s \o t \in Seq(Nat)
  BY ConcatProperties
<1>2. QED
  BY <1>1, ConcatEmptySeq

(* Before the start over nothing is answered, nor waits to be.              *)
LEMMA NothingToAnswer ==
  ASSUME Types, Generations, ~Live
  PROVE  /\ HandledAnswered /\ host.handled = <<>> /\ host.answers = <<>>
         /\ bus.in = "idle" /\ Answers(in_buffer) = <<>>
<1>1. bus.in = "idle" /\ host.handled = <<>> /\ host.answers = <<>>
  BY DEF Generations, Fresh
<1>2. Answers(in_buffer) = <<>>
  <2>1. in_buffer # <<>> => 1 \in 1..Len(in_buffer)
    BY QueueParts, EmptySeq
  <2>2. in_buffer # <<>> /\ in_buffer[1].kind = "answer"
          => in_buffer[1].generation < usb.generation
    BY <2>1 DEF Generations
  <2>3. QED
    BY <2>2, Parts, QueueParts DEF Answers
<1>3. Numbers = <<>>
  <2>1. Len(Numbers) = 0 /\ Numbers \in Seq(Nat)
    BY <1>1, AnswerSeqs, EmptySeq
  <2>2. QED
    BY <2>1, EmptySeq
<1>4. UnderWay = <<>> /\ Waiting = <<>>
  BY <1>2 DEF UnderWay, Waiting
<1>5. host.answers \o UnderWay \o Waiting = <<>>
  <2>1. <<>> \in Seq(Nat)
    OBVIOUS
  <2>2. QED
    BY <1>1, <1>4, <2>1, Joined
<1>6. HandledAnswered
  BY <1>3, <1>5 DEF HandledAnswered, Numbers, UnderWay, Waiting
<1>7. QED
  BY <1>1, <1>2, <1>6

(* What changes neither the buffer nor its place keeps the order.           *)
LEMMA AnswersKept ==
  ASSUME Types, HandledAnswered, host'.handled = host.handled, host'.answers = host.answers,
         bus'.in = bus.in, bus'.open = bus.open, usb'.generation = usb.generation,
         response' = response, in_buffer' = in_buffer,
         pc # "sent", pc' # "sent"
  PROVE  HandledAnswered'
BY DEF HandledAnswered, Answers

LEMMA AnswersDispatch ==
  ASSUME Types, Types', Dispatch, Live, OneTransfer, ZlpOwed, HandledAnswered
  PROVE  HandledAnswered'
<1> DEFINE request == bus.data[chunk.offset + 1]
<1>1. /\ pc = "dispatch" /\ pc' = "start" /\ ~usb.in_flight /\ usb' = usb /\ ~response /\ response'
      /\ bus' = bus
  BY DEF Dispatch, MayDispatch
<1>2. /\ in_buffer' = <<[kind |-> "answer", session |-> session.id,
                         generation |-> request.generation, n |-> request.n]>>
      /\ host' = IF request.generation = usb.generation
                 THEN [host EXCEPT !.handled =
                         Append(host.handled, [n |-> request.n, session |-> session.id])]
                 ELSE host
  BY DEF Dispatch
<1> HIDE DEF request
<1>3. bus.in = "idle" /\ UnderWay = <<>> /\ UnderWay' = <<>> /\ Waiting = <<>>
      /\ Waiting' = Answers(in_buffer)'
  <2>1. ~Busy
    BY <1>1 DEF Busy
  <2>2. QED
    BY <1>1, <2>1, FreeEndpoint DEF UnderWay, Waiting
<1>4. Numbers = host.answers
  BY <1>3, AnswerSeqs, Joined DEF HandledAnswered, Numbers, UnderWay, Waiting
<1>5. in_buffer' # <<>> /\ in_buffer'[1].kind = "answer" /\ in_buffer'[1].n = request.n
      /\ in_buffer'[1].generation = request.generation
  BY <1>2
<1>6. CASE request.generation = usb.generation
  <2>1. Answers(in_buffer)' = <<request.n>>
    BY <1>1, <1>5, <1>6 DEF Answers
  <2>2. host'.answers = host.answers
        /\ host'.handled = Append(host.handled, [n |-> request.n, session |-> session.id])
    BY <1>2, <1>6, HostParts DEF Hosts
  <2>3. PICK h \in Handled : h = [n |-> request.n, session |-> session.id] /\ h.n = request.n
    <3>1. chunk.offset + 1 \in 1..MaxChunk
      <4>1. PICK o \in Nat, l \in Nat : o = chunk.offset /\ l = chunk.length /\ l <= MaxChunk
        BY Parts, QueueParts
      <4>2. o < l
        BY <4>1 DEF Dispatch, MayDispatch
      <4>3. QED
        BY <4>1, <4>2, QueueParts
    <3>2. request.n \in Nat
      BY <3>1, BusParts DEF request
    <3>3. [n |-> request.n, session |-> session.id] \in Handled
      BY <3>2, Parts DEF Handled
    <3>4. QED
      BY <3>3
  <2>4. /\ Len(host'.handled) = Len(host.handled) + 1
        /\ \A i \in 1..Len(host.handled) : host'.handled[i] = host.handled[i]
        /\ host'.handled[Len(host.handled) + 1] = h
    BY <2>2, <2>3, AppendProperties, HostParts
  <2>5. PICK l \in Nat : l = Len(host.handled)
    BY HostParts
  <2>6. Numbers' = [i \in 1..l + 1 |-> IF i <= l THEN Numbers[i] ELSE h.n]
    BY <2>4, <2>5 DEF Numbers
  <2>7. Numbers' = Append(Numbers, h.n)
    <3>1. Len(Numbers) = l /\ Numbers \in Seq(Nat) /\ h.n \in Nat
      BY <2>5, AnswerSeqs DEF Handled
    <3>2. /\ Append(Numbers, h.n) \in Seq(Nat) /\ Len(Append(Numbers, h.n)) = l + 1
          /\ \A i \in 1..l : Append(Numbers, h.n)[i] = Numbers[i]
          /\ Append(Numbers, h.n)[l + 1] = h.n
      BY <3>1, AppendProperties
    <3>3. Numbers' \in [1..l + 1 -> Nat]
      <4>1. \A i \in 1..l : Numbers[i] \in Nat
        BY <3>1, ElementOfSeq
      <4>2. QED
        BY <2>6, <3>1, <4>1
    <3>4. Numbers' \in Seq(Nat)
      BY <3>3, SeqDef
    <3>5. Len(Numbers') = l + 1
      BY <3>3, <3>4, LenProperties
    <3>6. \A i \in 1..l + 1 : Numbers'[i] = Append(Numbers, h.n)[i]
      BY <2>6, <3>2
    <3>7. QED
      BY <3>2, <3>4, <3>5, <3>6, SeqEqual
  <2>8. Numbers' = Numbers \o <<request.n>>
    <3>1. h.n \in Nat
      BY DEF Handled
    <3>2. QED
      BY <2>3, <2>7, <3>1, AnswerSeqs, AppendIsConcat
  <2>9. <<request.n>> \in Seq(Nat)
    BY <2>3 DEF Handled
  <2>10. Numbers' = host'.answers \o UnderWay' \o Waiting'
    BY <1>3, <1>4, <2>1, <2>2, <2>8, <2>9, AnswerSeqs, Joined
  <2>11. QED
    BY <2>10 DEF HandledAnswered, Numbers, UnderWay, Waiting
<1>7. CASE request.generation # usb.generation
  <2>1. Answers(in_buffer)' = <<>> /\ host' = host
    BY <1>1, <1>2, <1>5, <1>7 DEF Answers
  <2>2. Numbers' = Numbers /\ <<>> \in Seq(Nat)
    BY <2>1 DEF Numbers
  <2>3. Numbers' = host'.answers \o UnderWay' \o Waiting'
    BY <1>3, <1>4, <2>1, <2>2, AnswerSeqs, Joined
  <2>4. QED
    BY <2>3 DEF HandledAnswered, Numbers, UnderWay, Waiting
<1>8. QED
  BY <1>6, <1>7

LEMMA AnswersStart ==
  ASSUME Types, Types', StartNextInTransfer, Live, OneTransfer, ZlpOwed, HandledAnswered
  PROVE  HandledAnswered'
<1>1. /\ pc = "start" /\ pc' # "sent" /\ usb' = usb /\ bus' = bus /\ host' = host
  BY DEF StartNextInTransfer, Types
<1>2. CASE UNCHANGED <<response, in_buffer>>
  BY <1>1, <1>2, AnswersKept
<1>3. CASE ~usb.in_flight /\ ~response
           /\ in_buffer' = [i \in 1..session.due |-> [kind |-> "event", session |-> session.id,
                                                      generation |-> 0, n |-> 0]]
  <2>1. bus.in = "idle"
    BY <1>1, <1>3, FreeEndpoint DEF Busy
  <2>2. Answers(in_buffer)' = <<>>
    <3>1. \A i \in DOMAIN in_buffer' : in_buffer'[i].kind # "answer"
      BY <1>3
    <3>2. in_buffer' # <<>> => 1 \in DOMAIN in_buffer'
      BY EmptySeq, LenProperties DEF Types
    <3>3. QED
      BY <3>1, <3>2 DEF Answers
  <2>3. UnderWay = <<>> /\ Waiting = <<>> /\ UnderWay' = <<>> /\ Waiting' = <<>>
    BY <1>3, <2>1, <2>2 DEF UnderWay, Waiting
  <2>4. QED
    BY <1>1, <2>3 DEF HandledAnswered, UnderWay, Waiting
<1>4. QED
  BY <1>2, <1>3 DEF StartNextInTransfer

(* The answer that waited is under way.                                     *)
LEMMA AnswersWrite ==
  ASSUME Types, StartWrite, Live, OneTransfer, ZlpOwed, HandledAnswered
  PROVE  HandledAnswered'
<1>1. /\ pc \in {"write", "write_zlp"} /\ bus.open /\ usb' = usb /\ host' = host
      /\ response' = response /\ in_buffer' = in_buffer
      /\ pc' = (IF pc = "write" THEN "sent" ELSE "sent_zlp")
  BY DEF StartWrite, Live
<1>2. bus.in = "idle"
  <2>1. ~Busy
    BY <1>1 DEF OneTransfer, Busy
  <2>2. QED
    BY <2>1, FreeEndpoint
<1>3. bus'.in \in (IF pc = "write" THEN {"data", "full"} ELSE {"zlp"}) /\ bus'.open = bus.open
  BY <1>1, BusParts DEF StartWrite, Buses
<1>4. Answers(in_buffer)' = Answers(in_buffer) /\ Numbers' = Numbers
  BY <1>1 DEF Answers, Numbers
<1>5. UnderWay = <<>>
  BY <1>2 DEF UnderWay
<1>6. Numbers = host.answers \o Waiting
  BY <1>5, AnswerSeqs, Joined DEF HandledAnswered, Numbers, UnderWay, Waiting
<1>7. CASE pc = "write"
  <2>1. Waiting = Answers(in_buffer) /\ UnderWay' = Answers(in_buffer) /\ Waiting' = <<>>
    BY <1>1, <1>3, <1>4, <1>7 DEF Types, UnderWay, Waiting
  <2>2. Numbers' = host'.answers \o UnderWay' \o Waiting'
    BY <1>1, <1>4, <1>6, <2>1, AnswerSeqs, Joined
  <2>3. QED
    BY <2>2 DEF HandledAnswered, Numbers, UnderWay, Waiting
<1>8. CASE pc = "write_zlp"
  <2>1. UnderWay' = <<>> /\ Waiting' = Waiting
    BY <1>1, <1>3, <1>4, <1>8 DEF UnderWay, Waiting
  <2>2. Numbers' = host'.answers \o UnderWay' \o Waiting'
    BY <1>1, <1>4, <1>6, <2>1, AnswerSeqs, Joined
  <2>3. QED
    BY <2>2 DEF HandledAnswered, Numbers, UnderWay, Waiting
<1>9. QED
  BY <1>1, <1>7, <1>8

LEMMA AnswersSent ==
  ASSUME Types, Sent, Live, HandledAnswered
  PROVE  HandledAnswered'
<1>1. /\ pc \in {"sent", "sent_zlp"} /\ bus.open /\ bus' = bus /\ host' = host
      /\ in_buffer' = in_buffer /\ pc' # "sent"
      /\ pc = "sent" => response' = FALSE
      /\ pc = "sent_zlp" => response' = response
  BY DEF Sent, Live, Types
<1>2. usb'.generation = usb.generation
  BY Parts DEF Sent, Usbs
<1>3. UnderWay' = UnderWay /\ Waiting' = Waiting
  BY <1>1, <1>2 DEF UnderWay, Waiting, Answers
<1>4. QED
  BY <1>1, <1>3 DEF HandledAnswered, UnderWay, Waiting

(* The host has read what was under way; nothing else waits in the buffer.  *)
LEMMA AnswersRead ==
  ASSUME Types, UsbInComplete, Live, Buffered, HandledAnswered
  PROVE  HandledAnswered'
<1>1. /\ bus.in # "idle" /\ usb' = usb /\ pc' = pc /\ response' = response
      /\ in_buffer' = in_buffer
  BY DEF UsbInComplete, task
<1>2. bus'.in = "idle" /\ bus'.open = bus.open
  BY BusParts DEF UsbInComplete, Buses
<1>3. host'.handled = host.handled /\ host'.answers = host.answers \o UnderWay
  <2>1. CASE bus.in = "zlp"
    <3>1. UnderWay = <<>>
      BY <2>1 DEF UnderWay
    <3>2. host'.handled = host.handled /\ host'.answers = host.answers
      BY <2>1, HostParts DEF UsbInComplete, Hosts
    <3>3. QED
      BY <3>1, <3>2, AnswerSeqs, Joined
  <2>2. CASE bus.in # "zlp"
    <3>1. bus.in \in {"data", "full"}
      BY <1>1, <2>2, BusParts DEF Transfer
    <3>2. UnderWay = Answers(in_buffer)
      BY <3>1 DEF UnderWay
    <3>3. host'.handled = host.handled /\ host'.answers = host.answers \o Answers(in_buffer)
      BY <2>2, HostParts DEF UsbInComplete, Hosts
    <3>4. QED
      BY <3>2, <3>3
  <2>3. QED
    BY <2>1, <2>2
<1>4. UnderWay' = <<>> /\ Waiting' = Waiting
  BY <1>1, <1>2 DEF UnderWay, Waiting, Answers
<1>5. (host.answers \o UnderWay) \o <<>> = host.answers \o UnderWay
  BY AnswerSeqs, Joined
<1>6. QED
  BY <1>3, <1>4, <1>5 DEF HandledAnswered, UnderWay, Waiting

LEMMA AnswersTask ==
  ASSUME Types, Types', Generations, Generations', Renewed, Task, HandledAnswered,
         Live => OneTransfer /\ Buffered /\ ZlpOwed
  PROVE  HandledAnswered'
<1>1. CASE ~Live
  <2>1. CASE Live'
    <3>1. ProcessConfigured
      <4>1. pc = "configured"
        BY <1>1, <2>1, Stage
      <4>2. QED
        BY <4>1 DEF Task, Receive, PollTimeout, ProcessEvent, ReinitSession, ReinitDone,
           ArmOutTransfer, OutArmed, ProcessRxComplete, ProcessTxComplete, Dispatch, DispatchDone,
           StartNextInTransfer, StartWrite, Sent, RxTail, TxTail, ResetCheck, Publish
    <3>2. bus' = bus /\ host' = host /\ response' = FALSE
      BY <3>1 DEF ProcessConfigured
    <3>3. bus.in = "idle" /\ host.handled = <<>> /\ host.answers = <<>>
      BY <1>1, NothingToAnswer
    <3>4. UnderWay = <<>> /\ UnderWay' = <<>> /\ Waiting' = <<>> /\ Numbers' = Numbers
      BY <3>2, <3>3 DEF UnderWay, Waiting, Numbers
    <3>5. Waiting = <<>>
      BY <1>1, NothingToAnswer DEF Waiting
    <3>6. QED
      BY <3>2, <3>4, <3>5 DEF HandledAnswered, Numbers, UnderWay, Waiting
  <2>2. CASE ~Live'
    <3>1. /\ bus'.in = "idle" /\ host'.handled = <<>> /\ host'.answers = <<>>
      BY <2>2 DEF Generations, Fresh
    <3>2. Answers(in_buffer)' = <<>>
      <4>1. in_buffer' # <<>> => 1 \in 1..Len(in_buffer')
        BY EmptySeq DEF Types
      <4>2. in_buffer' # <<>> /\ in_buffer'[1].kind = "answer"
              => in_buffer'[1].generation < usb'.generation
        BY <2>2, <4>1 DEF Generations
      <4>3. usb'.generation \in Nat
        BY QueueParts DEF Types, Usbs
      <4>4. QED
        BY <4>2, <4>3 DEF Answers
    <3>3. UnderWay' = <<>> /\ Waiting' = <<>>
      BY <3>2 DEF UnderWay, Waiting
    <3>4. UnderWay = <<>> /\ Waiting = <<>> /\ host.handled = <<>> /\ host.answers = <<>>
      BY <1>1, NothingToAnswer DEF UnderWay, Waiting
    <3>5. Numbers' = Numbers
      BY <3>1, <3>4 DEF Numbers
    <3>6. QED
      BY <3>1, <3>3, <3>4, <3>5 DEF HandledAnswered, Numbers, UnderWay, Waiting
  <2>3. QED
    BY <2>1, <2>2
<1>2. CASE Live
  <2>1. OneTransfer /\ Buffered /\ ZlpOwed
    BY <1>2
  <2>2. CASE Dispatch
    BY <1>2, <2>1, <2>2, AnswersDispatch
  <2>3. CASE StartNextInTransfer
    BY <1>2, <2>1, <2>3, AnswersStart
  <2>4. CASE StartWrite
    BY <1>2, <2>1, <2>4, AnswersWrite
  <2>5. CASE Sent
    BY <1>2, <2>5, AnswersSent
  <2>6. CASE \/ Receive \/ PollTimeout \/ ProcessEvent \/ ReinitSession \/ ProcessRxComplete
             \/ DispatchDone \/ RxTail \/ TxTail \/ ResetCheck \/ Publish
    <3>1. /\ usb' = usb /\ bus' = bus /\ host' = host /\ response' = response
          /\ in_buffer' = in_buffer /\ pc # "sent" /\ pc' # "sent"
      BY <2>6, Parts DEF Receive, PollTimeout, ProcessEvent, ReinitSession, ProcessRxComplete,
         DispatchDone, RxTail, TxTail, ResetCheck, Publish
    <3>2. QED
      BY <3>1, AnswersKept
  <2>7. CASE ReinitDone \/ OutArmed \/ ProcessTxComplete
    <3>1. /\ bus' = bus /\ host' = host /\ response' = response
          /\ in_buffer' = in_buffer /\ pc # "sent" /\ pc' # "sent"
      BY <2>7 DEF ReinitDone, OutArmed, ProcessTxComplete
    <3>2. usb'.generation = usb.generation
      BY <2>7, Parts DEF ReinitDone, OutArmed, ProcessTxComplete, ClearReset, Completed, Usbs
    <3>3. QED
      BY <3>1, <3>2, AnswersKept
  <2>8. CASE ArmOutTransfer
    <3>1. /\ usb' = usb /\ host' = host /\ response' = response
          /\ in_buffer' = in_buffer /\ pc # "sent" /\ pc' # "sent"
      BY <2>8 DEF ArmOutTransfer
    <3>2. bus'.in = bus.in /\ bus'.open = bus.open
      BY <2>8, BusParts DEF ArmOutTransfer, Buses
    <3>3. QED
      BY <3>1, <3>2, AnswersKept
  <2>9. CASE ProcessConfigured
    <3>1. Starting
      BY <1>2, <2>9 DEF ProcessConfigured, Live, Starting
    <3>2. QED
      BY <1>2, <3>1 DEF Live
  <2>10. QED
    BY <2>2, <2>3, <2>4, <2>5, <2>6, <2>7, <2>8, <2>9 DEF Task
<1>3. QED
  BY <1>1, <1>2

LEMMA AnswersStep ==
  ASSUME Types, Types', Generations, Generations', Renewed, ConfigureAnytime = FALSE,
         [Next]_vars, HandledAnswered, Live => OneTransfer /\ Buffered /\ ZlpOwed
  PROVE  HandledAnswered'
<1>1. CASE Task
  BY <1>1, AnswersTask
<1>2. CASE BusReset \/ Configured
  <2>1. ~Live'
    BY <1>2, BusResetStage, ConfiguredStage
  <2>2. /\ bus'.in = "idle" /\ host'.handled = <<>> /\ host'.answers = <<>>
    BY <2>1 DEF Generations, Fresh
  <2>3. Answers(in_buffer)' = <<>>
    <3>1. in_buffer' # <<>> => 1 \in 1..Len(in_buffer')
      BY EmptySeq DEF Types
    <3>2. in_buffer' # <<>> /\ in_buffer'[1].kind = "answer"
            => in_buffer'[1].generation < usb'.generation
      BY <2>1, <3>1 DEF Generations
    <3>3. usb'.generation \in Nat
      BY QueueParts DEF Types, Usbs
    <3>4. QED
      BY <3>2, <3>3 DEF Answers
  <2>4. UnderWay' = <<>> /\ Waiting' = <<>>
    BY <2>3 DEF UnderWay, Waiting
  <2>5. Numbers' = <<>>
    <3>1. Len(host'.handled) = 0
      BY <2>2, EmptySeq
    <3>2. Numbers' = [i \in 1..0 |-> host'.handled[i].n]
      BY <3>1 DEF Numbers
    <3>3. 1..0 = {}
      OBVIOUS
    <3>4. Numbers' \in [1..0 -> Nat]
      BY <3>2, <3>3
    <3>5. Numbers' \in Seq(Nat)
      BY <3>4, SeqDef
    <3>6. Len(Numbers') = 0
      BY <3>4, <3>5, LenProperties
    <3>7. QED
      BY <3>5, <3>6, EmptySeq
  <2>6. <<>> \o <<>> \o <<>> = <<>>
    <3>1. <<>> \in Seq(Nat)
      OBVIOUS
    <3>2. QED
      BY <3>1, Joined
  <2>7. QED
    BY <2>2, <2>4, <2>5, <2>6 DEF HandledAnswered, Numbers, UnderWay, Waiting
<1>3. CASE UsbInComplete
  BY <1>3, CompletionsLive, AnswersRead
<1>4. ASSUME NEW k \in 1..MaxChunk, UsbOutComplete(k) PROVE HandledAnswered'
  <2>1. /\ pc' = pc /\ response' = response /\ in_buffer' = in_buffer
    BY <1>4 DEF UsbOutComplete, task
  <2>2. /\ usb'.generation = usb.generation /\ bus'.in = bus.in /\ bus'.open = bus.open
        /\ host'.handled = host.handled /\ host'.answers = host.answers
    BY <1>4, Parts, BusParts, HostParts DEF UsbOutComplete, Usbs, Buses, Hosts
  <2>3. Numbers' = Numbers /\ UnderWay' = UnderWay /\ Waiting' = Waiting
    BY <2>1, <2>2 DEF Numbers, UnderWay, Waiting, Answers
  <2>4. QED
    BY <2>2, <2>3 DEF HandledAnswered, Numbers, UnderWay, Waiting
<1>5. CASE UNCHANGED vars
  BY <1>5 DEF vars, HandledAnswered, Answers
<1>6. QED
  BY <1>1, <1>2, <1>3, <1>4, <1>5 DEF Next
-----------------------------------------------------------------------------
(* The theorems.                                                            *)

LEMMA InitIInv == Init => IInv
<1> SUFFICES ASSUME Init PROVE IInv
  OBVIOUS
<1>1. Types
  BY InitTypes
<1>2. /\ bus.open = FALSE /\ bus.out = FALSE /\ bus.in = "idle" /\ usb.configured = FALSE
      /\ usb.generation = 0 /\ queue = <<>> /\ in_buffer = <<>> /\ pc = "wait"
      /\ chunk.offset = 0 /\ chunk.length = 0 /\ host.handled = <<>> /\ host.answers = <<>>
      /\ host.sent = 0 /\ host.stale = FALSE /\ host.unterminated = FALSE
      /\ host.floor = 0 /\ session.id = 1
      /\ bus.data = [i \in 1..MaxChunk |-> [generation |-> 0, n |-> 0]]
  BY DEF Init
<1>3. Len(queue) = 0 /\ 1..Len(queue) = {} /\ Len(in_buffer) = 0 /\ 1..Len(in_buffer) = {}
  BY <1>2, EmptySeq
<1>4. ~Live /\ ~Starting
  BY <1>2 DEF Live, Starting
<1>5. Unread = {}
  BY <1>2, QueueParts, <1>1 DEF Unread
<1>6. \A i \in 1..MaxChunk : bus.data[i].generation <= usb.generation
  BY <1>2
<1>7. Generations
  BY <1>2, <1>3, <1>4, <1>5, <1>6 DEF Generations, Fresh
<1>8. Renewed
  BY <1>2, <1>4 DEF Renewed
<1>9. HandledAnswered
  BY <1>1, <1>4, <1>7, NothingToAnswer
<1>10. QED
  BY <1>1, <1>4, <1>7, <1>8, <1>9 DEF IInv

LEMMA IInvStep == ConfigureAnytime = FALSE /\ IInv /\ [Next]_vars => IInv'
<1> SUFFICES ASSUME ConfigureAnytime = FALSE, IInv, [Next]_vars PROVE IInv'
  OBVIOUS
<1>1. /\ Types /\ Generations /\ Renewed /\ HandledAnswered
      /\ Live => OneTransfer /\ Buffered /\ ZlpOwed
  BY DEF IInv
<1>2. Types'
  BY <1>1, TypesStep
<1>3. Generations'
  BY <1>1, <1>2, GenerationsStep
<1>4. Renewed'
  BY <1>1, <1>2, RenewedStep
<1>5. Live' => OneTransfer' /\ Buffered' /\ ZlpOwed'
  BY <1>1, <1>2, TransferStep
<1>6. HandledAnswered'
  BY <1>1, <1>2, <1>3, AnswersStep
<1>7. QED
  BY <1>2, <1>3, <1>4, <1>5, <1>6 DEF IInv

(* The record of the owner, its queue, its buffers and what the host has seen *)
(* keep their types: a chunk is never read past its end, the queue never      *)
(* grows past its length, and an answer is alone in usb_in_buffer.            *)
THEOREM TypeCorrect == Spec => []TypeOK
<1>1. Types => TypeOK
  <2> SUFFICES ASSUME Types PROVE TypeOK
    OBVIOUS
  <2>1. host.handled \in Seq([n: Nat, session: Nat]) /\ host.answers \in Seq(Nat)
    BY HostParts DEF Handled
  <2>2. QED
    BY <2>1 DEF Types, TypeOK, Usbs, Chunks, Sessions, Buses
<1>2. QED
  BY InitTypes, TypesStep, <1>1, PTL DEF Spec

LEMMA Inductive ==
  ASSUME ConfigureAnytime = FALSE PROVE Spec => []IInv
<1>1. IInv /\ [Next]_vars => IInv'
  BY IInvStep
<1>2. QED
  BY InitIInv, <1>1, PTL DEF Spec

(* transport recovery does not resend messages of the old session: no frame  *)
(* built before a bus reset is read by the host after it.                    *)
THEOREM OldFramesStay ==
  ASSUME ConfigureAnytime = FALSE PROVE Spec => []NothingStale
<1>1. IInv => NothingStale
  BY DEF IInv, Buffered, Generations, Fresh, NothingStale
<1>2. QED
  BY Inductive, <1>1, PTL

(* usb_in_buffer has one owner: each handled request is answered once and in *)
(* the order of handling, whatever events, ZLPs and failed writes come       *)
(* between.  Which requests are handled is another matter, if the host does  *)
(* not wait for its answers.                                                 *)
LEMMA HandledAreAnswered ==
  ASSUME ConfigureAnytime = FALSE PROVE Spec => []HandledAnswered
<1>1. IInv => HandledAnswered
  BY DEF IInv
<1>2. QED
  BY Inductive, <1>1, PTL

(* A transfer that fills its last packet is followed by one ZLP before other  *)
(* data, and no other transfer is.                                            *)
THEOREM TransfersTerminated ==
  ASSUME ConfigureAnytime = FALSE PROVE Spec => []ZlpTerminates
<1>1. IInv => ZlpTerminates
  BY DEF IInv, ZlpOwed, InTransfer, Generations, Fresh, ZlpTerminates
<1>2. QED
  BY Inductive, <1>1, PTL
-----------------------------------------------------------------------------
(* A host that waits for its answers.                                       *)

LEMMA LockstepKept ==
  ASSUME Types, InLockstep,
         host'.handled = host.handled, host'.sent = host.sent, session'.id = session.id,
         chunk' = chunk, queue' = queue, event' = event, bus'.data = bus.data,
         usb'.generation = usb.generation,
         pc' \in {"event", "RX_COMPLETE"} => pc = "event"
  PROVE  InLockstep'
<1>1. \A e : ReceivedBy(e) => ReceivedBy(e)'
  BY DEF ReceivedBy, Pending
<1>2. \A first, last : Pending(first, last)' <=> Pending(first, last)
  BY DEF Pending
<1>3. chunk'.offset < chunk'.length => Pending(chunk.offset + 1, chunk.length)'
  BY <1>2 DEF InLockstep
<1>4. \A i \in 1..Len(queue') : queue'[i].type = "RX_COMPLETE" => ReceivedBy(queue[i])'
  BY <1>1 DEF InLockstep
<1>5. pc' \in {"event", "RX_COMPLETE"} /\ event'.type = "RX_COMPLETE" => ReceivedBy(event)'
  BY <1>1 DEF InLockstep
<1>6. QED
  BY <1>3, <1>4, <1>5 DEF InLockstep, ReceivedBy, Pending

LEMMA LockstepStarted ==
  ASSUME Types, Types', Generations, Renewed, ProcessConfigured, Live'
  PROVE  InLockstep'
<1>1. /\ pc = "configured" /\ pc' = "arm" /\ queue' = queue /\ bus' = bus /\ host' = host
      /\ chunk' = [length |-> 0, offset |-> 0]
  BY DEF ProcessConfigured
<1>2. Starting
  BY <1>1 DEF Starting, Live
<1>3. Len(queue') = 0 /\ 1..Len(queue') = {}
  BY <1>1, <1>2 DEF Renewed
<1>4. host'.handled = <<>> /\ host'.sent = 0
  BY <1>1, <1>2 DEF Generations, Live, Fresh
<1>5. Len(host'.handled) = 0 /\ 1..Len(host'.handled) = {}
  BY <1>4, EmptySeq
<1>6. ~(chunk'.offset < chunk'.length)
  BY <1>1
<1>7. QED
  BY <1>1, <1>3, <1>4, <1>5, <1>6 DEF InLockstep

LEMMA LockstepReceive ==
  ASSUME Types, Receive, InLockstep
  PROVE  InLockstep'
<1>1. /\ pc = "wait" /\ pc' = "event" /\ queue # <<>> /\ queue' = Tail(queue)
      /\ event' = Head(queue) /\ usb' = usb /\ bus' = bus /\ host' = host
      /\ chunk' = chunk /\ session' = session
  BY DEF Receive
<1>2. /\ event' = queue[1] /\ 1 \in 1..Len(queue) /\ Len(queue) \in Nat
      /\ \A i \in 1..Len(queue') : i + 1 \in 1..Len(queue) /\ queue'[i] = queue[i + 1]
  BY <1>1, Dequeued, QueueParts
<1>4. /\ \A i \in 1..Len(host'.handled) :
           host'.handled[i] = [n |-> i, session |-> session'.id]
      /\ Len(host'.handled) <= host'.sent
      /\ chunk'.offset < chunk'.length => Pending(chunk.offset + 1, chunk.length)'
  BY <1>1 DEF InLockstep, Pending
<1>5. \A i \in 1..Len(queue') : queue'[i].type = "RX_COMPLETE" => ReceivedBy(queue[i])'
  <2>1. \A i \in 1..Len(queue') : queue'[i].type = "RX_COMPLETE" => ReceivedBy(queue[i + 1])
    BY <1>2 DEF InLockstep
  <2>2. QED
    BY <1>1, <1>2, <2>1 DEF ReceivedBy, Pending
<1>6. event'.type = "RX_COMPLETE" => ReceivedBy(event)'
  <2>1. event'.type = "RX_COMPLETE" => ReceivedBy(queue[1])
    BY <1>2 DEF InLockstep
  <2>2. QED
    BY <1>1, <1>2, <2>1 DEF ReceivedBy, Pending
<1>7. \A i, j \in 1..Len(queue') :
        queue'[i].type = "RX_COMPLETE" /\ queue'[j].type = "RX_COMPLETE" => i = j
  <2>1. \A i, j \in 1..Len(queue') :
          queue'[i].type = "RX_COMPLETE" /\ queue'[j].type = "RX_COMPLETE" => i + 1 = j + 1
    BY <1>2 DEF InLockstep
  <2>2. QED
    BY <2>1
<1>8. event'.type = "RX_COMPLETE" => \A i \in 1..Len(queue') : queue'[i].type # "RX_COMPLETE"
  <2>1. \A i \in 1..Len(queue') : i + 1 # 1
    OBVIOUS
  <2>2. QED
    BY <1>2, <2>1 DEF InLockstep
<1>9. QED
  BY <1>1, <1>2, <1>4, <1>5, <1>6, <1>7, <1>8 DEF InLockstep

LEMMA LockstepRead ==
  ASSUME Types, ProcessRxComplete, Generations, InLockstep
  PROVE  InLockstep'
<1>1. /\ pc = "RX_COMPLETE" /\ event.type = "RX_COMPLETE" /\ pc' = "dispatch"
      /\ chunk' = [length |-> event.length, offset |-> 0] /\ usb' = usb /\ bus' = bus
      /\ host' = host /\ queue' = queue /\ session' = session
  BY DEF ProcessRxComplete, Generations
<1>2. /\ Pending(1, event.length)
      /\ \A i \in 1..Len(queue) : queue[i].type # "RX_COMPLETE"
  BY <1>1 DEF InLockstep, ReceivedBy
<1>3. Pending(chunk.offset + 1, chunk.length)'
  <2>1. chunk'.offset + 1 = 1 /\ chunk'.length = event.length
    BY <1>1
  <2>2. QED
    BY <1>1, <1>2, <2>1 DEF Pending
<1>4. QED
  BY <1>1, <1>2, <1>3 DEF InLockstep, Pending

LEMMA LockstepDispatch ==
  ASSUME Types, Types', Dispatch, InLockstep
  PROVE  InLockstep'
<1>1. /\ pc' = "start" /\ usb' = usb /\ bus' = bus /\ queue' = queue
      /\ chunk.offset < chunk.length /\ chunk' = [chunk EXCEPT !.offset = @ + 1]
  BY DEF Dispatch, MayDispatch
<1>2. PICK o \in Nat, l \in Nat, h \in Nat, s \in Nat :
        /\ o = chunk.offset /\ l = chunk.length /\ h = Len(host.handled) /\ s = host.sent
  <2>1. chunk.offset \in Nat /\ chunk.length \in Nat /\ Len(host.handled) \in Nat
        /\ host.sent \in Nat
    BY Parts, HostParts, QueueParts
  <2>2. QED
    BY <2>1
<1>3. o < l /\ o + 1 \in o + 1..l
  BY <1>1, <1>2
<1>4. chunk'.offset = o + 1 /\ chunk'.length = l
  BY <1>1, <1>2, Parts DEF Chunks
<1>5. Pending(o + 1, l)
  BY <1>1, <1>2 DEF InLockstep
<1>6. s = h + (l - (o + 1) + 1)
  BY <1>2, <1>5 DEF Pending
<1>7. h + 1 <= s /\ s = (h + 1) + (l - (o + 1 + 1) + 1)
  BY <1>3, <1>6
<1>8. \A i \in o + 1..l : bus.data[i] = [generation |-> usb.generation,
                                         n |-> h + 1 + i - (o + 1)]
  BY <1>2, <1>5 DEF Pending
<1>9. bus.data[o + 1].generation = usb.generation /\ bus.data[o + 1].n = h + 1
  <2>1. bus.data[o + 1] = [generation |-> usb.generation, n |-> h + 1 + (o + 1) - (o + 1)]
    BY <1>3, <1>8
  <2>2. h + 1 + (o + 1) - (o + 1) = h + 1
    OBVIOUS
  <2>3. bus.data[o + 1] = [generation |-> usb.generation, n |-> h + 1]
    BY <2>1, <2>2
  <2>4. QED
    BY <2>3
<1>10. /\ host'.handled = Append(host.handled, [n |-> h + 1, session |-> session.id])
       /\ host'.sent = host.sent
  BY <1>2, <1>9, HostParts DEF Dispatch, Hosts
<1>11. session'.id = session.id
  BY Parts DEF Dispatch, Sessions
<1>12. /\ Len(host'.handled) = h + 1
       /\ \A i \in 1..h : host'.handled[i] = host.handled[i]
       /\ host'.handled[h + 1] = [n |-> h + 1, session |-> session.id]
  <2>1. [n |-> h + 1, session |-> session.id] \in Handled
    BY <1>2, Parts DEF Handled
  <2>2. QED
    BY <1>2, <1>10, <2>1, AppendProperties, HostParts
<1>13. \A i \in 1..Len(host'.handled) :
         host'.handled[i] = [n |-> i, session |-> session'.id]
  <2>1. \A i \in 1..h : host.handled[i] = [n |-> i, session |-> session.id]
    BY <1>2 DEF InLockstep
  <2>2. \A i \in 1..h + 1 : i \in 1..h \/ i = h + 1
    OBVIOUS
  <2>3. QED
    BY <1>11, <1>12, <2>1, <2>2
<1>14. Len(host'.handled) <= host'.sent
  BY <1>2, <1>7, <1>10, <1>12
<1>15. chunk'.offset < chunk'.length => Pending(chunk.offset + 1, chunk.length)'
  <2>1. \A i \in o + 1 + 1..l : i \in o + 1..l
                                /\ h + 1 + i - (o + 1) = h + 1 + 1 + i - (o + 1 + 1)
    OBVIOUS
  <2>2. \A i \in o + 1 + 1..l : bus.data[i] = [generation |-> usb.generation,
                                               n |-> h + 1 + 1 + i - (o + 1 + 1)]
    BY <1>8, <2>1
  <2>3. QED
    BY <1>1, <1>2, <1>4, <1>7, <1>10, <1>12, <2>2 DEF Pending
<1>16. \A i \in 1..Len(queue) : queue[i].type # "RX_COMPLETE"
  BY <1>1, <1>2, <1>3 DEF InLockstep, ReceivedBy
<1>17. QED
  BY <1>1, <1>13, <1>14, <1>15, <1>16 DEF InLockstep

(* It sends when all is answered, so all is handled, and nothing is left in   *)
(* usb_transfer_buffer.                                                       *)
LEMMA LockstepOut ==
  ASSUME Types, Types', Lockstep = TRUE, NEW k \in 1..MaxChunk, UsbOutComplete(k),
         HandledAnswered, InLockstep
  PROVE  InLockstep'
<1>1. /\ pc' = pc /\ event' = event /\ chunk' = chunk /\ session' = session
      /\ Len(host.answers) = host.sent
  BY DEF UsbOutComplete, task
<1>2. PICK h \in Nat, s \in Nat : h = Len(host.handled) /\ s = host.sent /\ h = s
  <2>1. PICK h \in Nat, s \in Nat, u \in Nat, w \in Nat :
          /\ h = Len(host.handled) /\ s = host.sent /\ u = Len(UnderWay) /\ w = Len(Waiting)
    BY AnswerSeqs, HostParts, LenProperties
  <2>2. Numbers = host.answers \o UnderWay \o Waiting
    BY DEF HandledAnswered, Numbers, UnderWay, Waiting
  <2>3. /\ host.answers \o UnderWay \in Seq(Nat)
        /\ Len(host.answers \o UnderWay) = Len(host.answers) + Len(UnderWay)
    BY AnswerSeqs, ConcatProperties
  <2>4. Len(Numbers) = Len(host.answers \o UnderWay) + Len(Waiting)
    BY <2>2, <2>3, AnswerSeqs, ConcatProperties
  <2>5. h = s + u + w
    BY <1>1, <2>1, <2>3, <2>4, AnswerSeqs
  <2>6. h <= s
    BY <2>1 DEF InLockstep
  <2>7. h = s
    BY <2>1, <2>5, <2>6
  <2>8. QED
    BY <2>1, <2>7
<1>3. chunk.offset = chunk.length
  <2>1. PICK o \in Nat, l \in Nat : o = chunk.offset /\ l = chunk.length /\ o <= l
    BY Parts, QueueParts
  <2>2. o < l => h = h + (l - (o + 1) + 1)
    BY <1>2, <2>1 DEF InLockstep, Pending
  <2>3. QED
    BY <2>1, <2>2
<1>4. \A e \in Event : ~ReceivedBy(e)
  <2> SUFFICES ASSUME NEW e \in Event, ReceivedBy(e) PROVE FALSE
    OBVIOUS
  <2>1. PICK l \in Nat : l = e.length
    BY QueueParts DEF Event
  <2>2. l > 0 /\ h = h + (l - 1 + 1)
    BY <1>2, <2>1 DEF ReceivedBy, Pending
  <2>3. QED
    BY <2>1, <2>2
<1>5. /\ \A i \in 1..Len(queue) : queue[i].type # "RX_COMPLETE"
      /\ ~(pc \in {"event", "RX_COMPLETE"} /\ event.type = "RX_COMPLETE")
  <2>1. \A i \in 1..Len(queue) : queue[i] \in Event
    BY QueueParts, ElementOfSeq
  <2>2. QED
    BY <1>4, <2>1, Parts DEF InLockstep
<1>6. /\ host'.handled = host.handled /\ host'.sent = s + k
      /\ usb'.generation = usb.generation
  BY <1>2, Parts, HostParts DEF UsbOutComplete, Hosts, Usbs
<1>7. \A i \in 1..k : bus'.data[i] = [generation |-> usb.generation, n |-> s + i]
  <2>1. bus'.data = [i \in 1..MaxChunk |->
                       IF i <= k THEN [generation |-> usb.generation, n |-> host.sent + i]
                                 ELSE bus.data[i]]
    BY BusParts DEF UsbOutComplete, Buses
  <2>2. \A i \in 1..k : i \in 1..MaxChunk /\ i <= k
    BY QueueParts
  <2>3. QED
    BY <1>2, <2>1, <2>2
<1>8. \A e : e.length = k => ReceivedBy(e)'
  <2>1. \A i \in 1..k : s + i = h + 1 + i - 1
    BY <1>2
  <2>2. \A i \in 1..k : bus'.data[i] = [generation |-> usb'.generation,
                                        n |-> Len(host'.handled) + 1 + i - 1]
    BY <1>2, <1>6, <1>7, <2>1
  <2>3. host'.sent = Len(host'.handled) + (k - 1 + 1)
    <3>1. k \in Nat
      BY QueueParts
    <3>2. s + k = h + (k - 1 + 1)
      BY <1>2, <3>1
    <3>3. QED
      BY <1>2, <1>6, <3>2
  <2>4. chunk'.offset = chunk'.length /\ k > 0
    BY <1>1, <1>3
  <2>5. QED
    BY <2>2, <2>3, <2>4 DEF ReceivedBy, Pending
<1>9. \/ queue' = queue
      \/ /\ Len(queue') = Len(queue) + 1
         /\ queue'[Len(queue) + 1].type = "RX_COMPLETE"
         /\ queue'[Len(queue) + 1].length = k
         /\ \A i \in 1..Len(queue) : queue'[i] = queue[i]
  BY OutQueues
<1>10. \A i \in 1..Len(queue') : queue'[i].type = "RX_COMPLETE" =>
         i = Len(queue) + 1 /\ queue'[i].length = k
  BY <1>5, <1>9, QueueParts
<1>11. /\ \A i \in 1..Len(host'.handled) :
            host'.handled[i] = [n |-> i, session |-> session'.id]
       /\ Len(host'.handled) <= host'.sent
  <2>1. k \in Nat
    BY QueueParts
  <2>2. h <= s + k
    BY <1>2, <2>1
  <2>3. Len(host'.handled) <= host'.sent
    BY <1>2, <1>6, <2>2
  <2>4. QED
    BY <1>1, <1>6, <2>3 DEF InLockstep
<1>12. ~(chunk'.offset < chunk'.length)
  BY <1>1, <1>3, Parts, QueueParts
<1>13. \A i, j \in 1..Len(queue') :
         queue'[i].type = "RX_COMPLETE" /\ queue'[j].type = "RX_COMPLETE" => i = j
  BY <1>10
<1>14. \A i \in 1..Len(queue') : queue'[i].type = "RX_COMPLETE" => ReceivedBy(queue[i])'
  BY <1>8, <1>10 DEF ReceivedBy, Pending
<1>15. QED
  BY <1>1, <1>5, <1>11, <1>12, <1>13, <1>14 DEF InLockstep

LEMMA LockstepIn ==
  ASSUME Types, UsbInComplete, InLockstep
  PROVE  InLockstep'
<1>1. /\ pc' = pc /\ event' = event /\ chunk' = chunk /\ session' = session /\ usb' = usb
  BY DEF UsbInComplete, task
<1>2. bus'.data = bus.data /\ host'.handled = host.handled /\ host'.sent = host.sent
  BY BusParts, HostParts DEF UsbInComplete, Buses, Hosts
<1>3. \/ queue' = queue
      \/ /\ Len(queue') = Len(queue) + 1
         /\ queue'[Len(queue) + 1].type = "TX_COMPLETE"
         /\ \A i \in 1..Len(queue) : queue'[i] = queue[i]
  BY InQueues
<1>4. \A i \in 1..Len(queue') : queue'[i].type = "RX_COMPLETE" =>
        i \in 1..Len(queue) /\ queue'[i] = queue[i]
  BY <1>3, QueueParts
<1>5. \A e : ReceivedBy(e) => ReceivedBy(e)'
  BY <1>1, <1>2 DEF ReceivedBy, Pending
<1>6. /\ \A i \in 1..Len(queue') : queue'[i].type = "RX_COMPLETE" => ReceivedBy(queue[i])'
      /\ pc' \in {"event", "RX_COMPLETE"} /\ event'.type = "RX_COMPLETE" => ReceivedBy(event)'
  BY <1>1, <1>4, <1>5 DEF InLockstep
<1>7. chunk'.offset < chunk'.length => Pending(chunk.offset + 1, chunk.length)'
  BY <1>1, <1>2 DEF InLockstep, Pending
<1>8. /\ \A i, j \in 1..Len(queue') :
           queue'[i].type = "RX_COMPLETE" /\ queue'[j].type = "RX_COMPLETE" => i = j
      /\ pc' \in {"event", "RX_COMPLETE"} /\ event'.type = "RX_COMPLETE"
           => \A i \in 1..Len(queue') : queue'[i].type # "RX_COMPLETE"
  BY <1>1, <1>4 DEF InLockstep
<1>9. QED
  BY <1>1, <1>2, <1>4, <1>6, <1>7, <1>8 DEF InLockstep, ReceivedBy, Pending

LEMMA LockstepTask ==
  ASSUME Types, Types', Generations, Renewed, Task, Live', Live => InLockstep
  PROVE  InLockstep'
<1>1. CASE ProcessConfigured
  BY <1>1, LockstepStarted
<1>2. CASE ~ProcessConfigured
  <2>1. pc # "configured"
    BY <1>2 DEF Task, Receive, PollTimeout, ProcessEvent, ReinitSession, ReinitDone,
       ArmOutTransfer, OutArmed, ProcessRxComplete, ProcessTxComplete, Dispatch, DispatchDone,
       StartNextInTransfer, StartWrite, Sent, RxTail, TxTail, ResetCheck, Publish
  <2>2. Live /\ InLockstep
    BY <2>1, Stage
  <2>3. CASE Receive
    BY <2>2, <2>3, LockstepReceive
  <2>4. CASE ProcessRxComplete
    BY <2>2, <2>4, LockstepRead
  <2>5. CASE Dispatch
    BY <2>2, <2>5, LockstepDispatch
  <2>6. CASE ReinitSession \/ ReinitDone
    <3>1. pc \notin {"CONFIGURED", "configured_clear", "reinit", "reinit_clear"}
      BY <2>2 DEF Live, Starting, Renewed
    <3>2. QED
      BY <2>6, <3>1 DEF ReinitSession, ReinitDone
  <2>7. CASE ~(Receive \/ ProcessRxComplete \/ Dispatch \/ ReinitSession \/ ReinitDone)
    <3>1. /\ host' = host /\ chunk' = chunk /\ queue' = queue /\ event' = event
          /\ pc' \in {"event", "RX_COMPLETE"} => pc = "event"
      BY <1>2, <2>7, Parts DEF Types, Task, PollTimeout, ProcessEvent,
         ArmOutTransfer, OutArmed, ProcessTxComplete, DispatchDone,
         StartNextInTransfer, StartWrite, Sent, RxTail, TxTail, ResetCheck, Publish
    <3>2. session'.id = session.id
      BY <2>7, TaskKeeps
    <3>3. usb'.generation = usb.generation
      BY <1>2, <2>7, Parts DEF Usbs, Completed, Task, PollTimeout, ProcessEvent,
         ArmOutTransfer, OutArmed, ProcessTxComplete, DispatchDone,
         StartNextInTransfer, StartWrite, Sent, RxTail, TxTail, ResetCheck, Publish
    <3>4. bus'.data = bus.data
      <4>1. CASE ArmOutTransfer \/ StartWrite
        BY <4>1, BusParts DEF ArmOutTransfer, StartWrite, Buses
      <4>2. CASE ~(ArmOutTransfer \/ StartWrite)
        BY <1>2, <2>7, <4>2 DEF Task, PollTimeout, ProcessEvent,
           OutArmed, ProcessTxComplete, DispatchDone,
           StartNextInTransfer, Sent, RxTail, TxTail, ResetCheck, Publish
      <4>3. QED
        BY <4>1, <4>2
    <3>5. QED
      BY <2>2, <3>1, <3>2, <3>3, <3>4, LockstepKept
  <2>8. QED
    BY <2>3, <2>4, <2>5, <2>6, <2>7
<1>3. QED
  BY <1>1, <1>2

LEMMA LInvStep == ConfigureAnytime = FALSE /\ Lockstep = TRUE /\ LInv /\ [Next]_vars => LInv'
<1> SUFFICES ASSUME ConfigureAnytime = FALSE, Lockstep = TRUE, LInv, [Next]_vars PROVE LInv'
  OBVIOUS
<1>1. IInv /\ IInv'
  BY IInvStep DEF LInv
<1>2. Types /\ Types' /\ Generations /\ Renewed /\ HandledAnswered /\ (Live => InLockstep)
  BY <1>1 DEF IInv, LInv
<1>3. ASSUME Live' PROVE InLockstep'
  <2>1. CASE Task
    BY <1>2, <1>3, <2>1, LockstepTask
  <2>2. CASE BusReset \/ Configured
    BY <1>2, <1>3, <2>2, BusResetStage, ConfiguredStage
  <2>3. CASE UsbInComplete
    BY <1>2, <2>3, CompletionsLive, LockstepIn
  <2>4. ASSUME NEW k \in 1..MaxChunk, UsbOutComplete(k) PROVE InLockstep'
    BY <1>2, <2>4, CompletionsLive, LockstepOut
  <2>5. CASE UNCHANGED vars
    <3>1. Live
      BY <1>3, <2>5 DEF vars, Live, Starting
    <3>2. QED
      BY <1>2, <2>5, <3>1 DEF vars, InLockstep, ReceivedBy, Pending
  <2>6. QED
    BY <2>1, <2>2, <2>3, <2>4, <2>5 DEF Next
<1>4. QED
  BY <1>1, <1>3 DEF LInv

(* If the requests are handled in the order they were sent in and the answers *)
(* follow the handling, the answers follow the sending.                       *)
LEMMA AnsweredAsSent ==
  ASSUME Types, RequestsInOrder, HandledAnswered
  PROVE  AnswersInOrder
<1>1. /\ host.answers \in Seq(Nat) /\ UnderWay \in Seq(Nat) /\ Waiting \in Seq(Nat)
      /\ Len(Numbers) = Len(host.handled)
  BY AnswerSeqs
<1>2. Numbers = (host.answers \o UnderWay) \o Waiting
  BY DEF HandledAnswered, Numbers, UnderWay, Waiting
<1>3. PICK a \in Nat, u \in Nat, w \in Nat, h \in Nat :
        /\ a = Len(host.answers) /\ u = Len(UnderWay) /\ w = Len(Waiting)
        /\ h = Len(host.handled)
  BY <1>1, HostParts, LenProperties
<1>4. /\ host.answers \o UnderWay \in Seq(Nat) /\ Len(host.answers \o UnderWay) = a + u
      /\ \A i \in 1..a : (host.answers \o UnderWay)[i] = host.answers[i]
  BY <1>1, <1>3, ConcatProperties
<1>5. /\ Len((host.answers \o UnderWay) \o Waiting) = a + u + w
      /\ \A i \in 1..a + u : ((host.answers \o UnderWay) \o Waiting)[i]
                              = (host.answers \o UnderWay)[i]
  BY <1>1, <1>3, <1>4, ConcatProperties
<1>6. h = a + u + w
  BY <1>1, <1>2, <1>3, <1>5
<1>7. ASSUME NEW i \in 1..a PROVE host.answers[i] = i /\ i <= host.sent
  <2>1. i \in 1..a + u /\ i \in 1..h
    BY <1>3, <1>6
  <2>2. host.answers[i] = Numbers[i]
    BY <1>2, <1>4, <1>5, <2>1
  <2>3. Numbers[i] = host.handled[i].n
    BY <1>3, <2>1 DEF Numbers
  <2>4. QED
    BY <1>3, <2>1, <2>2, <2>3 DEF RequestsInOrder
<1>8. QED
  BY <1>3, <1>7 DEF AnswersInOrder

(* With a host that waits for its answers, usb_transfer_buffer has one owner  *)
(* too: between two resets every request is handled once and in order, by one *)
(* session begun after the last reset, and answered once, in the order the    *)
(* host sent them, and every transfer is terminated.                          *)
THEOREM ExchangeOrdered ==
  ASSUME ConfigureAnytime = FALSE, Lockstep = TRUE PROVE Spec => []ExchangeInOrder
<1>1. Init => LInv
  BY InitIInv DEF LInv, Init, Live
<1>2. LInv /\ [Next]_vars => LInv'
  BY LInvStep
<1>3. LInv => ExchangeInOrder
  <2> SUFFICES ASSUME LInv PROVE ExchangeInOrder
    OBVIOUS
  <2>1. RequestsInOrder
    <3>1. CASE Live
      <4>1. PICK h \in Nat, s \in Nat : h = Len(host.handled) /\ s = host.sent /\ h <= s
        BY <3>1, HostParts, QueueParts DEF LInv, IInv, InLockstep
      <4>2. \A i \in 1..h : host.handled[i].n = i /\ host.handled[i].session = session.id
        <5>1. \A i \in 1..h : host.handled[i] = [n |-> i, session |-> session.id]
          BY <3>1, <4>1 DEF LInv, InLockstep
        <5>2. TAKE i \in 1..h
        <5>3. host.handled[i] = [n |-> i, session |-> session.id]
          BY <5>1
        <5>4. QED
          BY <5>3
      <4>3. \A i \in 1..h : i <= s /\ 1 \in 1..h
        BY <4>1
      <4>4. session.id > host.floor
        BY <3>1, Parts, HostParts DEF LInv, IInv, Renewed
      <4>5. QED
        BY <4>1, <4>2, <4>3, <4>4 DEF RequestsInOrder
    <3>2. CASE ~Live
      <4>1. Len(host.handled) = 0
        BY <3>2, EmptySeq DEF LInv, IInv, Generations, Fresh
      <4>2. QED
        BY <4>1 DEF RequestsInOrder
    <3>3. QED
      BY <3>1, <3>2
  <2>2. HandledAnswered
    BY DEF LInv, IInv
  <2>3. AnswersInOrder
    BY <2>1, <2>2, AnsweredAsSent DEF LInv, IInv
  <2>4. ZlpTerminates
    BY DEF LInv, IInv, ZlpOwed, InTransfer, Generations, Fresh, ZlpTerminates
  <2>5. QED
    BY <2>1, <2>2, <2>3, <2>4 DEF ExchangeInOrder
<1>4. QED
  BY <1>1, <1>2, <1>3, PTL DEF Spec

(* What such a host reads: its i-th answer is that to its i-th request,       *)
(* through events, ZLPs, failed writes and resets.                            *)
THEOREM AnsweredInOrder ==
  ASSUME ConfigureAnytime = FALSE, Lockstep = TRUE PROVE Spec => []AnswersInOrder
<1>1. ExchangeInOrder => AnswersInOrder
  BY DEF ExchangeInOrder
<1>2. QED
  BY ExchangeOrdered, <1>1, PTL
=============================================================================
