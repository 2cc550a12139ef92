--------------------------- MODULE CanOwnerProofs ---------------------------
(***************************************************************************)
(* Proofs about CanOwner for every length of the queues and rings and every*)
(* number of inputs: its types, that each frame is delivered in order or   *)
(* accounted for as lost exactly once, that no wake-up is lost, and that   *)
(* the session follows the state of the controller until a change is lost. *)
(***************************************************************************)
EXTENDS CanOwner, FiniteSetTheorems, SequenceTheorems, TLAPS

Bounded(path, n) == \A i \in 1..Len(path) : path[i] <= n

(* The number of frames on a path.                                          *)
Frames(path) == Cardinality(FrameIndexes(path))
-----------------------------------------------------------------------------
(* Paths.                                                                   *)

LEMMA FramesType ==
  ASSUME NEW p \in Seq(Nat)
  PROVE  /\ IsFiniteSet(FrameIndexes(p)) /\ Frames(p) \in Nat
         /\ FrameIndexes(p) \subseteq 1..Len(p)
<1>1. FrameIndexes(p) \subseteq 1..Len(p)
  BY DEF FrameIndexes
<1>2. Len(p) \in Nat /\ IsFiniteSet(1..Len(p))
  BY LenProperties, FS_Interval
<1>3. IsFiniteSet(FrameIndexes(p))
  BY <1>1, <1>2, FS_Subset
<1>4. QED
  BY <1>1, <1>3, FS_CardinalityType DEF Frames

(* A path without its end.                                                  *)
LEMMA Shortened ==
  ASSUME NEW p \in Seq(Nat), NEW m \in 0..Len(p), \A i \in m+1..Len(p) : p[i] # 0
  PROVE  /\ SubSeq(p, 1, m) \in Seq(Nat)
         /\ Ordered(p) => Ordered(SubSeq(p, 1, m))
         /\ \A n \in Nat : Bounded(p, n) => Bounded(SubSeq(p, 1, m), n)
         /\ Frames(p) = Frames(SubSeq(p, 1, m)) + (Len(p) - m)
<1> DEFINE q == SubSeq(p, 1, m)
<1>1. /\ Len(p) \in Nat /\ m \in Nat /\ m <= Len(p)
      /\ q \in Seq(Nat) /\ Len(q) = m /\ \A i \in 1..m : q[i] = p[i]
  BY LenProperties, SubSeqProperties
<1>2. FrameIndexes(p) = FrameIndexes(q) \cup (m+1..Len(p))
  BY <1>1 DEF FrameIndexes
<1>3. FrameIndexes(q) \cap (m+1..Len(p)) = {}
  BY <1>1 DEF FrameIndexes
<1>4. Ordered(p) => Ordered(q)
  BY <1>1, <1>2 DEF Ordered, FrameIndexes
<1>5. \A n \in Nat : Bounded(p, n) => Bounded(q, n)
  BY <1>1 DEF Bounded
<1>6. IsFiniteSet(m+1..Len(p)) /\ Cardinality(m+1..Len(p)) = Len(p) - m
  <2>1. m + 1 \in Int /\ Len(p) \in Int
    BY <1>1
  <2>2. /\ IsFiniteSet(m+1..Len(p))
        /\ Cardinality(m+1..Len(p)) = IF m+1 > Len(p) THEN 0 ELSE Len(p)-(m+1)+1
    BY <2>1, FS_Interval
  <2>3. QED
    BY <1>1, <2>2
<1>7. Frames(q) \in Nat /\ IsFiniteSet(FrameIndexes(q))
  BY <1>1, FramesType
<1>8. Frames(p) = Frames(q) + Cardinality(m+1..Len(p)) - Cardinality({})
  BY <1>2, <1>3, <1>6, <1>7, FS_Union DEF Frames
<1>9. QED
  BY <1>1, <1>4, <1>5, <1>6, <1>7, <1>8, FS_EmptySet

(* A path with another element x in it; none is added for x = 0.            *)
LEMMA Inserted ==
  ASSUME NEW a \in Seq(Nat), NEW b \in Seq(Nat), NEW x \in Nat
  PROVE  /\ a \o b \in Seq(Nat) /\ Append(a, x) \o b \in Seq(Nat)
         /\ Ordered(Append(a, x) \o b) => Ordered(a \o b)
         /\ x = 0 /\ Ordered(a \o b) => Ordered(Append(a, x) \o b)
         /\ \A n \in Nat : Bounded(Append(a, x) \o b, n) <=> Bounded(a \o b, n) /\ x <= n
         /\ Frames(Append(a, x) \o b) = Frames(a \o b) + (IF x = 0 THEN 0 ELSE 1)
<1>1. PICK p \in Seq(Nat) : p = a \o b
  BY ConcatProperties
<1>2. PICK r \in Seq(Nat) : r = Append(a, x)
  BY AppendProperties
<1>3. PICK q \in Seq(Nat) : q = r \o b
  BY ConcatProperties
<1>4. PICK k \in Nat : k = Len(a)
  BY LenProperties
<1>5. PICK l \in Nat : l = Len(b)
  BY LenProperties
<1>6. /\ Len(p) = k + l
      /\ \A i \in 1..k+l : p[i] = IF i <= k THEN a[i] ELSE b[i - k]
  BY <1>1, <1>4, <1>5, ConcatProperties
<1>7. Len(r) = k + 1 /\ r[k + 1] = x /\ \A i \in 1..k : r[i] = a[i]
  BY <1>2, <1>4, AppendProperties
<1>8. /\ Len(q) = k + 1 + l
      /\ \A i \in 1..k+1+l : q[i] = IF i <= k + 1 THEN r[i] ELSE b[i - (k + 1)]
  <2>1. /\ Len(q) = Len(r) + Len(b)
        /\ \A i \in 1..Len(r)+Len(b) : q[i] = IF i <= Len(r) THEN r[i] ELSE b[i - Len(r)]
    BY <1>3, ConcatProperties
  <2>2. QED
    BY <1>5, <1>7, <2>1
<1>9. /\ q[k + 1] = x
      /\ \A i \in 1..k : q[i] = p[i]
      /\ \A i \in k+1..k+l : q[i + 1] = p[i]
  <2>1. q[k + 1] = x
    <3>1. k + 1 \in 1..k+1+l
      OBVIOUS
    <3>2. QED
      BY <1>7, <1>8, <3>1
  <2>4. ASSUME NEW i \in 1..k PROVE q[i] = p[i]
    <3>1. i \in 1..k+1+l /\ i <= k + 1 /\ i \in 1..k+l /\ i <= k
      OBVIOUS
    <3>2. q[i] = r[i] /\ p[i] = a[i] /\ r[i] = a[i]
      BY <1>6, <1>7, <1>8, <3>1
    <3>3. QED
      BY <3>2
  <2>2. ASSUME NEW i \in k+1..k+l PROVE q[i + 1] = p[i]
    <3>1. i + 1 \in 1..k+1+l /\ ~(i + 1 <= k + 1) /\ i \in 1..k+l /\ ~(i <= k)
      OBVIOUS
    <3>2. q[i + 1] = b[(i + 1) - (k + 1)] /\ p[i] = b[i - k]
      BY <1>6, <1>8, <3>1
    <3>3. QED
      BY <3>2
  <2>3. QED
    BY <2>1, <2>2, <2>4
<1>10. FrameIndexes(p) = {i \in 1..k+l : p[i] # 0} /\ FrameIndexes(q) = {i \in 1..k+1+l : q[i] # 0}
  BY <1>6, <1>8 DEF FrameIndexes
<1> DEFINE g == [i \in FrameIndexes(p) |-> IF i <= k THEN i ELSE i + 1]
<1>11. ASSUME NEW i \in FrameIndexes(p)
       PROVE  g[i] \in FrameIndexes(q) \ {k + 1} /\ q[g[i]] = p[i]
  <2>1. CASE i <= k
    <3>1. i \in 1..k /\ p[i] # 0 /\ i \in 1..k+1+l /\ i # k + 1
      BY <1>10, <2>1
    <3>2. g[i] = i /\ q[i] = p[i]
      BY <1>9, <2>1, <3>1
    <3>3. QED
      BY <1>10, <3>1, <3>2
  <2>2. CASE i > k
    <3>1. i \in k+1..k+l /\ p[i] # 0 /\ i + 1 \in 1..k+1+l /\ i + 1 # k + 1
      BY <1>10, <2>2
    <3>2. g[i] = i + 1 /\ q[i + 1] = p[i]
      BY <1>9, <2>2, <3>1
    <3>3. QED
      BY <1>10, <3>1, <3>2
  <2>3. QED
    BY <1>10, <2>1, <2>2
<1>12. \A i, j \in FrameIndexes(p) : i < j <=> g[i] < g[j]
  BY <1>10
<1>13. ASSUME NEW j \in FrameIndexes(q) \ {k + 1}
       PROVE  \E i \in FrameIndexes(p) : g[i] = j
  <2>1. CASE j <= k
    <3>1. j \in FrameIndexes(p)
      BY <1>9, <1>10, <2>1
    <3>2. g[j] = j
      BY <2>1, <3>1
    <3>3. QED
      BY <3>1, <3>2
  <2>2. CASE j > k + 1
    <3>1. j - 1 \in k+1..k+l /\ (j - 1) + 1 = j
      BY <1>10, <2>2
    <3>2. p[j - 1] = q[j]
      BY <1>9, <3>1
    <3>3. j - 1 \in FrameIndexes(p)
      <4>1. q[j] # 0 /\ j - 1 \in 1..k+l
        BY <1>10, <3>1
      <4>2. QED
        BY <1>10, <3>2, <4>1
    <3>4. g[j - 1] = j
      BY <3>1, <3>3
    <3>5. QED
      BY <3>3, <3>4
  <2>3. j \in Nat /\ j # k + 1
    BY <1>10
  <2>4. QED
    BY <2>1, <2>2, <2>3
<1>14. g \in [FrameIndexes(p) -> FrameIndexes(q) \ {k + 1}]
  BY <1>11
<1> HIDE DEF g
<1>15. Ordered(q) => Ordered(p)
  BY <1>11, <1>12 DEF Ordered
<1>16. ASSUME x = 0, Ordered(p) PROVE Ordered(q)
  <2>1. k + 1 \notin FrameIndexes(q)
    BY <1>9, <1>10, <1>16
  <2>2. SUFFICES ASSUME NEW i \in FrameIndexes(q), NEW j \in FrameIndexes(q), i < j
                 PROVE  q[i] < q[j]
    BY DEF Ordered
  <2>3. PICK u \in FrameIndexes(p) : g[u] = i
    BY <1>13, <2>1
  <2>4. PICK v \in FrameIndexes(p) : g[v] = j
    BY <1>13, <2>1
  <2>5. QED
    BY <1>11, <1>12, <1>16, <2>2, <2>3, <2>4 DEF Ordered
<1>17. ASSUME NEW n \in Nat PROVE Bounded(q, n) <=> Bounded(p, n) /\ x <= n
  <2>1. ASSUME Bounded(q, n) PROVE Bounded(p, n) /\ x <= n
    <3>1. x <= n
      BY <1>8, <1>9, <2>1 DEF Bounded
    <3>2. ASSUME NEW i \in 1..k PROVE p[i] <= n
      BY <1>8, <1>9, <2>1 DEF Bounded
    <3>3. ASSUME NEW i \in k+1..k+l PROVE p[i] <= n
      <4>1. i + 1 \in 1..Len(q) /\ q[i + 1] = p[i]
        BY <1>8, <1>9
      <4>2. QED
        BY <2>1, <4>1 DEF Bounded
    <3>4. QED
      BY <1>6, <3>1, <3>2, <3>3 DEF Bounded
  <2>2. ASSUME Bounded(p, n), x <= n PROVE Bounded(q, n)
    <3>1. SUFFICES ASSUME NEW i \in 1..k+1+l PROVE q[i] <= n
      BY <1>8 DEF Bounded
    <3>2. CASE i <= k
      <4>1. i \in 1..Len(p) /\ q[i] = p[i]
        BY <1>6, <1>9, <3>2
      <4>2. QED
        BY <2>2, <4>1 DEF Bounded
    <3>3. CASE i = k + 1
      BY <1>9, <2>2, <3>3
    <3>4. CASE i > k + 1
      <4>1. PICK j \in k+1..k+l : i = j + 1
        BY <3>4
      <4>2. q[i] = p[j] /\ p[j] <= n
        BY <1>6, <1>9, <2>2, <4>1 DEF Bounded
      <4>3. QED
        BY <4>2
    <3>5. QED
      BY <3>2, <3>3, <3>4
  <2>3. QED
    BY <2>1, <2>2
<1>18. Frames(p) = Cardinality(FrameIndexes(q) \ {k + 1})
  <2>1. \A i, j \in FrameIndexes(p) : g[i] = g[j] => i = j
    <3>1. \A i \in FrameIndexes(p) : i \in Nat /\ g[i] \in Nat
      BY <1>10, <1>11
    <3>2. QED
      BY <1>12, <3>1
  <2>2. g \in Bijection(FrameIndexes(p), FrameIndexes(q) \ {k + 1})
    BY <1>13, <1>14, <2>1 DEF Bijection, Injection, Surjection, IsInjective
  <2>3. QED
    BY <2>2, FramesType, FS_Bijection DEF ExistsBijection, Frames
<1>19. k + 1 \in FrameIndexes(q) <=> x # 0
  BY <1>9, <1>10
<1>20. IsFiniteSet(FrameIndexes(q)) /\ Frames(q) \in Nat
  BY FramesType
<1>21. Cardinality(FrameIndexes(q) \ {k + 1}) =
         IF k + 1 \in FrameIndexes(q) THEN Frames(q) - 1 ELSE Frames(q)
  BY <1>20, FS_RemoveElement DEF Frames
<1>22. Frames(q) = Frames(p) + (IF x = 0 THEN 0 ELSE 1)
  BY <1>18, <1>19, <1>20, <1>21
<1>23. QED
  BY <1>1, <1>2, <1>3, <1>15, <1>16, <1>17, <1>22

(* A path with a newer frame at its end.                                    *)
LEMMA Extended ==
  ASSUME NEW p \in Seq(Nat), NEW n \in Nat, Bounded(p, n)
  PROVE  /\ Append(p, n + 1) \in Seq(Nat)
         /\ Ordered(p) => Ordered(Append(p, n + 1))
         /\ Bounded(Append(p, n + 1), n + 1)
         /\ Frames(Append(p, n + 1)) = Frames(p) + 1
<1> DEFINE q == Append(p, n + 1)
<1>1. /\ q \in Seq(Nat) /\ Len(q) = Len(p) + 1 /\ q[Len(p) + 1] = n + 1
      /\ \A i \in 1..Len(p) : q[i] = p[i]
  BY AppendProperties
<1>7. Len(p) \in Nat /\ \A i \in 1..Len(p) : p[i] \in Nat
  BY LenProperties
<1>8. PICK l \in Nat : l = Len(p)
  BY <1>7
<1>9. 1..l+1 = 1..l \cup {l + 1} /\ l + 1 \notin 1..l
  OBVIOUS
<1> HIDE DEF q
<1>2. Bounded(q, n + 1)
  <2>1. \A i \in 1..l : q[i] <= n + 1
    BY <1>1, <1>7, <1>8 DEF Bounded
  <2>2. q[l + 1] <= n + 1
    BY <1>1, <1>8
  <2>3. QED
    BY <1>1, <1>8, <1>9, <2>1, <2>2 DEF Bounded
<1>3. FrameIndexes(q) = FrameIndexes(p) \cup {l + 1} /\ l + 1 \notin FrameIndexes(p)
  BY <1>1, <1>8, <1>9, n + 1 # 0 DEF FrameIndexes
<1>4. ASSUME Ordered(p) PROVE Ordered(q)
  <2>1. SUFFICES ASSUME NEW i \in FrameIndexes(q), NEW j \in FrameIndexes(q), i < j
                 PROVE  q[i] < q[j]
    BY DEF Ordered
  <2>2. i \in FrameIndexes(p) /\ i \in 1..l
    BY <1>3, <1>8, <2>1 DEF FrameIndexes
  <2>3. CASE j \in FrameIndexes(p)
    BY <1>1, <1>4, <1>8, <2>1, <2>2, <2>3 DEF Ordered, FrameIndexes
  <2>4. CASE j = l + 1
    BY <1>1, <1>7, <1>8, <2>2, <2>4 DEF Bounded
  <2>5. QED
    BY <1>3, <2>3, <2>4
<1>5. Frames(q) = Frames(p) + 1
  BY <1>3, FramesType, FS_AddElement DEF Frames
<1>6. QED
  BY <1>1, <1>2, <1>4, <1>5 DEF q
-----------------------------------------------------------------------------
(* The inductive invariant.                                                 *)

RxEvent         == [type: {"RX"}, frame: Frame]
DiagnosticEvent == [type: {"DIAGNOSTIC"}, status: ChannelState]

Count == [Counter -> Nat]

Controllers == [state: ChannelState, flags: SUBSET Flag, fifo: Seq(Frame),
                frames: Nat, inputs: 0..MaxInputs]
Interrupts  == [active: BOOLEAN, flags: SUBSET Flag, status: ChannelState]
States      == [last_protocol_status: ChannelState, queue_count: 0..QueueLength,
                drops: Count, invalid_frames: Nat]
Samples     == [queue_count: 0..QueueLength, status: ChannelState]
UsbStates   == [negotiated: BOOLEAN, baseline: BOOLEAN, reconcile: BOOLEAN, reported: Count,
                reported_state: ChannelState, channel_state: ChannelState]
Snapshots   == [status: ChannelState, queue_count: 0..QueueLength, drops: Count]
Histories   == [delivered: Seq(Frame), told: Nat, forgiven: Nat,
                lost: {"never", "since", "settled"}]
Places      == [Task -> McanPlace \cup UsbPlace]

(* The types, except for the bound on the invalid frames, which only the    *)
(* accounts give.                                                           *)
Types ==
  /\ controller \in Controllers
  /\ controller.frames <= controller.inputs
  /\ isr \in Interrupts
  /\ queue \in Seq(Event) /\ Len(queue) <= QueueLength
  /\ state \in States
  /\ ring \in Seq(Frame) /\ Len(ring) <= RingCapacity
  /\ edges \in Seq(ChannelState) /\ Len(edges) <= EdgeCapacity
  /\ edge_state \in ChannelState
  /\ event \in Event \cup {NoEvent}
  /\ sample \in Samples
  /\ usb_queue \in Seq(UsbEvent) /\ Len(usb_queue) <= UsbQueueLength
  /\ latch \in BOOLEAN
  /\ usb \in UsbStates
  /\ diag \in Snapshots
  /\ pc \in Places /\ pc["mcan"] \in McanPlace /\ pc["usb"] \in UsbPlace
  /\ history \in Histories
  /\ pc["mcan"] = "publish" => event \in RxEvent
  /\ pc["mcan"] \in {"capture", "edge"} => event \in DiagnosticEvent

(* What is reported was in the snapshot, and what was in the snapshot was   *)
(* counted.                                                                 *)
Reports ==
  \A c \in Counter : usb.reported[c] <= diag.drops[c] /\ diag.drops[c] <= state.drops[c]

(* The path holds frames that have arrived.                                 *)
Arrived == Bounded(Path, controller.frames)

(* A set latch has a signal in the queue or on its way there, until the USB *)
(* task is at the drain that clears it; and from the recheck on, a frame in *)
(* the ring has one.                                                        *)
Woken ==
  /\ latch /\ pc["usb"] \notin {"pop", "drained"}
       => usb_queue # <<>> \/ pc["mcan"] = "send" \/ pc["usb"] = "send"
  /\ ring # <<>> /\ pc["usb"] \notin {"pop", "drained", "recheck", "signal"}
       => usb_queue # <<>> \/ pc["mcan"] \in {"signal", "send"} \/ pc["usb"] = "send"
  /\ controller.fifo # <<>> => "RX" \in controller.flags

IInv == Types /\ Reports /\ FramesAccounted /\ Arrived /\ Woken
-----------------------------------------------------------------------------
(* Helpers.                                                                 *)

(* The parts of the records.                                                *)
LEMMA ControllerParts ==
  ASSUME Types
  PROVE  /\ controller \in Controllers /\ controller.state \in ChannelState
         /\ controller.flags \in SUBSET Flag /\ controller.fifo \in Seq(Frame)
         /\ controller.frames \in Nat /\ controller.inputs \in 0..MaxInputs
         /\ controller.frames <= controller.inputs
<1>1. controller \in Controllers /\ controller.frames <= controller.inputs
  BY DEF Types
<1>2. QED
  BY <1>1 DEF Controllers

LEMMA StateParts ==
  ASSUME Types
  PROVE  /\ state \in States /\ state.last_protocol_status \in ChannelState
         /\ state.queue_count \in 0..QueueLength /\ state.invalid_frames \in Nat
         /\ state.drops \in Count /\ \A c \in Counter : state.drops[c] \in Nat
<1>1. state \in States
  BY DEF Types
<1>2. state.drops \in Count
  BY <1>1 DEF States
<1>3. QED
  BY <1>1, <1>2 DEF States, Count

LEMMA UsbParts ==
  ASSUME Types
  PROVE  /\ usb \in UsbStates /\ usb.reported \in Count
         /\ \A c \in Counter : usb.reported[c] \in Nat
         /\ usb.reported_state \in ChannelState /\ usb.channel_state \in ChannelState
<1>1. usb \in UsbStates
  BY DEF Types
<1>2. usb.reported \in Count
  BY <1>1 DEF UsbStates
<1>3. QED
  BY <1>1, <1>2 DEF UsbStates, Count

LEMMA DiagParts ==
  ASSUME Types
  PROVE  /\ diag \in Snapshots /\ diag.drops \in Count /\ diag.status \in ChannelState
         /\ \A c \in Counter : diag.drops[c] \in Nat
         /\ diag.queue_count \in 0..QueueLength
<1>1. diag \in Snapshots
  BY DEF Types
<1>2. diag.drops \in Count
  BY <1>1 DEF Snapshots
<1>3. QED
  BY <1>1, <1>2 DEF Snapshots, Count

LEMMA HistoryParts ==
  ASSUME Types
  PROVE  /\ history \in Histories /\ history.delivered \in Seq(Frame)
         /\ history.told \in Nat /\ history.forgiven \in Nat
         /\ history.lost \in {"never", "since", "settled"}
<1>1. history \in Histories
  BY DEF Types
<1>2. QED
  BY <1>1 DEF Histories

LEMMA QueueParts ==
  ASSUME Types
  PROVE  /\ queue \in Seq(Event) /\ Len(queue) \in 0..QueueLength
         /\ ring \in Seq(Frame) /\ Len(ring) \in 0..RingCapacity
         /\ edges \in Seq(ChannelState) /\ Len(edges) \in 0..EdgeCapacity
         /\ usb_queue \in Seq(UsbEvent) /\ Len(usb_queue) \in 0..UsbQueueLength
         /\ QueueLength \in Nat /\ RingCapacity \in Nat
         /\ EdgeCapacity \in Nat /\ UsbQueueLength \in Nat
<1>1. /\ queue \in Seq(Event) /\ Len(queue) <= QueueLength
      /\ ring \in Seq(Frame) /\ Len(ring) <= RingCapacity
      /\ edges \in Seq(ChannelState) /\ Len(edges) <= EdgeCapacity
      /\ usb_queue \in Seq(UsbEvent) /\ Len(usb_queue) <= UsbQueueLength
  BY DEF Types
<1>2. Len(queue) \in Nat /\ Len(ring) \in Nat /\ Len(edges) \in Nat /\ Len(usb_queue) \in Nat
  BY <1>1, LenProperties
<1>3. QED
  BY <1>1, <1>2, CanAssumption

LEMMA KeptPrefix ==
  ASSUME NEW S, NEW seq \in Seq(S), NEW n \in Nat
  PROVE  \E k \in 0..Len(seq) : /\ k <= n /\ (k = Len(seq) \/ k = n)
                                /\ Kept(seq, n) = SubSeq(seq, 1, k)
                                /\ Kept(seq, n) \in Seq(S) /\ Len(Kept(seq, n)) = k
                                /\ \A i \in 1..k : Kept(seq, n)[i] = seq[i]
<1>1. PICK l \in Nat : l = Len(seq)
  BY LenProperties
<1>2. PICK k \in 0..l : k = IF l < n THEN l ELSE n
  OBVIOUS
<1>3. Kept(seq, n) = SubSeq(seq, 1, k)
  BY <1>1, <1>2 DEF Kept
<1>4. \A i \in 1..k : i \in 1..Len(seq)
  BY <1>1, <1>2
<1>5. \A i \in 1..k : seq[i] \in S
  BY <1>4, ElementOfSeq
<1>6. SubSeq(seq, 1, k) \in Seq(S)
  BY <1>2, <1>5, SubSeqProperties
<1>7. Len(SubSeq(seq, 1, k)) = k
  BY <1>2, <1>5, SubSeqProperties
<1>8. \A i \in 1..k : SubSeq(seq, 1, k)[i] = seq[i]
  <2>1. \A i \in 1..k-1+1 : SubSeq(seq, 1, k)[i] = seq[1+i-1]
    BY <1>2, <1>5, SubSeqProperties
  <2>2. QED
    BY <2>1, <1>2
<1>9. QED
  BY <1>1, <1>2, <1>3, <1>6, <1>7, <1>8

(* What the interrupt puts into the queue, and what it counts.              *)
LEMMA Enqueued ==
  ASSUME Types, NEW events \in Seq(Event), NEW c \in Counter, EnqueueFromIsr(events, c)
  PROVE  \E k \in 0..Len(events) :
           /\ queue' = queue \o SubSeq(events, 1, k)
           /\ SubSeq(events, 1, k) \in Seq(Event) /\ Len(SubSeq(events, 1, k)) = k
           /\ \A i \in 1..k : SubSeq(events, 1, k)[i] = events[i]
           /\ queue' \in Seq(Event) /\ Len(queue') <= QueueLength
           /\ k = Len(events) \/ Len(queue') = QueueLength
           /\ state' \in States
           /\ state'.invalid_frames = state.invalid_frames
           /\ state'.last_protocol_status = state.last_protocol_status
           /\ state'.drops[c] = state.drops[c] + (Len(events) - k)
           /\ \A d \in Counter \ {c} : state'.drops[d] = state.drops[d]
<1>1. PICK l \in 0..QueueLength : l = Len(queue)
  BY QueueParts
<1>2. PICK n \in Nat : n = QueueLength - l
  BY QueueParts
<1>3. PICK k \in 0..Len(events) :
        /\ k <= n /\ (k = Len(events) \/ k = n)
        /\ Kept(events, n) = SubSeq(events, 1, k)
        /\ Kept(events, n) \in Seq(Event) /\ Len(Kept(events, n)) = k
        /\ \A i \in 1..k : Kept(events, n)[i] = events[i]
  BY KeptPrefix
<1>4. PICK over \in Nat : over = Len(events) - k
  <2>1. Len(events) \in Nat
    BY LenProperties
  <2>2. QED
    BY <1>3, <2>1
<1>5. PICK drops \in Count : drops = [state.drops EXCEPT ![c] = state.drops[c] + over]
  <2>1. state.drops \in Count /\ state.drops[c] + over \in Nat
    BY StateParts
  <2>2. QED
    BY <2>1 DEF Count
<1>6. PICK count \in 0..QueueLength : count = IF events = <<>> THEN state.queue_count ELSE l + k
  <2>1. QueueLength \in Nat /\ state.queue_count \in 0..QueueLength /\ l + k \in 0..QueueLength
    BY <1>2, <1>3, StateParts, QueueParts
  <2>2. QED
    BY <2>1
<1>7. queue' = queue \o SubSeq(events, 1, k)
  BY <1>1, <1>2, <1>3 DEF EnqueueFromIsr
<1>8. state' = [state EXCEPT !.drops = drops, !.queue_count = count]
  <2>1. state.drops[c] + Len(events) - k = state.drops[c] + over
    BY <1>3, <1>4, StateParts, LenProperties
  <2>2. /\ state' = [state EXCEPT
                      !.drops[c] = @ + Len(events) - Len(Kept(events, QueueLength - Len(queue))),
                      !.queue_count = IF events = <<>> THEN @
                             ELSE Len(queue) + Len(Kept(events, QueueLength - Len(queue)))]
    BY DEF EnqueueFromIsr
  <2>3. state' = [state EXCEPT !.drops[c] = @ + Len(events) - k,
                               !.queue_count = IF events = <<>> THEN @ ELSE l + k]
    BY <1>1, <1>2, <1>3, <2>2
  <2>4. QED
    BY <1>5, <1>6, <2>1, <2>3, StateParts DEF States
<1>9. queue' \in Seq(Event) /\ Len(queue') = l + k
  BY <1>1, <1>3, <1>7, ConcatProperties, QueueParts
<1>10. Len(queue') <= QueueLength /\ (k = Len(events) \/ Len(queue') = QueueLength)
  <2>1. l \in Nat /\ k \in Nat /\ n \in Nat /\ QueueLength \in Nat
    BY <1>1, <1>2, <1>3, QueueParts, LenProperties
  <2>2. n = QueueLength - l
    BY <1>2
  <2>3. k <= n /\ (k = Len(events) \/ k = n)
    BY <1>3
  <2>4. Len(queue') = l + k
    BY <1>9
  <2>5. l + k <= QueueLength /\ (k = Len(events) \/ l + k = QueueLength)
    BY <2>1, <2>2, <2>3
  <2>6. QED
    BY <2>4, <2>5, Zenon
<1>11. state' \in States /\ state'.drops = drops
       /\ state'.invalid_frames = state.invalid_frames
       /\ state'.last_protocol_status = state.last_protocol_status
  BY <1>8, StateParts DEF States
<1>12. drops[c] = state.drops[c] + over /\ \A d \in Counter \ {c} : drops[d] = state.drops[d]
  BY <1>5, StateParts DEF Count
<1>13. QED
  BY <1>3, <1>4, <1>7, <1>9, <1>10, <1>11, <1>12

LEMMA EnqueuedCounts ==
  ASSUME Types, NEW events \in Seq(Event), NEW c \in Counter, EnqueueFromIsr(events, c)
  PROVE  \A d \in Counter : state'.drops[d] >= state.drops[d]
<1>1. PICK k \in 0..Len(events) :
        /\ state'.drops[c] = state.drops[c] + (Len(events) - k)
        /\ \A d \in Counter \ {c} : state'.drops[d] = state.drops[d]
  BY Enqueued
<1>2. Len(events) \in Nat
  BY LenProperties
<1>3. \A d \in Counter : state.drops[d] \in Nat
  BY StateParts
<1>4. QED
  BY <1>1, <1>2, <1>3

(* What the drain loop and the end of the interrupt have to put there.      *)
LEMMA RxEvents ==
  ASSUME Types
  PROVE  [i \in 1..Len(controller.fifo) |-> Rx(controller.fifo[i])] \in Seq(Event)
<1> DEFINE events == [i \in 1..Len(controller.fifo) |-> Rx(controller.fifo[i])]
<1>1. \A i \in 1..Len(controller.fifo) : Rx(controller.fifo[i]) \in Event
  BY ControllerParts, ElementOfSeq DEF Rx, Event
<1>2. Len(controller.fifo) \in Nat
  BY ControllerParts, LenProperties
<1>3. events \in [1..Len(controller.fifo) -> Event]
  BY <1>1
<1>4. QED
  BY <1>2, <1>3, SeqDef

DiagnosticOf(interrupt) ==
  IF interrupt.flags \cap Fault # {}
  THEN <<[type |-> "DIAGNOSTIC", status |-> interrupt.status]>> ELSE <<>>

LEMMA DiagnosticEvents ==
  ASSUME Types
  PROVE  DiagnosticOf(isr) \in Seq(Event)
<1>1. isr.status \in ChannelState
  BY DEF Types, Interrupts
<1>2. [type |-> "DIAGNOSTIC", status |-> isr.status] \in Event
  BY <1>1 DEF Event
<1>3. QED
  BY <1>2 DEF DiagnosticOf
-----------------------------------------------------------------------------
(* The initial states.                                                      *)

LEMMA InitInvariant == Init => IInv
<1> SUFFICES ASSUME Init PROVE IInv
  OBVIOUS
<1>1. /\ controller = [state |-> "listen", flags |-> {}, fifo |-> <<>>,
                       frames |-> 0, inputs |-> 0]
      /\ isr = NoIsr /\ queue = <<>> /\ ring = <<>> /\ edges = <<>> /\ edge_state = "listen"
      /\ event = NoEvent /\ sample = NoSample /\ usb_queue = <<>> /\ latch = FALSE
      /\ diag = Snapshot
      /\ pc = [mcan |-> "receive", usb |-> "top"]
      /\ history = [delivered |-> <<>>, told |-> 0, forgiven |-> 0, lost |-> "never"]
  BY DEF Init
<1>2. /\ state = [last_protocol_status |-> "listen", queue_count |-> 0,
                  drops |-> [c \in Counter |-> 0], invalid_frames |-> 0]
      /\ usb = [negotiated |-> Started, baseline |-> Started, reconcile |-> FALSE,
                reported |-> [c \in Counter |-> 0], reported_state |-> "listen",
                channel_state |-> "listen"]
  BY DEF Init
<1>3. [c \in Counter |-> 0] \in Count
  BY DEF Count
<1>4. QueueLength \in Nat /\ MaxInputs \in Nat /\ Started \in BOOLEAN
      /\ RingCapacity \in Nat /\ EdgeCapacity \in Nat /\ UsbQueueLength \in Nat
  BY CanAssumption
<1>5. /\ <<>> \in Seq(Frame) /\ <<>> \in Seq(Event) /\ <<>> \in Seq(ChannelState)
      /\ <<>> \in Seq(UsbEvent) /\ Len(<<>>) = 0
  BY EmptySeq
<1>6. Types
  <2>1. pc \in Places /\ pc["mcan"] = "receive" /\ pc["usb"] = "top"
    <3>1. pc = [t \in {"mcan", "usb"} |-> IF t = "mcan" THEN "receive" ELSE "top"]
      BY <1>1
    <3>3. \A t \in Task : (IF t = "mcan" THEN "receive" ELSE "top") \in McanPlace \cup UsbPlace
      BY DEF McanPlace, UsbPlace
    <3>4. pc \in Places
      BY <3>1, <3>3 DEF Task, Places
    <3>5. QED
      BY <3>1, <3>4
  <2>2. diag = [status |-> "listen", queue_count |-> 0, drops |-> [c \in Counter |-> 0]]
    BY <1>1, <1>2 DEF Snapshot
  <2>3. diag \in Snapshots
    BY <2>2, <1>3, <1>4 DEF ChannelState, Snapshots
  <2>4. state \in States
    BY <1>2, <1>3, <1>4 DEF ChannelState, States
  <2>5. usb \in UsbStates
    BY <1>2, <1>3, <1>4 DEF ChannelState, UsbStates
  <2>6. controller \in Controllers
    BY <1>1, <1>4, <1>5 DEF ChannelState, Controllers
  <2>7. history \in Histories
    BY <1>1, <1>5 DEF Histories
  <2>8. /\ isr \in Interrupts
        /\ sample \in Samples
    BY <1>1, <1>4 DEF NoIsr, NoSample, ChannelState, Interrupts, Samples
  <2>9. controller.frames <= controller.inputs
    BY <1>1
  <2>10. pc["mcan"] \in McanPlace /\ pc["usb"] \in UsbPlace
    BY <2>1 DEF McanPlace, UsbPlace
  <2>11. /\ pc["mcan"] = "publish" => event \in RxEvent
         /\ pc["mcan"] \in {"capture", "edge"} => event \in DiagnosticEvent
    BY <2>1
  <2>12. edge_state \in ChannelState /\ event \in Event \cup {NoEvent} /\ latch \in BOOLEAN
    BY <1>1 DEF ChannelState
  <2>13. /\ queue \in Seq(Event) /\ Len(queue) <= QueueLength
         /\ ring \in Seq(Frame) /\ Len(ring) <= RingCapacity
         /\ edges \in Seq(ChannelState) /\ Len(edges) <= EdgeCapacity
         /\ usb_queue \in Seq(UsbEvent) /\ Len(usb_queue) <= UsbQueueLength
    BY <1>1, <1>4, <1>5
  <2>14. QED
    BY <2>1, <2>3, <2>4, <2>5, <2>6, <2>7, <2>8, <2>9, <2>10, <2>11, <2>12, <2>13 DEF Types
<1>7. Path = <<>>
  <2>1. QueuedFrames = <<>>
    BY <1>1, <1>5 DEF QueuedFrames
  <2>2. (IF pc["mcan"] = "publish" THEN <<event.frame>> ELSE <<>>) = <<>>
    BY <1>1
  <2>3. Path = <<>> \o <<>> \o <<>> \o <<>> \o <<>>
    BY <1>1, <2>1, <2>2 DEF Path
  <2>4. QED
    BY <1>5, <2>3, ConcatEmptySeq
<1>8. FrameIndexes(Path) = {} /\ Arrived /\ Ordered(Path)
  BY <1>5, <1>7 DEF FrameIndexes, Arrived, Bounded, Ordered
<1>9. Reports
  BY <1>1, <1>2 DEF Reports, Snapshot
<1>10. FramesAccounted
  BY <1>1, <1>2, <1>8, FS_EmptySet DEF FramesAccounted, Counter
<1>11. Woken
  BY <1>1 DEF Woken
<1>12. QED
  BY <1>6, <1>8, <1>9, <1>10, <1>11 DEF IInv

-----------------------------------------------------------------------------
(* Types.                                                                   *)

LEMMA TypesStep == Types /\ Reports /\ [Next]_vars => Types'
<1> SUFFICES ASSUME Types, Reports, [Next]_vars PROVE Types'
  OBVIOUS
<1> USE CanAssumption
<1>1. CASE FrameArrives
  <2>1. /\ controller.frames + 1 \in Nat /\ controller.inputs + 1 \in 0..MaxInputs
        /\ controller.frames + 1 <= controller.inputs + 1
        /\ controller.flags \cup {"RX"} \in SUBSET Flag
    BY <1>1, ControllerParts DEF FrameArrives, Flag
  <2>5. controller.frames + 1 \in Frame
    BY <2>1, ControllerParts DEF Frame
  <2>2. Append(controller.fifo, controller.frames + 1) \in Seq(Frame)
    BY <2>5, AppendProperties, ControllerParts
  <2>3. /\ controller' \in Controllers
        /\ controller'.frames <= controller'.inputs
    BY <1>1, <2>1, <2>2, ControllerParts DEF FrameArrives, Controllers
  <2>4. QED
    BY <1>1, <2>3 DEF FrameArrives, Types, mcan
<1>2. CASE OtherFault
  <2>3. /\ controller.inputs + 1 \in 0..MaxInputs /\ controller.frames <= controller.inputs + 1
        /\ controller.flags \cup {"OTHER"} \in SUBSET Flag
    BY <1>2, ControllerParts DEF OtherFault, Flag
  <2>1. /\ controller' \in Controllers
        /\ controller'.frames <= controller'.inputs
    BY <1>2, <2>3, ControllerParts DEF OtherFault, Controllers
  <2>2. QED
    BY <1>2, <2>1 DEF OtherFault, Types, mcan
<1>3. ASSUME NEW new \in ChannelState, Change(new) PROVE Types'
  <2> DEFINE flag == IF "off" \in {new, controller.state} THEN "BO" ELSE "EP"
  <2>4. /\ controller.inputs + 1 \in 0..MaxInputs /\ controller.frames <= controller.inputs + 1
        /\ controller.flags \cup {flag} \in SUBSET Flag
    BY <1>3, ControllerParts DEF Change, Flag
  <2>5. controller' = [controller EXCEPT !.inputs = @ + 1, !.state = new, !.flags = @ \cup {flag}]
    BY <1>3 DEF Change
  <2> HIDE DEF flag
  <2>1. /\ controller' \in Controllers
        /\ controller'.frames <= controller'.inputs
    BY <2>4, <2>5, ControllerParts DEF Controllers
  <2>2. history' \in Histories
    BY <1>3 DEF Change, Lose, Types, Histories
  <2>3. QED
    BY <1>3, <2>1, <2>2 DEF Change, Types, mcan
<1>4. ASSUME NEW type \in {"RESET", "HELLO"}, UsbInterrupt(type) PROVE Types'
  <2>4. controller.inputs + 1 \in 0..MaxInputs /\ controller.frames <= controller.inputs + 1
    BY <1>4, ControllerParts DEF UsbInterrupt
  <2>1. /\ controller' \in Controllers
        /\ controller'.frames <= controller'.inputs
    BY <1>4, <2>4, ControllerParts DEF UsbInterrupt, Controllers
  <2>2. usb_queue' \in Seq(UsbEvent) /\ Len(usb_queue') <= UsbQueueLength
    <3>1. CASE Len(usb_queue) < UsbQueueLength
      <4>1. usb_queue' = Append(usb_queue, type) /\ type \in UsbEvent
        BY <1>4, <3>1 DEF UsbInterrupt, UsbEvent
      <4>2. usb_queue' \in Seq(UsbEvent) /\ Len(usb_queue') = Len(usb_queue) + 1
        BY <4>1, AppendProperties, QueueParts
      <4>3. QED
        BY <3>1, <4>2, QueueParts
    <3>2. CASE ~(Len(usb_queue) < UsbQueueLength)
      BY <1>4, <3>2, QueueParts DEF UsbInterrupt
    <3>3. QED
      BY <3>1, <3>2
  <2>3. QED
    BY <1>4, <2>1, <2>2 DEF UsbInterrupt, Types, mcan
<1>5. CASE IsrEnter
  <2>1. isr' \in Interrupts
    BY <1>5, ControllerParts DEF IsrEnter, Interrupts
  <2>2. CASE "RX" \notin controller.flags
    BY <1>5, <2>1, <2>2 DEF IsrEnter, Types
  <2>3. CASE "RX" \in controller.flags
    <3> DEFINE events == [i \in 1..Len(controller.fifo) |-> Rx(controller.fifo[i])]
    <3>1. events \in Seq(Event)
      BY RxEvents
    <3>2. EnqueueFromIsr(events, "rx_queue_drops") /\ "rx_queue_drops" \in Counter
      BY <1>5, <2>3 DEF IsrEnter, Counter
    <3> HIDE DEF events
    <3>3. /\ queue' \in Seq(Event) /\ Len(queue') <= QueueLength
          /\ state' \in States
      BY <3>1, <3>2, Enqueued
    <3>4. /\ controller' \in Controllers
          /\ controller'.frames <= controller'.inputs
      <4>1. controller' = [controller EXCEPT !.flags = @ \ {"RX"}, !.fifo = <<>>]
        BY <1>5, <2>3 DEF IsrEnter
      <4>2. QED
        BY <4>1, EmptySeq, ControllerParts DEF Controllers
    <3>5. QED
      BY <1>5, <2>1, <3>3, <3>4 DEF IsrEnter, Types
  <2>4. QED
    BY <2>2, <2>3
<1>6. CASE IsrExit
  <2> DEFINE events == DiagnosticOf(isr)
  <2>1. events \in Seq(Event)
    BY DiagnosticEvents
  <2>2. EnqueueFromIsr(events, "diagnostic_queue_drops") /\ "diagnostic_queue_drops" \in Counter
    BY <1>6 DEF IsrExit, Counter, DiagnosticOf
  <2> HIDE DEF events
  <2>3. /\ queue' \in Seq(Event) /\ Len(queue') <= QueueLength
        /\ state' \in States
    BY <2>1, <2>2, Enqueued
  <2>4. /\ controller' \in Controllers
        /\ controller'.frames <= controller'.inputs
    BY <1>6, ControllerParts DEF IsrExit, Controllers
  <2>5. history' \in Histories
    BY <1>6, HistoryParts DEF IsrExit, Lose, Histories
  <2>6. isr' \in Interrupts
    BY <1>6 DEF IsrExit, NoIsr, ChannelState, Interrupts
  <2>7. QED
    BY <1>6, <2>3, <2>4, <2>5, <2>6 DEF IsrExit, Types
<1>7. CASE Receive
  <2>1. event' \in Event /\ queue' \in Seq(Event) /\ Len(queue') <= QueueLength
    <3>1. queue # <<>> /\ event' = Head(queue) /\ queue' = Tail(queue)
      BY <1>7 DEF Receive
    <3>2. event' \in Event /\ queue' \in Seq(Event) /\ Len(queue') = Len(queue) - 1
      BY <3>1, HeadTailProperties, QueueParts
    <3>3. QED
      BY <3>2, QueueParts
  <2>2. CASE event'.type = "RX"
    <3>1. event' \in RxEvent
      BY <2>1, <2>2 DEF Event, RxEvent
    <3>2. pc' \in Places /\ pc'["mcan"] = "publish" /\ pc'["usb"] = pc["usb"]
      BY <1>7, <2>2 DEF Receive, Goto, Types, Task, McanPlace, Places
    <3>3. QED
      BY <1>7, <2>1, <3>1, <3>2 DEF Receive, Types, usb_side, McanPlace
  <2>3. CASE event'.type # "RX"
    <3>1. event' \in DiagnosticEvent
      BY <2>1, <2>3 DEF Event, DiagnosticEvent
    <3>2. pc' \in Places /\ pc'["mcan"] = "capture" /\ pc'["usb"] = pc["usb"]
      BY <1>7, <2>3 DEF Receive, Goto, Types, Task, McanPlace, Places
    <3>3. QED
      BY <1>7, <2>1, <3>1, <3>2 DEF Receive, Types, usb_side, McanPlace
  <2>4. QED
    BY <2>2, <2>3
<1>8. CASE IdlePoll
  <2>1. pc' \in Places /\ pc'["mcan"] = "refresh" /\ pc'["usb"] = pc["usb"]
    BY <1>8 DEF IdlePoll, Goto, Types, Task, McanPlace, Places
  <2>2. QED
    BY <1>8, <2>1 DEF IdlePoll, Types, mcan, usb_side, McanPlace
<1>9. CASE PublishRx
  <2>1. event \in RxEvent /\ pc["mcan"] = "publish"
    BY <1>9 DEF PublishRx, At, Types
  <2>2. /\ ring' \in Seq(Frame) /\ Len(ring') <= RingCapacity
    <3>1. ring' = ring \/ (Len(ring) < RingCapacity /\ ring' = Append(ring, event.frame))
      BY <1>9 DEF PublishRx
    <3>2. event.frame \in Frame
      BY <2>1 DEF RxEvent
    <3>3. CASE ring' = ring
      BY <3>3, QueueParts
    <3>4. CASE Len(ring) < RingCapacity /\ ring' = Append(ring, event.frame)
      <4>1. ring' \in Seq(Frame) /\ Len(ring') = Len(ring) + 1
        BY <3>2, <3>4, AppendProperties, QueueParts
      <4>2. QED
        BY <3>4, <4>1, QueueParts
    <3>5. QED
      BY <3>1, <3>3, <3>4
  <2>3. state' \in States
    <3>1. /\ state.invalid_frames + 1 \in Nat
          /\ [state.drops EXCEPT !["ring_drops"] = @ + 1] \in Count
      BY StateParts DEF Count, Counter
    <3>2. \/ state' = [state EXCEPT !.invalid_frames = @ + 1]
          \/ state' = state
          \/ state' = [state EXCEPT !.drops["ring_drops"] = @ + 1]
      BY <1>9 DEF PublishRx
    <3>3. QED
      BY <3>1, <3>2, StateParts DEF States
  <2>4. /\ pc' \in Places /\ pc'["mcan"] \in {"count", "signal"}
        /\ pc'["usb"] = pc["usb"]
    BY <1>9 DEF PublishRx, Goto, Types, Task, McanPlace, Places
  <2>5. QED
    BY <1>9, <2>2, <2>3, <2>4 DEF PublishRx, Types, usb_side, McanPlace
<1>10. CASE CaptureDiagnostics
  <2>1. event \in DiagnosticEvent /\ pc["mcan"] = "capture"
    BY <1>10 DEF CaptureDiagnostics, At, Types
  <2>2. state' \in States
    BY <1>10, <2>1, StateParts DEF CaptureDiagnostics, DiagnosticEvent, States
  <2>3. pc' \in Places /\ pc'["mcan"] = "edge" /\ pc'["usb"] = pc["usb"]
    BY <1>10 DEF CaptureDiagnostics, Goto, Types, Task, McanPlace, Places
  <2>4. QED
    BY <1>10, <2>1, <2>2, <2>3 DEF CaptureDiagnostics, Types, usb_side, McanPlace
<1>11. CASE PublishStateEdge
  <2>1. event.status \in ChannelState
    BY <1>11 DEF PublishStateEdge, At, Types, DiagnosticEvent
  <2>2. /\ edges' \in Seq(ChannelState) /\ Len(edges') <= EdgeCapacity
    <3>1. edges' = edges \/ (Len(edges) < EdgeCapacity /\ edges' = Append(edges, event.status))
      BY <1>11 DEF PublishStateEdge
    <3>2. CASE edges' = edges
      BY <3>2, QueueParts
    <3>3. CASE Len(edges) < EdgeCapacity /\ edges' = Append(edges, event.status)
      <4>1. edges' \in Seq(ChannelState) /\ Len(edges') = Len(edges) + 1
        BY <2>1, <3>3, AppendProperties, QueueParts
      <4>2. QED
        BY <3>3, <4>1, QueueParts
    <3>4. QED
      BY <3>1, <3>2, <3>3
  <2>3. state' \in States
    <3>1. [state.drops EXCEPT !["state_edge_drops"] = @ + 1] \in Count
      BY StateParts DEF Count, Counter
    <3>2. state' = state \/ state' = [state EXCEPT !.drops["state_edge_drops"] = @ + 1]
      BY <1>11 DEF PublishStateEdge
    <3>3. QED
      BY <3>1, <3>2, StateParts DEF States
  <2>4. pc' \in Places /\ pc'["mcan"] = "count" /\ pc'["usb"] = pc["usb"]
    BY <1>11 DEF PublishStateEdge, Goto, Types, Task, McanPlace, Places
  <2>5. history' \in Histories
    BY <1>11, HistoryParts DEF PublishStateEdge, Lose, Histories
  <2>6. QED
    BY <1>11, <2>1, <2>2, <2>3, <2>4, <2>5
       DEF PublishStateEdge, NewEdgeState, Types, usb_side, McanPlace
<1>12. CASE CountQueue
  <2>1. state' \in States
    BY <1>12, StateParts, QueueParts DEF CountQueue, States
  <2>2. pc' \in Places /\ pc'["mcan"] = "refresh" /\ pc'["usb"] = pc["usb"]
    BY <1>12 DEF CountQueue, Goto, Types, Task, McanPlace, Places
  <2>3. QED
    BY <1>12, <2>1, <2>2 DEF CountQueue, Types, usb_side, McanPlace
<1>13. CASE Refresh
  <2>1. state' \in States
    <3>1. sample.status \in ChannelState /\ sample.queue_count \in 0..QueueLength
      BY DEF Types, Samples
    <3>2. \/ state' = state
          \/ state' = [state EXCEPT !.last_protocol_status = sample.status,
                                    !.queue_count = sample.queue_count]
      BY <1>13 DEF Refresh
    <3>3. QED
      BY <3>1, <3>2, StateParts DEF States
  <2>2. sample' \in Samples
    <3>1. sample \in Samples
      BY DEF Types
    <3>2. \/ sample' = [sample EXCEPT !.queue_count = Len(queue)]
          \/ sample' = [sample EXCEPT !.status = controller.state]
          \/ sample' = NoSample
      BY <1>13 DEF Refresh
    <3>3. NoSample \in Samples
      BY QueueParts DEF NoSample, Samples, ChannelState
    <3>4. QED
      BY <3>1, <3>2, <3>3, QueueParts, ControllerParts DEF Samples
  <2>3. /\ pc' \in Places /\ pc'["usb"] = pc["usb"]
        /\ pc'["mcan"] \in {"refresh_status", "refresh_store", "receive"}
    BY <1>13 DEF Refresh, Goto, Types, Task, McanPlace, Places
  <2>4. QED
    BY <1>13, <2>1, <2>2, <2>3 DEF Refresh, Types, usb_side, McanPlace
<1>14. ASSUME NEW task \in Task, SignalCanRx(task) PROVE Types'
  <2>1. pc' = [pc EXCEPT ![task] = IF latch THEN SignalReturn[task] ELSE "send"]
    BY <1>14 DEF SignalCanRx, Goto
  <2>2. SignalReturn["mcan"] = "count" /\ SignalReturn["usb"] = "snapshot"
    BY DEF SignalReturn
  <2>3. /\ pc' \in Places
        /\ pc'["mcan"] \in {pc["mcan"], "count", "send"}
        /\ pc'["usb"] \in {pc["usb"], "snapshot", "send"}
    BY <2>1, <2>2 DEF Types, Task, McanPlace, UsbPlace, Places
  <2>4. QED
    BY <1>14, <2>3 DEF SignalCanRx, Types, mcan, McanPlace, UsbPlace
<1>15. ASSUME NEW task \in Task, SignalSend(task) PROVE Types'
  <2>1. pc' = [pc EXCEPT ![task] = IF Len(usb_queue) < UsbQueueLength
                                   THEN SignalReturn[task] ELSE "unlatch"]
    BY <1>15 DEF SignalSend, Goto
  <2>2. SignalReturn["mcan"] = "count" /\ SignalReturn["usb"] = "snapshot"
    BY DEF SignalReturn
  <2>3. /\ pc' \in Places
        /\ pc'["mcan"] \in {pc["mcan"], "count", "unlatch"}
        /\ pc'["usb"] \in {pc["usb"], "snapshot", "unlatch"}
    BY <2>1, <2>2 DEF Types, Task, McanPlace, UsbPlace, Places
  <2>4. usb_queue' \in Seq(UsbEvent) /\ Len(usb_queue') <= UsbQueueLength
    <3>1. CASE Len(usb_queue) < UsbQueueLength
      <4>1. usb_queue' = Append(usb_queue, "CAN_RX_READY") /\ "CAN_RX_READY" \in UsbEvent
        BY <1>15, <3>1 DEF SignalSend, UsbEvent
      <4>2. usb_queue' \in Seq(UsbEvent) /\ Len(usb_queue') = Len(usb_queue) + 1
        BY <4>1, AppendProperties, QueueParts
      <4>3. QED
        BY <3>1, <4>2, QueueParts
    <3>2. CASE ~(Len(usb_queue) < UsbQueueLength)
      BY <1>15, <3>2, QueueParts DEF SignalSend
    <3>3. QED
      BY <3>1, <3>2
  <2>5. QED
    BY <1>15, <2>3, <2>4 DEF SignalSend, Types, mcan, McanPlace, UsbPlace
<1>16. ASSUME NEW task \in Task, SignalFailed(task) PROVE Types'
  <2>1. pc' = [pc EXCEPT ![task] = SignalReturn[task]]
    BY <1>16 DEF SignalFailed, Goto
  <2>2. SignalReturn["mcan"] = "count" /\ SignalReturn["usb"] = "snapshot"
    BY DEF SignalReturn
  <2>3. /\ pc' \in Places
        /\ pc'["mcan"] \in {pc["mcan"], "count"}
        /\ pc'["usb"] \in {pc["usb"], "snapshot"}
    BY <2>1, <2>2 DEF Types, Task, McanPlace, UsbPlace, Places
  <2>4. QED
    BY <1>16, <2>3 DEF SignalFailed, Types, mcan, McanPlace, UsbPlace
<1>17. CASE ChooseWait
  <2>1. /\ pc' \in Places /\ pc'["mcan"] = pc["mcan"]
        /\ pc'["usb"] \in {"wait", "wait_1ms"}
    BY <1>17 DEF ChooseWait, Goto, Types, Task, UsbPlace, Places
  <2>2. history' \in Histories
    BY <1>17, HistoryParts DEF ChooseWait, Histories
  <2>3. QED
    BY <1>17, <2>1, <2>2 DEF ChooseWait, Types, mcan, UsbPlace
<1>18. CASE Wake
  <2>1. /\ pc' \in Places /\ pc'["mcan"] = pc["mcan"]
        /\ pc'["usb"] = "pop"
    BY <1>18 DEF Wake, Goto, Types, Task, UsbPlace, Places
  <2>2. usb_queue' \in Seq(UsbEvent) /\ Len(usb_queue') <= UsbQueueLength
    <3>1. CASE usb_queue = <<>>
      BY <1>18, <3>1, QueueParts DEF Wake
    <3>2. CASE usb_queue # <<>>
      <4>1. usb_queue' = Tail(usb_queue)
        BY <1>18, <3>2 DEF Wake
      <4>2. usb_queue' \in Seq(UsbEvent) /\ Len(usb_queue') = Len(usb_queue) - 1
        BY <3>2, <4>1, HeadTailProperties, QueueParts
      <4>3. QED
        BY <4>2, QueueParts
    <3>3. QED
      BY <3>1, <3>2
  <2>3. usb' \in UsbStates
    <3>1. CASE usb_queue = <<>>
      BY <1>18, <3>1 DEF Wake, Types
    <3>2. CASE usb_queue # <<>>
      <4>1. Head(usb_queue) \in {"CAN_RX_READY", "RESET", "HELLO"}
        BY <3>2, HeadTailProperties DEF Types, UsbEvent
      <4>2. usb' \in {usb, [usb EXCEPT !.negotiated = TRUE],
                      [usb EXCEPT !.negotiated = FALSE, !.baseline = FALSE,
                                  !.reconcile = FALSE, !.channel_state = "listen"]}
        BY <1>18, <3>2, <4>1 DEF Wake
      <4>3. QED
        BY <4>2, UsbParts DEF UsbStates, ChannelState
    <3>3. QED
      BY <3>1, <3>2
  <2>4. QED
    BY <1>18, <2>1, <2>2, <2>3 DEF Wake, Types, mcan, UsbPlace
<1>19. CASE PopRx
  <2>1. CASE ring = <<>>
    <3>1. /\ pc' \in Places /\ pc'["mcan"] = pc["mcan"]
          /\ pc'["usb"] = "drained"
      BY <1>19, <2>1 DEF PopRx, Goto, Types, Task, UsbPlace, Places
    <3>2. QED
      BY <1>19, <2>1, <3>1 DEF PopRx, Types, UsbPlace
  <2>2. CASE ring # <<>>
    <3>1. ring' \in Seq(Frame) /\ Len(ring') <= RingCapacity /\ Head(ring) \in Frame
      <4>1. ring' = Tail(ring)
        BY <1>19, <2>2 DEF PopRx
      <4>2. ring' \in Seq(Frame) /\ Len(ring') = Len(ring) - 1 /\ Head(ring) \in Frame
        BY <2>2, <4>1, HeadTailProperties, QueueParts
      <4>3. QED
        BY <4>2, QueueParts
    <3>2. Append(history.delivered, Head(ring)) \in Seq(Frame)
      BY <3>1, AppendProperties, HistoryParts
    <3>3. history' \in Histories
      BY <1>19, <2>2, <3>2, HistoryParts DEF PopRx, Histories
    <3>4. QED
      BY <1>19, <2>2, <3>1, <3>3 DEF PopRx, Types
  <2>3. QED
    BY <2>1, <2>2
<1>20. CASE CompleteDrain
  <2>1. /\ pc' \in Places /\ pc'["mcan"] = pc["mcan"]
        /\ pc'["usb"] \in {"recheck", "snapshot", "signal"}
    BY <1>20 DEF CompleteDrain, Goto, Types, Task, UsbPlace, Recheck, Places
  <2>2. QED
    BY <1>20, <2>1 DEF CompleteDrain, Types, mcan, UsbPlace
<1>21. CASE TakeSnapshot
  <2>1. /\ pc' \in Places /\ pc'["mcan"] = pc["mcan"]
        /\ pc'["usb"] = "edges"
    BY <1>21 DEF TakeSnapshot, Goto, Types, Task, UsbPlace, Places
  <2>2. diag' \in Snapshots
    BY <1>21, StateParts DEF TakeSnapshot, Snapshot, Snapshots
  <2>3. QED
    BY <1>21, <2>1, <2>2 DEF TakeSnapshot, Types, mcan, UsbPlace
<1>22. CASE PopEdge
  <2>1. edges' \in Seq(ChannelState) /\ Len(edges') <= EdgeCapacity /\ Head(edges) \in ChannelState
    <3>1. edges # <<>> /\ edges' = Tail(edges)
      BY <1>22 DEF PopEdge
    <3>2. /\ edges' \in Seq(ChannelState) /\ Len(edges') = Len(edges) - 1
          /\ Head(edges) \in ChannelState
      BY <3>1, HeadTailProperties, QueueParts
    <3>3. QED
      BY <3>2, QueueParts
  <2>2. usb' \in UsbStates
    BY <1>22, <2>1, UsbParts DEF PopEdge, UsbStates
  <2>3. history' \in Histories
    BY <1>22, HistoryParts DEF PopEdge, Lose, Histories
  <2>4. QED
    BY <1>22, <2>1, <2>2, <2>3 DEF PopEdge, Types
<1>23. NewFrameDrops \in Nat
  <2>1. \A c \in Counter : New(c) \in Nat
    BY UsbParts, DiagParts DEF Reports, New
  <2>2. QED
    BY <2>1 DEF NewFrameDrops, Counter
<1>24. CASE Baseline
  <2>1. /\ pc' \in Places /\ pc'["mcan"] = pc["mcan"]
        /\ pc'["usb"] = "top"
    BY <1>24 DEF Baseline, Goto, Types, Task, UsbPlace, Places
  <2>2. usb' \in UsbStates
    BY <1>24, UsbParts, DiagParts DEF Baseline, ReportedDrops, UsbStates
  <2>3. history' \in Histories
    BY <1>23, <1>24, HistoryParts DEF Baseline, Histories
  <2>4. QED
    BY <1>24, <2>1, <2>2, <2>3 DEF Baseline, Types, mcan, UsbPlace
<1>25. CASE PublishLosses
  <2>1. /\ pc' \in Places /\ pc'["mcan"] = pc["mcan"]
        /\ pc'["usb"] = "top"
    BY <1>25 DEF PublishLosses, Goto, Types, Task, UsbPlace, Places
  <2>2. usb' \in UsbStates
    <3> DEFINE pending == usb.reconcile \/ New("diagnostic_queue_drops") # 0
                                        \/ New("state_edge_drops") # 0
               now     == pending /\ diag.queue_count = 0
    <3>1. usb' = [usb EXCEPT
                   !.reconcile = pending /\ ~now, !.reported = ReportedDrops,
                   !.channel_state = IF now /\ diag.status # usb.reported_state
                                     THEN diag.status ELSE @,
                   !.reported_state = IF now THEN diag.status ELSE @]
      BY <1>25 DEF PublishLosses
    <3>2. (pending /\ ~now) \in BOOLEAN
      OBVIOUS
    <3> HIDE DEF pending, now
    <3>3. QED
      BY <3>1, <3>2, UsbParts, DiagParts DEF UsbStates, ReportedDrops
  <2>3. history' \in Histories
    BY <1>23, <1>25, HistoryParts DEF PublishLosses, Histories
  <2>4. QED
    BY <1>25, <2>1, <2>2, <2>3 DEF PublishLosses, Types, mcan, UsbPlace
<1>26. CASE UNCHANGED vars
  BY <1>26 DEF vars, Types
<1>27. QED
  BY <1>1, <1>2, <1>3, <1>4, <1>5, <1>6, <1>7, <1>8, <1>9, <1>10, <1>11, <1>12, <1>13, <1>14,
     <1>15, <1>16, <1>17, <1>18, <1>19, <1>20, <1>21, <1>22, <1>24, <1>25, <1>26
     DEF Next, McanTask, UsbTask, Task
-----------------------------------------------------------------------------
(* The counters.                                                            *)

LEMMA WakeKeepsReported ==
  ASSUME Types, Wake
  PROVE  usb'.reported = usb.reported
<1>1. CASE usb_queue = <<>>
  BY <1>1 DEF Wake
<1>2. CASE usb_queue # <<>>
  <2>1. Head(usb_queue) \in {"CAN_RX_READY", "RESET", "HELLO"}
    BY <1>2, HeadTailProperties, QueueParts DEF UsbEvent
  <2>2. usb' \in {usb, [usb EXCEPT !.negotiated = TRUE],
                  [usb EXCEPT !.negotiated = FALSE, !.baseline = FALSE,
                              !.reconcile = FALSE, !.channel_state = "listen"]}
    BY <1>2, <2>1 DEF Wake
  <2>3. QED
    BY <2>2, UsbParts DEF UsbStates
<1>3. QED
  BY <1>1, <1>2

LEMMA ReportsStep == Types /\ Reports /\ [Next]_vars => Reports'
<1> SUFFICES ASSUME Types, Reports, [Next]_vars PROVE Reports'
  OBVIOUS
<1>1. \A c \in Counter : /\ state.drops[c] \in Nat /\ diag.drops[c] \in Nat
                         /\ usb.reported[c] \in Nat
  BY StateParts, DiagParts, UsbParts
<1>2. Types'
  BY TypesStep
<1>3. ASSUME UNCHANGED <<usb, diag>>, \A c \in Counter : state'.drops[c] >= state.drops[c]
      PROVE  Reports'
  <2>1. \A c \in Counter : state'.drops[c] \in Nat
    BY <1>2 DEF Types, States, Count
  <2>2. QED
    BY <1>1, <1>3, <2>1 DEF Reports
<1>4. CASE IsrEnter
  <2>1. CASE "RX" \notin controller.flags
    BY <1>1, <1>3, <1>4, <2>1 DEF IsrEnter
  <2>2. CASE "RX" \in controller.flags
    <3> DEFINE events == [i \in 1..Len(controller.fifo) |-> Rx(controller.fifo[i])]
    <3>1. events \in Seq(Event)
      BY RxEvents
    <3>2. EnqueueFromIsr(events, "rx_queue_drops") /\ "rx_queue_drops" \in Counter
      BY <1>4, <2>2 DEF IsrEnter, Counter
    <3> HIDE DEF events
    <3>3. \A c \in Counter : state'.drops[c] >= state.drops[c]
      BY <3>1, <3>2, EnqueuedCounts
    <3>4. QED
      BY <1>3, <1>4, <3>3 DEF IsrEnter
  <2>3. QED
    BY <2>1, <2>2
<1>5. CASE IsrExit
  <2> DEFINE events == DiagnosticOf(isr)
  <2>1. events \in Seq(Event)
    BY DiagnosticEvents
  <2>2. EnqueueFromIsr(events, "diagnostic_queue_drops") /\ "diagnostic_queue_drops" \in Counter
    BY <1>5 DEF IsrExit, Counter, DiagnosticOf
  <2> HIDE DEF events
  <2>3. \A c \in Counter : state'.drops[c] >= state.drops[c]
    BY <2>1, <2>2, EnqueuedCounts
  <2>4. QED
    BY <1>3, <1>5, <2>3 DEF IsrExit
<1>6. CASE PublishRx
  <2>1. \/ state'.drops = state.drops
        \/ state'.drops = [state.drops EXCEPT !["ring_drops"] = @ + 1]
    BY <1>6, StateParts DEF PublishRx, States
  <2>2. \A c \in Counter : state'.drops[c] >= state.drops[c]
    BY <1>1, <2>1, StateParts DEF Count
  <2>3. QED
    BY <1>3, <1>6, <2>2 DEF PublishRx, usb_side
<1>7. CASE PublishStateEdge
  <2>1. \/ state'.drops = state.drops
        \/ state'.drops = [state.drops EXCEPT !["state_edge_drops"] = @ + 1]
    BY <1>7, StateParts DEF PublishStateEdge, States
  <2>2. \A c \in Counter : state'.drops[c] >= state.drops[c]
    BY <1>1, <2>1, StateParts DEF Count
  <2>3. QED
    BY <1>3, <1>7, <2>2 DEF PublishStateEdge, usb_side
<1>8. CASE CaptureDiagnostics \/ CountQueue \/ Refresh
  <2>1. state'.drops = state.drops
    BY <1>8, StateParts DEF CaptureDiagnostics, CountQueue, Refresh, States
  <2>2. UNCHANGED <<usb, diag>>
    BY <1>8 DEF CaptureDiagnostics, CountQueue, Refresh, usb_side
  <2>3. QED
    BY <1>1, <1>3, <2>1, <2>2
<1>9. CASE Wake \/ PopEdge
  <2>1. usb'.reported = usb.reported
    <3>1. CASE Wake
      BY <3>1, WakeKeepsReported
    <3>2. CASE PopEdge
      BY <3>2, UsbParts DEF PopEdge, UsbStates
    <3>3. QED
      BY <1>9, <3>1, <3>2
  <2>2. UNCHANGED <<diag, state>>
    BY <1>9 DEF Wake, PopEdge, mcan
  <2>3. QED
    BY <2>1, <2>2 DEF Reports
<1>10. CASE TakeSnapshot
  <2>1. diag'.drops = state.drops /\ UNCHANGED <<usb, state>>
    BY <1>10 DEF TakeSnapshot, Snapshot, mcan
  <2>2. QED
    BY <1>1, <2>1 DEF Reports
<1>11. CASE Baseline \/ PublishLosses
  <2>1. usb'.reported = diag.drops
    BY <1>11, UsbParts DEF Baseline, PublishLosses, ReportedDrops, UsbStates
  <2>2. UNCHANGED <<diag, state>>
    BY <1>11 DEF Baseline, PublishLosses, mcan
  <2>3. QED
    BY <1>1, <2>1, <2>2 DEF Reports
<1>12. CASE UNCHANGED <<state, usb, diag>>
  BY <1>12 DEF Reports
<1>13. FrameArrives \/ OtherFault => UNCHANGED <<state, usb, diag>>
  BY DEF FrameArrives, OtherFault, mcan
<1>14. \A new \in ChannelState : Change(new) => UNCHANGED <<state, usb, diag>>
  BY DEF Change, mcan
<1>15. \A type \in {"RESET", "HELLO"} : UsbInterrupt(type) => UNCHANGED <<state, usb, diag>>
  BY DEF UsbInterrupt, mcan
<1>16. Receive \/ IdlePoll => UNCHANGED <<state, usb, diag>>
  BY DEF Receive, IdlePoll, mcan, usb_side
<1>17. \A task \in Task : SignalCanRx(task) \/ SignalSend(task) \/ SignalFailed(task)
                            => UNCHANGED <<state, usb, diag>>
  BY DEF SignalCanRx, SignalSend, SignalFailed, mcan
<1>18. ChooseWait \/ PopRx \/ CompleteDrain \/ UNCHANGED vars => UNCHANGED <<state, usb, diag>>
  BY DEF ChooseWait, PopRx, CompleteDrain, mcan, vars
<1>19. QED
  BY <1>4, <1>5, <1>6, <1>7, <1>8, <1>9, <1>10, <1>11, <1>12, <1>13, <1>14, <1>15, <1>16, <1>17,
     <1>18 DEF Next, McanTask, UsbTask, Task
-----------------------------------------------------------------------------
(* The wake-up.                                                             *)

LEMMA WokenStep == Types /\ Woken /\ [Next]_vars => Woken'
<1> SUFFICES ASSUME Types, Woken, [Next]_vars PROVE Woken'
  OBVIOUS
<1>1. pc \in Places /\ pc["mcan"] \in McanPlace /\ pc["usb"] \in UsbPlace
  BY DEF Types
<1>2. \A task \in Task : \A place : Goto(task, place) =>
        pc'[task] = place /\ \A other \in Task \ {task} : pc'[other] = pc[other]
  BY <1>1 DEF Goto, Places
<1>3. "mcan" \in Task /\ "usb" \in Task /\ "mcan" # "usb"
  BY DEF Task
(* Steps that leave all of it alone.                                        *)
<1>4. ASSUME UNCHANGED <<latch, usb_queue, ring>>, pc'["usb"] = pc["usb"],
             pc["mcan"] \notin {"signal", "send"},
             controller'.fifo # <<>> => "RX" \in controller'.flags
      PROVE  Woken'
  BY <1>4 DEF Woken
<1>5. CASE FrameArrives
  <2>1. "RX" \in controller'.flags
    BY <1>5, ControllerParts DEF FrameArrives, Controllers
  <2>2. QED
    BY <1>5, <2>1 DEF FrameArrives, Woken, mcan
<1>6. CASE OtherFault
  <2>1. controller'.fifo = controller.fifo /\ controller.flags \subseteq controller'.flags
    BY <1>6, ControllerParts DEF OtherFault, Controllers
  <2>2. QED
    BY <1>6, <2>1 DEF OtherFault, Woken, mcan
<1>7. ASSUME NEW new \in ChannelState, Change(new) PROVE Woken'
  <2>1. controller'.fifo = controller.fifo /\ controller.flags \subseteq controller'.flags
    BY <1>7, ControllerParts DEF Change, Controllers
  <2>2. QED
    BY <1>7, <2>1 DEF Change, Woken, mcan
<1>8. ASSUME NEW type \in {"RESET", "HELLO"}, UsbInterrupt(type) PROVE Woken'
  <2>1. controller'.fifo = controller.fifo /\ controller'.flags = controller.flags
    BY <1>8, ControllerParts DEF UsbInterrupt, Controllers
  <2>2. usb_queue # <<>> => usb_queue' # <<>>
    BY <1>8, AppendProperties, QueueParts DEF UsbInterrupt, UsbEvent
  <2>3. UNCHANGED <<latch, ring, pc>>
    BY <1>8 DEF UsbInterrupt, mcan
  <2>4. QED
    BY <2>1, <2>2, <2>3 DEF Woken
<1>9. CASE IsrEnter
  <2>1. controller'.fifo # <<>> => "RX" \in controller'.flags
    <3>1. CASE "RX" \in controller.flags
      BY <1>9, <3>1, ControllerParts DEF IsrEnter, Controllers
    <3>2. CASE "RX" \notin controller.flags
      BY <1>9, <3>2 DEF IsrEnter, Woken
    <3>3. QED
      BY <3>1, <3>2
  <2>2. UNCHANGED <<latch, ring, pc, usb_queue>>
    BY <1>9 DEF IsrEnter
  <2>3. QED
    BY <2>1, <2>2 DEF Woken
<1>10. CASE IsrExit
  <2>1. controller'.fifo = controller.fifo
        /\ ("RX" \in controller.flags => "RX" \in controller'.flags)
    BY <1>10, ControllerParts DEF IsrExit, Controllers, ClearFlags
  <2>2. UNCHANGED <<latch, ring, pc, usb_queue>>
    BY <1>10 DEF IsrExit
  <2>3. QED
    BY <2>1, <2>2 DEF Woken
(* The owner of the CAN channel.                                            *)
<1>11. CASE Receive \/ IdlePoll \/ CaptureDiagnostics \/ PublishStateEdge \/ CountQueue \/ Refresh
  <2>1. UNCHANGED <<latch, usb_queue, ring, controller>>
    BY <1>11 DEF Receive, IdlePoll, CaptureDiagnostics, PublishStateEdge, CountQueue, Refresh,
                 usb_side, mcan
  <2>2. pc["mcan"] \notin {"signal", "send"}
    BY <1>11 DEF Receive, IdlePoll, CaptureDiagnostics, PublishStateEdge, CountQueue, Refresh, At
  <2>3. \E place : Goto("mcan", place)
    BY <1>11 DEF Receive, IdlePoll, CaptureDiagnostics, PublishStateEdge, CountQueue, Refresh
  <2>4. pc'["usb"] = pc["usb"]
    BY <1>2, <1>3, <2>3
  <2>5. QED
    BY <1>4, <2>1, <2>2, <2>4 DEF Woken
<1>12. CASE PublishRx
  <2>1. pc["mcan"] = "publish" /\ UNCHANGED <<latch, usb_queue, controller>>
    BY <1>12 DEF PublishRx, At, usb_side
  <2>2. \/ ring' = ring /\ Goto("mcan", "count")
        \/ Goto("mcan", "signal")
    BY <1>12 DEF PublishRx
  <2>3. /\ pc'["usb"] = pc["usb"]
        /\ ring' = ring \/ pc'["mcan"] = "signal"
    BY <1>2, <1>3, <2>2
  <2>4. QED
    BY <2>1, <2>3 DEF Woken
(* Signals.                                                                 *)
<1>13. CASE SignalCanRx("mcan")
  <2>1. /\ pc["mcan"] = "signal" /\ latch' = TRUE /\ UNCHANGED <<usb_queue, ring, controller>>
        /\ Goto("mcan", IF latch THEN "count" ELSE "send")
    BY <1>13 DEF SignalCanRx, At, SignalReturn, mcan
  <2>2. pc'["usb"] = pc["usb"] /\ pc'["mcan"] = IF latch THEN "count" ELSE "send"
    BY <1>2, <1>3, <2>1
  <2>3. QED
    BY <2>1, <2>2 DEF Woken
<1>14. CASE SignalCanRx("usb")
  <2>1. /\ pc["usb"] = "signal" /\ latch' = TRUE /\ UNCHANGED <<usb_queue, ring, controller>>
        /\ Goto("usb", IF latch THEN "snapshot" ELSE "send")
    BY <1>14 DEF SignalCanRx, At, SignalReturn, mcan
  <2>2. pc'["mcan"] = pc["mcan"] /\ pc'["usb"] = IF latch THEN "snapshot" ELSE "send"
    BY <1>2, <1>3, <2>1
  <2>3. QED
    BY <2>1, <2>2 DEF Woken
<1>15. ASSUME NEW task \in Task, SignalSend(task) PROVE Woken'
  <2>1. usb_queue' # <<>>
    <3>1. CASE Len(usb_queue) < UsbQueueLength
      <4>1. usb_queue' = Append(usb_queue, "CAN_RX_READY")
        BY <1>15, <3>1 DEF SignalSend
      <4>2. QED
        BY <4>1, AppendProperties, QueueParts DEF UsbEvent
    <3>2. CASE ~(Len(usb_queue) < UsbQueueLength)
      <4>1. usb_queue' = usb_queue /\ Len(usb_queue) # 0
        BY <1>15, <3>2, QueueParts, CanAssumption DEF SignalSend
      <4>2. QED
        BY <4>1, EmptySeq
    <3>3. QED
      BY <3>1, <3>2
  <2>2. UNCHANGED <<controller, ring>>
    BY <1>15 DEF SignalSend, mcan
  <2>3. QED
    BY <2>1, <2>2 DEF Woken
<1>16. CASE SignalFailed("mcan")
  <2>1. /\ pc["mcan"] = "unlatch" /\ latch' = FALSE /\ UNCHANGED <<usb_queue, ring, controller>>
        /\ Goto("mcan", "count")
    BY <1>16 DEF SignalFailed, At, SignalReturn, mcan
  <2>2. pc'["usb"] = pc["usb"]
    BY <1>2, <1>3, <2>1
  <2>3. QED
    BY <2>1, <2>2 DEF Woken
<1>17. CASE SignalFailed("usb")
  <2>1. /\ pc["usb"] = "unlatch" /\ latch' = FALSE /\ UNCHANGED <<usb_queue, ring, controller>>
        /\ Goto("usb", "snapshot")
    BY <1>17 DEF SignalFailed, At, SignalReturn, mcan
  <2>2. pc'["mcan"] = pc["mcan"]
    BY <1>2, <1>3, <2>1
  <2>3. QED
    BY <2>1, <2>2 DEF Woken
(* The owner of the USB transport.                                          *)
<1>18. CASE ChooseWait \/ TakeSnapshot \/ Baseline \/ PublishLosses
  <2>1. /\ UNCHANGED <<controller, latch, usb_queue, ring>>
        /\ pc["usb"] \in {"top", "snapshot", "edges"}
    BY <1>18 DEF ChooseWait, TakeSnapshot, Baseline, PublishLosses, At, mcan
  <2>2. \E place : Goto("usb", place)
    BY <1>18 DEF ChooseWait, TakeSnapshot, Baseline, PublishLosses
  <2>3. pc'["mcan"] = pc["mcan"]
    BY <1>2, <1>3, <2>2
  <2>4. QED
    BY <2>1, <2>3 DEF Woken
<1>19. CASE Wake
  <2>1. UNCHANGED <<controller, ring>> /\ Goto("usb", "pop")
    BY <1>19 DEF Wake, mcan
  <2>2. pc'["usb"] = "pop"
    BY <1>2, <1>3, <2>1
  <2>3. QED
    BY <2>1, <2>2 DEF Woken
<1>20. CASE PopRx
  <2>1. UNCHANGED <<controller, latch, usb_queue>> /\ pc["usb"] = "pop"
    BY <1>20 DEF PopRx, At
  <2>2. UNCHANGED pc \/ Goto("usb", "drained")
    BY <1>20 DEF PopRx
  <2>3. pc'["usb"] \in {"pop", "drained"}
    BY <1>2, <1>3, <2>1, <2>2
  <2>4. QED
    BY <2>1, <2>3 DEF Woken
<1>21. CASE CompleteDrain
  <2>1. UNCHANGED <<controller, ring, usb_queue>>
    BY <1>21 DEF CompleteDrain, mcan
  <2>2. \/ latch' = FALSE /\ Goto("usb", "recheck")
        \/ /\ pc["usb"] = "recheck" /\ latch' = latch
           /\ Goto("usb", IF ring = <<>> THEN "snapshot" ELSE "signal")
    BY <1>21 DEF CompleteDrain, Recheck, At
  <2>3. /\ pc'["mcan"] = pc["mcan"]
        /\ \/ latch' = FALSE /\ pc'["usb"] = "recheck"
           \/ /\ pc["usb"] = "recheck" /\ latch' = latch
              /\ pc'["usb"] = IF ring = <<>> THEN "snapshot" ELSE "signal"
    BY <1>2, <1>3, <2>2
  <2>4. QED
    BY <2>1, <2>3 DEF Woken
<1>22. CASE PopEdge
  BY <1>22 DEF PopEdge, Woken
<1>23. CASE UNCHANGED vars
  BY <1>23 DEF vars, mcan, Woken
<1>24. QED
  BY <1>5, <1>6, <1>7, <1>8, <1>9, <1>10, <1>11, <1>12, <1>13, <1>14, <1>15, <1>16, <1>17, <1>18,
     <1>19, <1>20, <1>21, <1>22, <1>23 DEF Next, McanTask, UsbTask, Task
-----------------------------------------------------------------------------
(* The parts of the path.                                                   *)

Joined(d, r, t, q, f) == d \o r \o t \o q \o f

Taken == IF pc["mcan"] = "publish" THEN <<event.frame>> ELSE <<>>

LEMMA PathJoined ==
  Path = Joined(history.delivered, ring, Taken, QueuedFrames, controller.fifo)
BY DEF Path, Joined, Taken

LEMMA JoinedType ==
  ASSUME NEW d \in Seq(Nat), NEW r \in Seq(Nat), NEW t \in Seq(Nat), NEW q \in Seq(Nat),
         NEW f \in Seq(Nat)
  PROVE  /\ Joined(d, r, t, q, f) \in Seq(Nat)
         /\ d \o r \in Seq(Nat) /\ d \o r \o t \in Seq(Nat) /\ d \o r \o t \o q \in Seq(Nat)
         /\ q \o f \in Seq(Nat)
         /\ Len(Joined(d, r, t, q, f)) = Len(d \o r \o t \o q) + Len(f)
<1>1. d \o r \in Seq(Nat) /\ q \o f \in Seq(Nat)
  BY ConcatProperties
<1>2. (d \o r) \o t \in Seq(Nat)
  BY <1>1, ConcatProperties
<1>3. ((d \o r) \o t) \o q \in Seq(Nat)
  BY <1>2, ConcatProperties
<1>4. /\ (((d \o r) \o t) \o q) \o f \in Seq(Nat)
      /\ Len((((d \o r) \o t) \o q) \o f) = Len(((d \o r) \o t) \o q) + Len(f)
  BY <1>3, ConcatProperties
<1>5. QED
  BY <1>1, <1>2, <1>3, <1>4 DEF Joined

LEMMA Associative ==
  \A s1, s2, s3 \in Seq(Nat) : (s1 \o s2) \o s3 = s1 \o (s2 \o s3)
BY ConcatAssociative

(* What is appended to the end of s o t is appended to t.                   *)
LEMMA AppendConcat ==
  ASSUME NEW s \in Seq(Nat), NEW t \in Seq(Nat), NEW x \in Nat
  PROVE  s \o Append(t, x) = Append(s \o t, x)
<1>1. <<x>> \in Seq(Nat) /\ s \o t \in Seq(Nat)
  BY ConcatProperties
<1>2. Append(t, x) = t \o <<x>> /\ Append(s \o t, x) = (s \o t) \o <<x>>
  BY <1>1, AppendIsConcat
<1>3. QED
  BY <1>1, <1>2, ConcatAssociative

LEMMA SplitHead ==
  ASSUME NEW s \in Seq(Nat), s # <<>>
  PROVE  /\ Head(s) \in Nat /\ Tail(s) \in Seq(Nat) /\ <<Head(s)>> \in Seq(Nat)
         /\ s = <<Head(s)>> \o Tail(s)
<1>1. /\ Head(s) \in Nat /\ Tail(s) \in Seq(Nat) /\ Len(Tail(s)) = Len(s) - 1
      /\ \A i \in 1..Len(Tail(s)) : Tail(s)[i] = s[i + 1]
  BY HeadTailProperties
<1>2. <<Head(s)>> \in Seq(Nat) /\ Len(<<Head(s)>>) = 1 /\ <<Head(s)>>[1] = Head(s)
  BY <1>1
<1>3. PICK n \in Nat : n = Len(Tail(s)) /\ Len(s) = n + 1
  <2>1. PICK l \in Nat : l = Len(s)
    BY LenProperties
  <2>2. PICK n \in Nat : n = Len(Tail(s))
    BY <1>1, LenProperties
  <2>3. n = l - 1
    BY <1>1, <2>1, <2>2
  <2>4. l = n + 1
    BY <2>3
  <2>5. QED
    BY <2>1, <2>2, <2>4
<1>4. PICK u \in Seq(Nat) : u = <<Head(s)>> \o Tail(s)
  BY <1>1, <1>2, ConcatProperties
<1>5. /\ Len(u) = 1 + n
      /\ \A i \in 1..1+n : u[i] = IF i <= 1 THEN <<Head(s)>>[i] ELSE Tail(s)[i - 1]
  <2>1. /\ Len(u) = Len(<<Head(s)>>) + Len(Tail(s))
        /\ \A i \in 1..Len(<<Head(s)>>)+Len(Tail(s)) :
             u[i] = IF i <= Len(<<Head(s)>>) THEN <<Head(s)>>[i]
                    ELSE Tail(s)[i - Len(<<Head(s)>>)]
    BY <1>1, <1>2, <1>4, ConcatProperties
  <2>2. QED
    BY <1>2, <1>3, <2>1
<1>6. s[1] = Head(s)
  OBVIOUS
<1>7. ASSUME NEW i \in 1..n+1 PROVE u[i] = s[i]
  <2>1. CASE i = 1
    BY <1>2, <1>5, <1>6, <2>1
  <2>2. CASE i # 1
    <3>1. i - 1 \in 1..n /\ i \in 1..1+n /\ ~(i <= 1) /\ (i - 1) + 1 = i
      BY <2>2
    <3>2. u[i] = Tail(s)[i - 1] /\ Tail(s)[i - 1] = s[(i - 1) + 1]
      BY <1>1, <1>3, <1>5, <3>1
    <3>3. QED
      BY <3>1, <3>2
  <2>3. QED
    BY <2>1, <2>2
<1>8. u = s
  BY <1>3, <1>5, <1>7, SeqEqual
<1>9. QED
  BY <1>1, <1>2, <1>4, <1>8

(* The head of a sequence moves to the end of the one before it.            *)
LEMMA HeadMoves ==
  ASSUME NEW s \in Seq(Nat), NEW t \in Seq(Nat), t # <<>>
  PROVE  Append(s, Head(t)) \o Tail(t) = s \o t
<1>1. PICK h \in Seq(Nat), u \in Seq(Nat) : h = <<Head(t)>> /\ u = Tail(t) /\ t = h \o u
                                          /\ Head(t) \in Nat
  BY SplitHead
<1>2. Append(s, Head(t)) = s \o h
  BY <1>1, AppendIsConcat
<1>3. (s \o h) \o u = s \o (h \o u)
  BY Associative
<1>4. QED
  BY <1>1, <1>2, <1>3

(* Where frames go on: from the event queue to the task, and from there to  *)
(* the ring; HeadMoves and AppendConcat are the other moves.                *)
LEMMA JoinedReceived ==
  ASSUME NEW a \in Seq(Nat), NEW q \in Seq(Nat), q # <<>>
  PROVE  (a \o <<Head(q)>>) \o Tail(q) = (a \o <<>>) \o q
<1>1. PICK h \in Seq(Nat), u \in Seq(Nat) : h = <<Head(q)>> /\ u = Tail(q) /\ q = h \o u
  BY SplitHead
<1>2. (a \o h) \o u = a \o (h \o u)
  BY Associative
<1>3. a \o <<>> = a
  BY ConcatEmptySeq
<1>4. QED
  BY <1>1, <1>2, <1>3

LEMMA JoinedPublished ==
  ASSUME NEW d \in Seq(Nat), NEW r \in Seq(Nat), NEW x \in Nat
  PROVE  (d \o Append(r, x)) \o <<>> = (d \o r) \o <<x>>
<1>1. PICK a \in Seq(Nat) : a = d \o r
  BY ConcatProperties
<1>2. <<x>> \in Seq(Nat)
  OBVIOUS
<1>3. d \o Append(r, x) = Append(a, x) /\ Append(a, x) = a \o <<x>> /\ a \o <<x>> \in Seq(Nat)
  BY <1>1, <1>2, AppendConcat, AppendIsConcat, ConcatProperties
<1>4. (a \o <<x>>) \o <<>> = a \o <<x>>
  BY <1>3, ConcatEmptySeq
<1>5. QED
  BY <1>1, <1>3, <1>4

LEMMA JoinedEnd ==
  ASSUME NEW a \in Seq(Nat), NEW x \in Nat
  PROVE  a \o <<x>> = Append(a, x) /\ a \o <<>> = a /\ Append(a, x) \in Seq(Nat)
BY ConcatEmptySeq, AppendIsConcat, AppendProperties

(* Where the FIFO is drained as far as the event queue has room.            *)
LEMMA JoinedDrained ==
  ASSUME NEW a \in Seq(Nat), NEW q \in Seq(Nat), NEW s \in Seq(Nat)
  PROVE  (a \o (q \o s)) \o <<>> = (a \o q) \o s
<1>1. a \o (q \o s) = (a \o q) \o s
  BY Associative
<1>2. a \o (q \o s) \in Seq(Nat)
  BY ConcatProperties
<1>3. (a \o (q \o s)) \o <<>> = a \o (q \o s)
  BY <1>2, ConcatEmptySeq
<1>4. QED
  BY <1>1, <1>3

(* The same without the end of what is appended to a.                       *)
LEMMA Drained ==
  ASSUME NEW a \in Seq(Nat), NEW f \in Seq(Nat), NEW k \in 0..Len(f), NEW s \in Seq(Nat),
         Len(s) = k, \A i \in 1..k : s[i] = f[i]
  PROVE  /\ Len(a) + k \in 0..Len(a \o f) /\ Len(a \o f) - (Len(a) + k) = Len(f) - k
         /\ a \o s = SubSeq(a \o f, 1, Len(a) + k)
         /\ \A i \in (Len(a)+k)+1..Len(a \o f) :
              /\ i - (Len(a)+k) + k \in 1..Len(f)
              /\ (a \o f)[i] = f[i - (Len(a)+k) + k]
<1>2. PICK la \in Nat : la = Len(a)
  BY LenProperties
<1>3. PICK lf \in Nat : lf = Len(f)
  BY LenProperties
<1>4. PICK p \in Seq(Nat) : p = a \o f
  BY ConcatProperties
<1>5. /\ Len(p) = la + lf
      /\ \A i \in 1..la+lf : p[i] = IF i <= la THEN a[i] ELSE f[i - la]
  BY <1>2, <1>3, <1>4, ConcatProperties
<1>6. PICK u \in Seq(Nat) : u = a \o s
  BY ConcatProperties
<1>7. /\ Len(u) = la + k
      /\ \A i \in 1..la+k : u[i] = IF i <= la THEN a[i] ELSE s[i - la]
  <2>1. /\ Len(u) = Len(a) + Len(s)
        /\ \A i \in 1..Len(a)+Len(s) : u[i] = IF i <= Len(a) THEN a[i] ELSE s[i - Len(a)]
    BY <1>6, ConcatProperties
  <2>2. QED
    BY <1>2, <2>1
<1>8. k \in Nat /\ k <= lf
  BY <1>3
<1>9. PICK v \in Seq(Nat) : v = SubSeq(p, 1, la + k) /\ Len(v) = la + k
                            /\ \A i \in 1..la+k : v[i] = p[i]
  <2>1. \A i \in 1..la+k : p[i] \in Nat
    <3>1. \A i \in 1..la+k : i \in 1..Len(p)
      BY <1>5, <1>8
    <3>2. QED
      BY <3>1, ElementOfSeq
  <2>2. la + k \in Int /\ 1 \in Int
    BY <1>8
  <2>3. /\ SubSeq(p, 1, la + k) \in Seq(Nat)
        /\ Len(SubSeq(p, 1, la + k)) = IF 1 <= la + k THEN la + k - 1 + 1 ELSE 0
        /\ \A i \in 1..la+k-1+1 : SubSeq(p, 1, la + k)[i] = p[1 + i - 1]
    BY <2>1, <2>2, SubSeqProperties
  <2>4. Len(SubSeq(p, 1, la + k)) = la + k
    BY <1>8, <2>3
  <2>5. \A i \in 1..la+k : SubSeq(p, 1, la + k)[i] = p[i]
    BY <1>8, <2>3
  <2>6. QED
    BY <2>3, <2>4, <2>5
<1>10. u = v
  <2>1. ASSUME NEW i \in 1..la+k PROVE u[i] = v[i]
    <3>1. i \in 1..la+lf /\ v[i] = p[i]
      BY <1>8, <1>9
    <3>2. CASE i <= la
      BY <1>5, <1>7, <3>1, <3>2
    <3>3. CASE ~(i <= la)
      <4>1. i - la \in 1..k
        BY <3>3, <1>8
      <4>2. u[i] = s[i - la] /\ p[i] = f[i - la] /\ s[i - la] = f[i - la]
        BY <1>5, <1>7, <3>1, <3>3, <4>1
      <4>3. QED
        BY <3>1, <4>2
    <3>4. QED
      BY <3>2, <3>3
  <2>2. QED
    BY <1>7, <1>9, <2>1, SeqEqual
<1>12. ASSUME NEW i \in (la+k)+1..la+lf
       PROVE  i - (la + k) + k \in 1..lf /\ p[i] = f[i - (la + k) + k]
  <2>1. i \in 1..la+lf /\ ~(i <= la) /\ i - (la + k) + k = i - la /\ i - la \in 1..lf
    BY <1>8
  <2>2. QED
    BY <1>5, <2>1
<1>13. la + k \in 0..la+lf /\ (la + lf) - (la + k) = lf - k
  BY <1>8
<1>14. QED
  BY <1>2, <1>3, <1>4, <1>5, <1>6, <1>9, <1>10, <1>12, <1>13
-----------------------------------------------------------------------------
(* The frames in the event queue.                                           *)

Number(e)  == IF e.type = "RX" THEN e.frame ELSE 0
Numbers(q) == [i \in 1..Len(q) |-> Number(q[i])]

LEMMA NumberType ==
  ASSUME NEW e \in Event
  PROVE  Number(e) \in Nat
BY DEF Event, Number, Frame

LEMMA NumbersType ==
  ASSUME NEW q \in Seq(Event)
  PROVE  /\ Numbers(q) \in Seq(Nat) /\ Len(Numbers(q)) = Len(q)
         /\ \A i \in 1..Len(q) : Numbers(q)[i] = Number(q[i])
<1>1. PICK n \in Nat : n = Len(q)
  BY LenProperties
<1>2. \A i \in 1..n : Number(q[i]) \in Nat
  BY <1>1, ElementOfSeq, NumberType
<1>3. Numbers(q) = [i \in 1..n |-> Number(q[i])]
  BY <1>1 DEF Numbers
<1>4. Numbers(q) \in [1..n -> Nat]
  BY <1>2, <1>3
<1>5. Numbers(q) \in Seq(Nat) /\ Len(Numbers(q)) = n
  <2>1. Numbers(q) \in Seq(Nat)
    BY <1>4, SeqDef
  <2>2. DOMAIN Numbers(q) = 1..n
    BY <1>3
  <2>3. Len(Numbers(q)) \in Nat /\ DOMAIN Numbers(q) = 1..Len(Numbers(q))
    BY <2>1, LenProperties
  <2>4. QED
    BY <2>1, <2>2, <2>3
<1>6. QED
  BY <1>1, <1>3, <1>5

LEMMA NumbersConcat ==
  ASSUME NEW q \in Seq(Event), NEW s \in Seq(Event)
  PROVE  Numbers(q \o s) = Numbers(q) \o Numbers(s)
<1>1. PICK u \in Seq(Event) : u = q \o s
  BY ConcatProperties
<1>2. PICK n \in Nat, m \in Nat : n = Len(q) /\ m = Len(s)
  BY LenProperties
<1>3. Len(u) = n + m /\ \A i \in 1..n+m : u[i] = IF i <= n THEN q[i] ELSE s[i - n]
  BY <1>1, <1>2, ConcatProperties
<1>4. PICK a \in Seq(Nat) : a = Numbers(q) /\ Len(a) = n /\ \A i \in 1..n : a[i] = Number(q[i])
  BY <1>2, NumbersType
<1>5. PICK b \in Seq(Nat) : b = Numbers(s) /\ Len(b) = m /\ \A i \in 1..m : b[i] = Number(s[i])
  BY <1>2, NumbersType
<1>6. PICK c \in Seq(Nat) : c = Numbers(u) /\ Len(c) = n + m
                            /\ \A i \in 1..n+m : c[i] = Number(u[i])
  BY <1>3, NumbersType
<1>7. PICK d \in Seq(Nat) : d = a \o b /\ Len(d) = n + m
                            /\ \A i \in 1..n+m : d[i] = IF i <= n THEN a[i] ELSE b[i - n]
  <2>1. /\ a \o b \in Seq(Nat) /\ Len(a \o b) = Len(a) + Len(b)
        /\ \A i \in 1..Len(a)+Len(b) :
             (a \o b)[i] = IF i <= Len(a) THEN a[i] ELSE b[i - Len(a)]
    BY ConcatProperties
  <2>2. Len(a) = n /\ Len(b) = m
    BY <1>4, <1>5
  <2>3. QED
    BY <2>1, <2>2
<1>8. ASSUME NEW i \in 1..n+m PROVE c[i] = d[i]
  <2>1. CASE i <= n
    <3>1. i \in 1..n
      BY <2>1
    <3>2. c[i] = Number(q[i]) /\ d[i] = a[i] /\ a[i] = Number(q[i])
      BY <1>3, <1>4, <1>6, <1>7, <2>1, <3>1
    <3>3. QED
      BY <3>2
  <2>2. CASE ~(i <= n)
    <3>1. i - n \in 1..m
      BY <2>2
    <3>2. c[i] = Number(s[i - n]) /\ d[i] = b[i - n] /\ b[i - n] = Number(s[i - n])
      BY <1>3, <1>5, <1>6, <1>7, <2>2, <3>1
    <3>3. QED
      BY <3>2
  <2>3. QED
    BY <2>1, <2>2
<1>9. c = d
  BY <1>6, <1>7, <1>8, SeqEqual
<1>10. QED
  BY <1>1, <1>4, <1>5, <1>6, <1>7, <1>9

LEMMA NumbersHead ==
  ASSUME NEW q \in Seq(Event), q # <<>>
  PROVE  /\ Numbers(q) # <<>> /\ Head(Numbers(q)) = Number(Head(q))
         /\ Numbers(Tail(q)) = Tail(Numbers(q))
<1>1. PICK n \in Nat : Len(q) = n + 1
  <2>1. Len(q) \in Nat \ {0}
    BY EmptySeq
  <2>2. PICK l \in Nat \ {0} : l = Len(q)
    BY <2>1
  <2>3. l - 1 \in Nat /\ l = (l - 1) + 1
    OBVIOUS
  <2>4. QED
    BY <2>2, <2>3
<1>2. PICK a \in Seq(Nat) : a = Numbers(q) /\ Len(a) = n + 1
                            /\ \A i \in 1..n+1 : a[i] = Number(q[i])
  BY <1>1, NumbersType
<1>3. a # <<>>
  BY <1>2, EmptySeq
<1>4. Head(a) = a[1] /\ Head(q) = q[1]
  OBVIOUS
<1>5. Head(a) = Number(Head(q))
  BY <1>2, <1>4
<1>6. PICK u \in Seq(Event) : u = Tail(q) /\ Len(u) = n /\ \A i \in 1..n : u[i] = q[i + 1]
  <2>1. /\ Tail(q) \in Seq(Event) /\ Len(Tail(q)) = Len(q) - 1
        /\ \A i \in 1..Len(Tail(q)) : Tail(q)[i] = q[i + 1]
    BY HeadTailProperties
  <2>2. Len(q) - 1 = n
    BY <1>1
  <2>3. QED
    BY <2>1, <2>2
<1>7. PICK b \in Seq(Nat) : b = Numbers(u) /\ Len(b) = n /\ \A i \in 1..n : b[i] = Number(u[i])
  BY <1>6, NumbersType
<1>8. PICK c \in Seq(Nat) : c = Tail(a) /\ Len(c) = n /\ \A i \in 1..n : c[i] = a[i + 1]
  <2>1. /\ Tail(a) \in Seq(Nat) /\ Len(Tail(a)) = Len(a) - 1
        /\ \A i \in 1..Len(Tail(a)) : Tail(a)[i] = a[i + 1]
    BY <1>3, HeadTailProperties
  <2>2. Len(a) - 1 = n
    BY <1>2
  <2>3. QED
    BY <2>1, <2>2
<1>9. \A i \in 1..n : b[i] = c[i]
  BY <1>2, <1>6, <1>7, <1>8
<1>10. b = c
  BY <1>7, <1>8, <1>9, SeqEqual
<1>11. QED
  BY <1>2, <1>3, <1>5, <1>6, <1>7, <1>8, <1>10

LEMMA PathParts ==
  ASSUME Types
  PROVE  /\ history.delivered \in Seq(Nat) /\ ring \in Seq(Nat) /\ Taken \in Seq(Nat)
         /\ QueuedFrames = Numbers(queue) /\ QueuedFrames \in Seq(Nat)
         /\ controller.fifo \in Seq(Nat) /\ Path \in Seq(Nat)
         /\ \A i \in 1..Len(controller.fifo) : controller.fifo[i] # 0
<1>1. Frame \subseteq Nat /\ \A x \in Frame : x # 0
  BY DEF Frame
<1>2. history.delivered \in Seq(Nat) /\ ring \in Seq(Nat) /\ controller.fifo \in Seq(Nat)
  BY <1>1, SeqMonotonic, HistoryParts, QueueParts, ControllerParts
<1>3. Taken \in Seq(Nat)
  <2>1. CASE pc["mcan"] = "publish"
    <3>1. event \in RxEvent
      BY <2>1 DEF Types
    <3>2. event.frame \in Nat
      BY <1>1, <3>1 DEF RxEvent
    <3>3. QED
      BY <2>1, <3>2 DEF Taken
  <2>2. CASE pc["mcan"] # "publish"
    BY <2>2 DEF Taken
  <2>3. QED
    BY <2>1, <2>2
<1>4. QueuedFrames = Numbers(queue)
  BY DEF QueuedFrames, Numbers, Number
<1>5. QueuedFrames \in Seq(Nat)
  BY <1>4, QueueParts, NumbersType
<1>6. \A i \in 1..Len(controller.fifo) : controller.fifo[i] # 0
  BY <1>1, ControllerParts, ElementOfSeq
<1>7. QED
  BY <1>2, <1>3, <1>4, <1>5, <1>6, PathJoined, JoinedType
-----------------------------------------------------------------------------
(* The accounts.                                                            *)

Unreported(st, u, c) == st.drops[c] - u.reported[c]

(* The frames that are no longer on their way.                              *)
Gone(st, u, h) ==
  st.invalid_frames + h.told + h.forgiven + Unreported(st, u, "rx_queue_drops")
    + Unreported(st, u, "ring_drops")

LEMMA GoneType ==
  ASSUME NEW st \in States, NEW u \in UsbStates, NEW h \in Histories, NEW f \in Nat
  PROVE  /\ Gone(st, u, h) \in Int
         /\ f + Gone(st, u, h)
              = f + st.invalid_frames + h.told + h.forgiven
                  + (st.drops["rx_queue_drops"] - u.reported["rx_queue_drops"])
                  + (st.drops["ring_drops"] - u.reported["ring_drops"])
<1>1. st.invalid_frames \in Nat /\ h.told \in Nat /\ h.forgiven \in Nat
  BY DEF States, Histories
<1>2. st.drops \in Count /\ u.reported \in Count
  BY DEF States, UsbStates
<1>3. \A c \in Counter : st.drops[c] \in Nat /\ u.reported[c] \in Nat
  BY <1>2 DEF Count
<1>4. /\ st.drops["rx_queue_drops"] \in Nat /\ u.reported["rx_queue_drops"] \in Nat
      /\ st.drops["ring_drops"] \in Nat /\ u.reported["ring_drops"] \in Nat
  BY <1>3 DEF Counter
<1>5. QED
  BY <1>1, <1>4 DEF Gone, Unreported

LEMMA AccountsNow ==
  ASSUME Types
  PROVE  /\ Frames(Path) \in Nat /\ Gone(state, usb, history) \in Int
         /\ FramesAccounted
              <=> Ordered(Path) /\ Frames(Path) + Gone(state, usb, history) = controller.frames
<1>1. Frames(Path) \in Nat
  BY PathParts, FramesType
<1>2. state \in States /\ usb \in UsbStates /\ history \in Histories
  BY DEF Types
<1>3. QED
  BY <1>1, <1>2, GoneType DEF FramesAccounted, Frames

LEMMA AccountsThen ==
  ASSUME Types', Frames(Path') \in Nat
  PROVE  /\ FramesAccounted'
              <=> /\ Ordered(Path')
                  /\ Frames(Path') + Gone(state', usb', history') = controller'.frames
         /\ Arrived' <=> Bounded(Path', controller'.frames)
<1>1. state' \in States /\ usb' \in UsbStates /\ history' \in Histories
  BY DEF Types
<1>2. Arrived' <=> Bounded(Path', controller'.frames)
  BY DEF Arrived
<1>3. QED
  BY <1>1, <1>2, GoneType DEF FramesAccounted, Frames

(* A step that moves no frame off the path or onto it.                      *)
LEMMA AccountsKept ==
  ASSUME IInv, Types', Path' = Path, controller'.frames = controller.frames,
         Gone(state', usb', history') = Gone(state, usb, history)
  PROVE  FramesAccounted' /\ Arrived'
BY AccountsNow, AccountsThen DEF IInv, Arrived

LEMMA PathNext ==
  Path' = Joined(history'.delivered, ring', Taken', QueuedFrames', controller'.fifo)
BY DEF Path, Joined, Taken

LEMMA PathUnchanged ==
  ASSUME history'.delivered = history.delivered, ring' = ring, queue' = queue,
         controller'.fifo = controller.fifo, Taken' = Taken
  PROVE  Path' = Path
<1>1. QueuedFrames' = QueuedFrames
  BY DEF QueuedFrames
<1>2. QED
  BY <1>1, PathJoined, PathNext

LEMMA GoneKept ==
  ASSUME state'.invalid_frames = state.invalid_frames,
         history'.told = history.told, history'.forgiven = history.forgiven,
         state'.drops["rx_queue_drops"] = state.drops["rx_queue_drops"],
         state'.drops["ring_drops"] = state.drops["ring_drops"],
         usb'.reported = usb.reported
  PROVE  Gone(state', usb', history') = Gone(state, usb, history)
BY DEF Gone, Unreported

LEMMA GoneGrows ==
  ASSUME Types, usb' = usb, history'.told = history.told, history'.forgiven = history.forgiven,
         NEW n \in Nat,
         \/ /\ state'.invalid_frames = state.invalid_frames + n
            /\ state'.drops = state.drops
         \/ /\ state'.invalid_frames = state.invalid_frames
            /\ state'.drops["rx_queue_drops"] = state.drops["rx_queue_drops"]
            /\ state'.drops["ring_drops"] = state.drops["ring_drops"] + n
         \/ /\ state'.invalid_frames = state.invalid_frames
            /\ state'.drops["rx_queue_drops"] = state.drops["rx_queue_drops"] + n
            /\ state'.drops["ring_drops"] = state.drops["ring_drops"]
  PROVE  Gone(state', usb', history') = Gone(state, usb, history) + n
<1>1. PICK i \in Nat, t \in Nat, g \in Nat :
        i = state.invalid_frames /\ t = history.told /\ g = history.forgiven
  BY StateParts, HistoryParts
<1>2. "rx_queue_drops" \in Counter /\ "ring_drops" \in Counter
  BY DEF Counter
<1>3. PICK a \in Nat, b \in Nat :
        a = state.drops["rx_queue_drops"] /\ b = state.drops["ring_drops"]
  BY <1>2, StateParts
<1>4. PICK u \in Nat, v \in Nat :
        u = usb.reported["rx_queue_drops"] /\ v = usb.reported["ring_drops"]
  BY <1>2, UsbParts
<1>5. Gone(state, usb, history) = i + t + g + (a - u) + (b - v)
  BY <1>1, <1>3, <1>4 DEF Gone, Unreported
<1>6. PICK j, c, d : j = state'.invalid_frames /\ c = state'.drops["rx_queue_drops"]
                     /\ d = state'.drops["ring_drops"]
  OBVIOUS
<1>7. Gone(state', usb', history') = j + t + g + (c - u) + (d - v)
  BY <1>1, <1>4, <1>6 DEF Gone, Unreported
<1>8. \/ j = i + n /\ c = a /\ d = b
      \/ j = i /\ c = a /\ d = b + n
      \/ j = i /\ c = a + n /\ d = b
  BY <1>1, <1>3, <1>6
<1>9. QED
  BY <1>5, <1>7, <1>8

LEMMA FrameArrivesAccounts ==
  ASSUME IInv, Types', FrameArrives
  PROVE  FramesAccounted' /\ Arrived'
<1>1. Types /\ FramesAccounted /\ Arrived
  BY DEF IInv
<1>2. PICK n \in Nat : n = controller.frames
  BY <1>1, ControllerParts
<1>3. controller'.frames = n + 1 /\ controller'.fifo = Append(controller.fifo, n + 1)
  BY <1>1, <1>2, ControllerParts DEF FrameArrives, Controllers
<1>4. Path' = Append(Path, n + 1)
  <2>1. /\ history' = history /\ ring' = ring /\ Taken' = Taken /\ QueuedFrames' = QueuedFrames
    BY DEF FrameArrives, mcan, Taken, QueuedFrames
  <2>2. PICK p \in Seq(Nat) : p = history.delivered \o ring \o Taken \o QueuedFrames
    BY <1>1, PathParts, JoinedType
  <2>3. PICK f \in Seq(Nat), x \in Nat : f = controller.fifo /\ x = n + 1
    BY <1>1, PathParts
  <2>4. Path = p \o f /\ Path' = p \o Append(f, x)
    BY <1>3, <2>1, <2>2, <2>3, PathJoined, PathNext DEF Joined
  <2>5. p \o Append(f, x) = Append(p \o f, x)
    BY AppendConcat
  <2>6. QED
    BY <2>3, <2>4, <2>5
<1>5. Path \in Seq(Nat) /\ Bounded(Path, n) /\ Ordered(Path)
  BY <1>1, <1>2, PathParts, AccountsNow DEF Arrived
<1>6. Ordered(Path') /\ Bounded(Path', n + 1) /\ Frames(Path') = Frames(Path) + 1
  BY <1>4, <1>5, Extended
<1>7. Gone(state', usb', history') = Gone(state, usb, history)
  BY GoneKept DEF FrameArrives, mcan
<1>8. QED
  BY <1>1, <1>2, <1>3, <1>6, <1>7, AccountsNow, AccountsThen

(* A step that takes x off the path, and counts it unless it is 0.          *)
LEMMA AccountsTaken ==
  ASSUME IInv, Types', NEW a \in Seq(Nat), NEW b \in Seq(Nat), NEW x \in Nat,
         Path = Append(a, x) \o b, Path' = a \o b, controller'.frames = controller.frames,
         Gone(state', usb', history') = Gone(state, usb, history) + (IF x = 0 THEN 0 ELSE 1)
  PROVE  FramesAccounted' /\ Arrived'
<1>1. Types /\ FramesAccounted /\ Arrived
  BY DEF IInv
<1>2. Frames(Path') \in Nat
  BY ConcatProperties, FramesType
<1>3. /\ Ordered(Append(a, x) \o b) => Ordered(a \o b)
      /\ \A n \in Nat : Bounded(Append(a, x) \o b, n) => Bounded(a \o b, n)
      /\ Frames(Append(a, x) \o b) = Frames(a \o b) + (IF x = 0 THEN 0 ELSE 1)
  BY Inserted
<1>4. Ordered(Path') /\ Bounded(Path', controller'.frames)
  BY <1>1, <1>3, AccountsNow, ControllerParts DEF Arrived
<1>5. Frames(Path') + Gone(state', usb', history') = controller'.frames
  BY <1>1, <1>2, <1>3, AccountsNow, ControllerParts
<1>6. QED
  BY <1>2, <1>4, <1>5, AccountsThen

LEMMA ReceiveAccounts ==
  ASSUME IInv, Types', Receive
  PROVE  FramesAccounted' /\ Arrived'
<1>1. Types /\ pc["mcan"] = "receive" /\ pc \in Places
  BY DEF IInv, Receive, At, Types
<1>2. /\ queue # <<>> /\ event' = Head(queue) /\ queue' = Tail(queue)
      /\ pc' = [pc EXCEPT !["mcan"] = IF event'.type = "RX" THEN "publish" ELSE "capture"]
      /\ history' = history /\ ring' = ring /\ controller' = controller
  BY DEF Receive, Goto
<1>3. pc'["mcan"] = IF event'.type = "RX" THEN "publish" ELSE "capture"
  BY <1>1, <1>2 DEF Places, Task
<1>4. Gone(state', usb', history') = Gone(state, usb, history)
  BY GoneKept DEF Receive, usb_side
<1>5. PICK a \in Seq(Nat), q \in Seq(Nat), f \in Seq(Nat) :
        a = history.delivered \o ring /\ q = Numbers(queue) /\ f = controller.fifo
  BY <1>1, PathParts, ConcatProperties
<1>6. Path = ((a \o <<>>) \o q) \o f
  BY <1>1, <1>5, PathJoined, PathParts DEF Taken, Joined
<1>7. q # <<>> /\ Head(q) = Number(event') /\ Numbers(queue') = Tail(q)
  BY <1>1, <1>2, <1>5, NumbersHead, QueueParts
<1>8. Path' = ((a \o Taken') \o Tail(q)) \o f
  BY <1>2, <1>5, <1>7, PathNext DEF QueuedFrames, Numbers, Number, Joined
<1>9. Path = ((a \o <<Head(q)>>) \o Tail(q)) \o f
  BY <1>6, <1>7, JoinedReceived
<1>10. CASE event'.type = "RX"
  <2>1. Taken' = <<Head(q)>>
    BY <1>3, <1>7, <1>10 DEF Taken, Number
  <2>2. Path' = Path
    BY <1>8, <1>9, <2>1
  <2>3. QED
    BY <1>2, <1>4, <2>2, AccountsKept
<1>11. CASE event'.type # "RX"
  <2>1. Taken' = <<>> /\ Head(q) = 0
    BY <1>3, <1>7, <1>11 DEF Taken, Number
  <2>2. PICK u \in Seq(Nat), x \in Nat : u = Tail(q) /\ x = 0
    BY <1>7, SplitHead
  <2>3. PICK b \in Seq(Nat) : b = u \o f
    BY ConcatProperties
  <2>4. /\ ((a \o <<x>>) \o u) \o f = Append(a, x) \o (u \o f)
        /\ ((a \o <<>>) \o u) \o f = a \o (u \o f)
    <3>1. (a \o u) \o f = a \o (u \o f)
      BY Associative
    <3>2. PICK c \in Seq(Nat) : c = Append(a, x) /\ c = a \o <<x>> /\ a = a \o <<>>
      BY JoinedEnd
    <3>3. (c \o u) \o f = c \o (u \o f)
      BY Associative, ZenonT(30)
    <3>4. QED
      BY <3>1, <3>2, <3>3
  <2>5. Path = Append(a, x) \o b /\ Path' = a \o b
    BY <1>8, <1>9, <2>1, <2>2, <2>3, <2>4
  <2>6. Gone(state', usb', history') = Gone(state, usb, history) + (IF x = 0 THEN 0 ELSE 1)
    BY <1>1, <1>4, <2>2, AccountsNow
  <2>7. QED
    BY <1>2, <2>5, <2>6, AccountsTaken
<1>12. QED
  BY <1>10, <1>11

LEMMA PublishRxAccounts ==
  ASSUME IInv, Types', PublishRx
  PROVE  FramesAccounted' /\ Arrived'
<1>1. Types /\ pc["mcan"] = "publish" /\ pc \in Places
  BY DEF IInv, PublishRx, At, Types
<1>2. /\ history' = history /\ queue' = queue /\ controller' = controller /\ usb' = usb
      /\ \E place \in {"count", "signal"} : pc' = [pc EXCEPT !["mcan"] = place]
  BY DEF PublishRx, Goto, usb_side
<1>3. Taken' = <<>>
  BY <1>1, <1>2 DEF Taken, Places, Task
<1>4. PICK x \in Nat : x = event.frame /\ x # 0
  BY <1>1 DEF Types, RxEvent, Frame
<1>5. PICK d \in Seq(Nat), r \in Seq(Nat), q \in Seq(Nat), f \in Seq(Nat) :
        d = history.delivered /\ r = ring /\ q = QueuedFrames /\ f = controller.fifo
  BY <1>1, PathParts
<1>6. Path = (((d \o r) \o <<x>>) \o q) \o f
  BY <1>1, <1>4, <1>5, PathJoined DEF Taken, Joined
<1>7. Path' = (((d \o ring') \o <<>>) \o q) \o f
  <2>1. QueuedFrames' = QueuedFrames
    BY <1>2 DEF QueuedFrames
  <2>2. QED
    BY <1>2, <1>3, <1>5, <2>1, PathNext DEF Joined
<1>8. CASE event.frame \notin LongFrames /\ Len(ring) < RingCapacity
  <2>1. ring' = Append(r, x) /\ state' = state
    BY <1>4, <1>5, <1>8 DEF PublishRx
  <2>2. (d \o Append(r, x)) \o <<>> = (d \o r) \o <<x>>
    BY JoinedPublished
  <2>3. Path' = Path
    BY <1>6, <1>7, <2>1, <2>2
  <2>4. Gone(state', usb', history') = Gone(state, usb, history)
    BY <1>2, <2>1
  <2>5. QED
    BY <1>2, <2>3, <2>4, AccountsKept
<1>9. CASE ~(event.frame \notin LongFrames /\ Len(ring) < RingCapacity)
  <2>1. ring' = r
    BY <1>5, <1>9 DEF PublishRx
  <2>2. PICK a \in Seq(Nat) : a = d \o r
    BY ConcatProperties
  <2>3. PICK b \in Seq(Nat) : b = q \o f
    BY ConcatProperties
  <2>4. /\ ((a \o <<x>>) \o q) \o f = Append(a, x) \o (q \o f)
        /\ ((a \o <<>>) \o q) \o f = a \o (q \o f)
    <3>1. (a \o q) \o f = a \o (q \o f)
      BY Associative
    <3>2. PICK c \in Seq(Nat) : c = Append(a, x) /\ c = a \o <<x>> /\ a = a \o <<>>
      BY JoinedEnd
    <3>3. (c \o q) \o f = c \o (q \o f)
      BY Associative, ZenonT(30)
    <3>4. QED
      BY <3>1, <3>2, <3>3
  <2>5. Path = Append(a, x) \o b /\ Path' = a \o b
    BY <1>6, <1>7, <2>1, <2>2, <2>3, <2>4
  <2>6. Gone(state', usb', history') = Gone(state, usb, history) + 1
    <3>1. state.drops \in Count /\ state \in States
      BY <1>1, StateParts
    <3>2. CASE event.frame \in LongFrames
      <4>1. state' = [state EXCEPT !.invalid_frames = @ + 1]
        BY <3>2 DEF PublishRx
      <4>2. state'.invalid_frames = state.invalid_frames + 1 /\ state'.drops = state.drops
        BY <3>1, <4>1 DEF States
      <4>3. QED
        BY <1>1, <1>2, <4>2, GoneGrows
    <3>3. CASE event.frame \notin LongFrames
      <4>1. state' = [state EXCEPT !.drops["ring_drops"] = @ + 1]
        BY <1>9, <3>3 DEF PublishRx
      <4>2. /\ state'.invalid_frames = state.invalid_frames
            /\ state'.drops = [state.drops EXCEPT !["ring_drops"] = @ + 1]
        BY <3>1, <4>1 DEF States
      <4>3. /\ state'.drops["rx_queue_drops"] = state.drops["rx_queue_drops"]
            /\ state'.drops["ring_drops"] = state.drops["ring_drops"] + 1
        BY <3>1, <4>2 DEF Count, Counter
      <4>4. QED
        BY <1>1, <1>2, <4>2, <4>3, GoneGrows
    <3>4. QED
      BY <3>2, <3>3
  <2>7. QED
    BY <1>2, <1>4, <2>5, <2>6, AccountsTaken
<1>10. QED
  BY <1>8, <1>9

LEMMA PopRxAccounts ==
  ASSUME IInv, Types', PopRx
  PROVE  FramesAccounted' /\ Arrived'
<1>1. Types
  BY DEF IInv
<1>2. /\ queue' = queue /\ controller' = controller /\ usb' = usb /\ state' = state
      /\ event' = event
  BY DEF PopRx
<1>3. Taken' = Taken /\ QueuedFrames' = QueuedFrames
  BY <1>1, <1>2 DEF PopRx, Goto, Taken, QueuedFrames, Types, Places, Task
<1>4. CASE ring = <<>>
  <2>1. ring' = ring /\ history' = history
    BY <1>4 DEF PopRx
  <2>2. Path' = Path
    BY <1>2, <1>3, <2>1, PathUnchanged
  <2>3. QED
    BY <1>2, <2>1, <2>2, AccountsKept
<1>5. CASE ring # <<>>
  <2>1. ring' = Tail(ring) /\ history'.delivered = Append(history.delivered, Head(ring))
        /\ history'.told = history.told /\ history'.forgiven = history.forgiven
    BY <1>1, <1>5, HistoryParts DEF PopRx, Histories
  <2>2. PICK d \in Seq(Nat), r \in Seq(Nat) : d = history.delivered /\ r = ring
    BY <1>1, PathParts
  <2>3. Append(d, Head(r)) \o Tail(r) = d \o r
    BY <1>5, <2>2, HeadMoves
  <2>4. Path' = Path
    BY <1>2, <1>3, <2>1, <2>2, <2>3, PathJoined, PathNext DEF Joined
  <2>5. Gone(state', usb', history') = Gone(state, usb, history)
    BY <1>2, <2>1 DEF Gone, Unreported
  <2>6. QED
    BY <1>2, <2>4, <2>5, AccountsKept
<1>6. QED
  BY <1>4, <1>5

LEMMA IsrEnterAccounts ==
  ASSUME IInv, Types', IsrEnter
  PROVE  FramesAccounted' /\ Arrived'
<1>1. Types /\ FramesAccounted /\ Arrived
  BY DEF IInv
<1>2. ring' = ring /\ usb' = usb /\ history' = history /\ Taken' = Taken
  BY DEF IsrEnter, Taken
<1>3. CASE "RX" \notin controller.flags
  <2>1. controller' = controller /\ queue' = queue /\ state' = state
    BY <1>3 DEF IsrEnter
  <2>2. Path' = Path
    BY <1>2, <2>1, PathUnchanged
  <2>3. QED
    BY <1>2, <2>1, <2>2, AccountsKept
<1>4. CASE "RX" \in controller.flags
  <2> DEFINE events == [i \in 1..Len(controller.fifo) |-> Rx(controller.fifo[i])]
  <2>1. PICK f \in Seq(Nat), l \in Nat : f = controller.fifo /\ l = Len(f)
    BY <1>1, PathParts, LenProperties
  <2>2. /\ events \in Seq(Event) /\ Len(events) = l
        /\ \A i \in 1..l : events[i] = Rx(f[i])
    <3>1. events \in Seq(Event) /\ DOMAIN events = 1..l
      BY <1>1, <2>1, RxEvents
    <3>2. Len(events) \in Nat /\ DOMAIN events = 1..Len(events)
      BY <3>1, LenProperties
    <3>3. QED
      BY <2>1, <3>1, <3>2
  <2>3. EnqueueFromIsr(events, "rx_queue_drops") /\ "rx_queue_drops" \in Counter
    BY <1>4 DEF IsrEnter, Counter
  <2>4. controller'.fifo = <<>> /\ controller'.frames = controller.frames
    BY <1>1, <1>4, ControllerParts DEF IsrEnter, Controllers
  <2> HIDE DEF events
  <2>5. PICK k \in 0..l :
          /\ queue' = queue \o SubSeq(events, 1, k)
          /\ SubSeq(events, 1, k) \in Seq(Event) /\ Len(SubSeq(events, 1, k)) = k
          /\ \A i \in 1..k : SubSeq(events, 1, k)[i] = events[i]
          /\ state'.invalid_frames = state.invalid_frames
          /\ state'.drops["rx_queue_drops"] = state.drops["rx_queue_drops"] + (l - k)
          /\ \A c \in Counter \ {"rx_queue_drops"} : state'.drops[c] = state.drops[c]
    BY <1>1, <2>2, <2>3, Enqueued
  <2>6. PICK s \in Seq(Nat) : /\ s = Numbers(SubSeq(events, 1, k)) /\ Len(s) = k
                              /\ \A i \in 1..k : s[i] = Number(SubSeq(events, 1, k)[i])
    BY <2>5, NumbersType
  <2>7. \A i \in 1..k : s[i] = f[i]
    <3>1. \A i \in 1..k : i \in 1..l
      OBVIOUS
    <3>2. QED
      BY <2>2, <2>5, <2>6, <3>1 DEF Rx, Number
  <2>8. PICK b \in Seq(Nat), q \in Seq(Nat) :
          b = history.delivered \o ring \o Taken /\ q = QueuedFrames /\ q = Numbers(queue)
    BY <1>1, PathParts, JoinedType
  <2>9. PICK a \in Seq(Nat) : a = b \o q
    BY ConcatProperties
  <2>10. PICK p \in Seq(Nat) : p = a \o f /\ p = Path
    BY <1>1, <2>1, <2>8, <2>9, PathParts, PathJoined DEF Joined
  <2>11. Path' = a \o s
    <3>1. Numbers(queue') = q \o s
      BY <1>1, <2>5, <2>6, <2>8, NumbersConcat, QueueParts
    <3>2. QueuedFrames' = Numbers(queue')
      BY DEF QueuedFrames, Numbers, Number
    <3>3. Path' = (b \o (q \o s)) \o <<>>
      BY <1>2, <2>4, <2>8, <3>1, <3>2, PathNext DEF Joined
    <3>4. (b \o (q \o s)) \o <<>> = (b \o q) \o s
      BY JoinedDrained
    <3>5. QED
      BY <2>9, <3>3, <3>4
  <2>12. PICK m \in 0..Len(p) :
           /\ Len(p) - m = l - k /\ a \o s = SubSeq(p, 1, m)
           /\ \A i \in m+1..Len(p) : i - m + k \in 1..l /\ p[i] = f[i - m + k]
    <3>1. k \in 0..Len(f)
      BY <2>1
    <3>2. Len(s) = k /\ \A i \in 1..k : s[i] = f[i]
      BY <2>6, <2>7
    <3>3. /\ Len(a) + k \in 0..Len(a \o f) /\ Len(a \o f) - (Len(a) + k) = Len(f) - k
          /\ a \o s = SubSeq(a \o f, 1, Len(a) + k)
          /\ \A i \in (Len(a)+k)+1..Len(a \o f) :
               /\ i - (Len(a)+k) + k \in 1..Len(f)
               /\ (a \o f)[i] = f[i - (Len(a)+k) + k]
      BY <3>1, <3>2, Drained, Zenon
    <3>4. QED
      BY <2>1, <2>10, <3>3
  <2>13. \A i \in m+1..Len(p) : p[i] # 0
    BY <1>1, <2>1, <2>12, PathParts
  <2>14. /\ SubSeq(p, 1, m) \in Seq(Nat)
         /\ Ordered(p) => Ordered(SubSeq(p, 1, m))
         /\ \A n \in Nat : Bounded(p, n) => Bounded(SubSeq(p, 1, m), n)
         /\ Frames(p) = Frames(SubSeq(p, 1, m)) + (Len(p) - m)
    BY <2>13, Shortened
  <2>15. Frames(Path') \in Nat /\ Frames(Path) = Frames(Path') + (l - k)
    BY <2>10, <2>11, <2>12, <2>14, FramesType
  <2>16. Ordered(Path') /\ Bounded(Path', controller'.frames)
    BY <1>1, <2>4, <2>10, <2>11, <2>12, <2>14, AccountsNow, ControllerParts DEF Arrived
  <2>17. Gone(state', usb', history') = Gone(state, usb, history) + (l - k)
    <3>1. l - k \in Nat
      OBVIOUS
    <3>2. state'.drops["ring_drops"] = state.drops["ring_drops"]
      BY <2>5 DEF Counter
    <3>3. QED
      BY <1>1, <1>2, <2>5, <3>1, <3>2, GoneGrows
  <2>18. Frames(Path') + Gone(state', usb', history') = controller'.frames
    BY <1>1, <2>4, <2>15, <2>17, AccountsNow, ControllerParts
  <2>19. QED
    BY <2>15, <2>16, <2>18, AccountsThen
<1>5. QED
  BY <1>3, <1>4

LEMMA IsrExitAccounts ==
  ASSUME IInv, Types', IsrExit
  PROVE  FramesAccounted' /\ Arrived'
<1>1. Types /\ FramesAccounted /\ Arrived
  BY DEF IInv
<1>2. ring' = ring /\ usb' = usb /\ Taken' = Taken
  BY DEF IsrExit, Taken
<1>3. /\ history'.delivered = history.delivered /\ history'.told = history.told
      /\ history'.forgiven = history.forgiven
      /\ controller'.fifo = controller.fifo /\ controller'.frames = controller.frames
  BY <1>1, HistoryParts, ControllerParts DEF IsrExit, Lose, Histories, Controllers
<1> DEFINE events == DiagnosticOf(isr)
<1>4. events \in Seq(Event) /\ (events = <<>> \/ \E e : e.type # "RX" /\ events = <<e>>)
  BY <1>1, DiagnosticEvents DEF DiagnosticOf
<1>5. EnqueueFromIsr(events, "diagnostic_queue_drops") /\ "diagnostic_queue_drops" \in Counter
  BY DEF IsrExit, Counter, DiagnosticOf
<1> HIDE DEF events
<1>6. PICK k \in 0..Len(events) :
        /\ queue' = queue \o SubSeq(events, 1, k)
        /\ SubSeq(events, 1, k) \in Seq(Event) /\ Len(SubSeq(events, 1, k)) = k
        /\ \A i \in 1..k : SubSeq(events, 1, k)[i] = events[i]
        /\ state'.invalid_frames = state.invalid_frames
        /\ \A c \in Counter \ {"diagnostic_queue_drops"} : state'.drops[c] = state.drops[c]
  BY <1>1, <1>4, <1>5, Enqueued
<1>7. Gone(state', usb', history') = Gone(state, usb, history)
  BY <1>2, <1>3, <1>6, GoneKept DEF Counter
<1>8. PICK b \in Seq(Nat), q \in Seq(Nat), f \in Seq(Nat) :
        /\ b = history.delivered \o ring \o Taken /\ q = QueuedFrames /\ q = Numbers(queue)
        /\ f = controller.fifo
  BY <1>1, PathParts, JoinedType
<1>9. Path = (b \o q) \o f /\ Path' = (b \o Numbers(queue')) \o f
  BY <1>2, <1>3, <1>8, PathJoined, PathNext DEF Joined, QueuedFrames, Numbers, Number
<1>10. PICK s \in Seq(Nat) : /\ s = Numbers(SubSeq(events, 1, k)) /\ Len(s) = k
                             /\ \A i \in 1..k : s[i] = Number(SubSeq(events, 1, k)[i])
  BY <1>6, NumbersType
<1>11. Numbers(queue') = q \o s
  BY <1>1, <1>6, <1>8, <1>10, NumbersConcat, QueueParts
<1>12. s = <<>> \/ s = <<0>>
  <2>1. CASE k = 0
    BY <1>10, <2>1, EmptySeq
  <2>2. CASE k # 0
    <3>1. PICK e : e.type # "RX" /\ events = <<e>> /\ Len(events) = 1 /\ events[1] = e
      BY <1>4, <2>2, EmptySeq
    <3>2. k = 1 /\ 1 \in 1..k
      BY <2>2, <3>1
    <3>3. SubSeq(events, 1, k)[1] = e /\ s[1] = Number(SubSeq(events, 1, k)[1])
      BY <1>6, <1>10, <3>1, <3>2
    <3>4. s[1] = 0
      BY <3>1, <3>3 DEF Number
    <3>5. QED
      BY <1>10, <3>2, <3>4
  <2>3. QED
    BY <2>1, <2>2
<1>13. CASE s = <<>>
  <2>1. q \o s = q
    BY <1>13, ConcatEmptySeq
  <2>2. Path' = Path
    BY <1>9, <1>11, <2>1
  <2>3. QED
    BY <1>3, <1>7, <2>2, AccountsKept
<1>14. CASE s = <<0>>
  <2>1. PICK a \in Seq(Nat), x \in Nat : a = b \o q /\ x = 0
    BY ConcatProperties
  <2>2. b \o (q \o s) = a \o s
    <3>1. (b \o q) \o s = b \o (q \o s)
      BY Associative
    <3>2. QED
      BY <2>1, <3>1
  <2>3. a \o s = Append(a, x)
    BY <1>14, <2>1, JoinedEnd
  <2>4. Path = a \o f /\ Path' = Append(a, x) \o f
    BY <1>9, <1>11, <2>1, <2>2, <2>3
  <2>5. /\ Append(a, x) \o f \in Seq(Nat)
        /\ Ordered(a \o f) => Ordered(Append(a, x) \o f)
        /\ \A n \in Nat : Bounded(a \o f, n) => Bounded(Append(a, x) \o f, n)
        /\ Frames(Append(a, x) \o f) = Frames(a \o f)
    <3>1. /\ Append(a, x) \o f \in Seq(Nat)
          /\ x = 0 /\ Ordered(a \o f) => Ordered(Append(a, x) \o f)
          /\ \A n \in Nat : Bounded(Append(a, x) \o f, n) <=> Bounded(a \o f, n) /\ x <= n
          /\ Frames(Append(a, x) \o f) = Frames(a \o f) + (IF x = 0 THEN 0 ELSE 1)
      BY Inserted
    <3>2. Frames(a \o f) \in Nat
      BY <1>1, <2>4, AccountsNow
    <3>3. QED
      BY <2>1, <3>1, <3>2
  <2>6. Ordered(Path') /\ Bounded(Path', controller'.frames)
    BY <1>1, <1>3, <2>4, <2>5, AccountsNow, ControllerParts DEF Arrived
  <2>7. Frames(Path') \in Nat /\ Frames(Path') + Gone(state', usb', history') = controller'.frames
    BY <1>1, <1>3, <1>7, <2>4, <2>5, AccountsNow
  <2>8. QED
    BY <2>6, <2>7, AccountsThen
<1>15. QED
  BY <1>12, <1>13, <1>14

(* Lost frames are told, or forgiven, when the snapshot's count is marked as*)
(* reported: not later, and not those counted since the snapshot.           *)
LEMMA ReportAccounts ==
  ASSUME IInv, Types', Baseline \/ PublishLosses
  PROVE  FramesAccounted' /\ Arrived'
<1>1. Types /\ pc["mcan"] \in McanPlace
  BY DEF IInv, Types
<1>2. /\ queue' = queue /\ controller' = controller /\ state' = state /\ ring' = ring
      /\ event' = event
  BY DEF Baseline, PublishLosses, mcan
<1>3. Taken' = Taken
  BY <1>1, <1>2 DEF Baseline, PublishLosses, Goto, Taken, Types, Places, Task
<1>4. usb'.reported = diag.drops
  <2>1. usb \in UsbStates
    BY <1>1, UsbParts
  <2>2. CASE Baseline
    BY <2>1, <2>2 DEF Baseline, ReportedDrops, UsbStates
  <2>3. CASE PublishLosses
    BY <2>1, <2>3 DEF PublishLosses, ReportedDrops, UsbStates
  <2>4. QED
    BY <2>2, <2>3
<1>5. "rx_queue_drops" \in Counter /\ "ring_drops" \in Counter
  BY DEF Counter
<1>6. PICK i \in Nat, t \in Nat, g \in Nat :
        i = state.invalid_frames /\ t = history.told /\ g = history.forgiven
  BY <1>1, StateParts, HistoryParts
<1>7. PICK a \in Nat, b \in Nat :
        a = state.drops["rx_queue_drops"] /\ b = state.drops["ring_drops"]
  BY <1>1, <1>5, StateParts
<1>8. PICK u \in Nat, v \in Nat :
        u = usb.reported["rx_queue_drops"] /\ v = usb.reported["ring_drops"]
  BY <1>1, <1>5, UsbParts
<1>9. PICK x \in Nat, y \in Nat : x = diag.drops["rx_queue_drops"] /\ y = diag.drops["ring_drops"]
  BY <1>1, <1>5, DiagParts
<1>10. NewFrameDrops = (x - u) + (y - v)
  BY <1>8, <1>9 DEF NewFrameDrops, New
<1>11. /\ history'.delivered = history.delivered
       /\ history'.told + history'.forgiven = t + g + (x - u) + (y - v)
       /\ history'.told \in Int /\ history'.forgiven \in Int
  <2>1. history \in Histories /\ history.told \in Nat /\ history.forgiven \in Nat
    BY <1>1, HistoryParts
  <2>2. CASE Baseline
    <3>1. history' = [history EXCEPT !.forgiven = @ + NewFrameDrops]
      BY <2>2 DEF Baseline
    <3>2. /\ history'.delivered = history.delivered /\ history'.told = t
          /\ history'.forgiven = g + ((x - u) + (y - v))
      BY <1>6, <1>10, <2>1, <3>1 DEF Histories
    <3>3. QED
      BY <3>2
  <2>3. CASE PublishLosses
    <3>1. history' = [history EXCEPT !.told = @ + NewFrameDrops]
      BY <2>3 DEF PublishLosses
    <3>2. /\ history'.delivered = history.delivered /\ history'.forgiven = g
          /\ history'.told = t + ((x - u) + (y - v))
      BY <1>6, <1>10, <2>1, <3>1 DEF Histories
    <3>3. QED
      BY <3>2
  <2>4. QED
    BY <2>2, <2>3
<1>12. Gone(state, usb, history) = i + t + g + (a - u) + (b - v)
  BY <1>6, <1>7, <1>8 DEF Gone, Unreported
<1>13. PICK told \in Int, forgiven \in Int :
         told = history'.told /\ forgiven = history'.forgiven
         /\ told + forgiven = t + g + (x - u) + (y - v)
  BY <1>11
<1>14. Gone(state', usb', history') = i + told + forgiven + (a - x) + (b - y)
  BY <1>2, <1>4, <1>6, <1>7, <1>9, <1>13 DEF Gone, Unreported
<1>15. Gone(state', usb', history') = Gone(state, usb, history)
  BY <1>12, <1>13, <1>14
<1>16. Path' = Path
  BY <1>2, <1>3, <1>11, PathUnchanged
<1>17. QED
  BY <1>2, <1>15, <1>16, AccountsKept

(* The other steps.                                                         *)
LEMMA OtherAccounts ==
  ASSUME IInv, Types', ring' = ring, queue' = queue, Taken' = Taken,
         controller'.fifo = controller.fifo, controller'.frames = controller.frames,
         history'.delivered = history.delivered, history'.told = history.told,
         history'.forgiven = history.forgiven, usb'.reported = usb.reported,
         state'.invalid_frames = state.invalid_frames,
         state'.drops["rx_queue_drops"] = state.drops["rx_queue_drops"],
         state'.drops["ring_drops"] = state.drops["ring_drops"]
  PROVE  FramesAccounted' /\ Arrived'
BY PathUnchanged, GoneKept, AccountsKept

LEMMA AccountsStep ==
  ASSUME IInv, Types', [Next]_vars
  PROVE  FramesAccounted' /\ Arrived'
<1> Types /\ pc \in Places
  BY DEF IInv, Types
<1>1. CASE FrameArrives
  BY <1>1, FrameArrivesAccounts
<1>2. CASE OtherFault
  <2>1. controller'.fifo = controller.fifo /\ controller'.frames = controller.frames
    BY <1>2, ControllerParts DEF OtherFault, Controllers
  <2>2. QED
    BY <1>2, <2>1, OtherAccounts DEF OtherFault, mcan, Taken
<1>3. ASSUME NEW new \in ChannelState, Change(new) PROVE FramesAccounted' /\ Arrived'
  <2>1. /\ controller'.fifo = controller.fifo /\ controller'.frames = controller.frames
        /\ history'.delivered = history.delivered /\ history'.told = history.told
        /\ history'.forgiven = history.forgiven
    BY <1>3, ControllerParts, HistoryParts DEF Change, Lose, Controllers, Histories
  <2>2. QED
    BY <1>3, <2>1, OtherAccounts DEF Change, mcan, Taken
<1>4. ASSUME NEW type \in {"RESET", "HELLO"}, UsbInterrupt(type)
      PROVE  FramesAccounted' /\ Arrived'
  <2>1. controller'.fifo = controller.fifo /\ controller'.frames = controller.frames
    BY <1>4, ControllerParts DEF UsbInterrupt, Controllers
  <2>2. QED
    BY <1>4, <2>1, OtherAccounts DEF UsbInterrupt, mcan, Taken
<1>5. CASE IsrEnter
  BY <1>5, IsrEnterAccounts
<1>6. CASE IsrExit
  BY <1>6, IsrExitAccounts
<1>7. CASE Receive
  BY <1>7, ReceiveAccounts
<1>8. CASE IdlePoll
  <2>1. Taken' = Taken
    BY <1>8 DEF IdlePoll, At, Goto, Taken, Places, Task
  <2>2. QED
    BY <1>8, <2>1, OtherAccounts DEF IdlePoll, mcan, usb_side
<1>9. CASE PublishRx
  BY <1>9, PublishRxAccounts
<1>10. CASE CaptureDiagnostics
  <2>1. Taken' = Taken
    BY <1>10 DEF CaptureDiagnostics, At, Goto, Taken, Places, Task
  <2>2. state'.invalid_frames = state.invalid_frames /\ state'.drops = state.drops
    BY <1>10, StateParts DEF CaptureDiagnostics, States
  <2>3. QED
    BY <1>10, <2>1, <2>2, OtherAccounts DEF CaptureDiagnostics, usb_side
<1>11. CASE PublishStateEdge
  <2>1. Taken' = Taken
    BY <1>11 DEF PublishStateEdge, At, Goto, Taken, Places, Task
  <2>2. /\ state'.invalid_frames = state.invalid_frames
        /\ state'.drops["rx_queue_drops"] = state.drops["rx_queue_drops"]
        /\ state'.drops["ring_drops"] = state.drops["ring_drops"]
    <3>1. CASE state' = state
      BY <3>1
    <3>2. CASE state' = [state EXCEPT !.drops["state_edge_drops"] = @ + 1]
      <4>1. /\ state'.invalid_frames = state.invalid_frames
            /\ state'.drops = [state.drops EXCEPT !["state_edge_drops"] = @ + 1]
        BY <3>2, StateParts DEF States
      <4>2. QED
        BY <4>1, StateParts DEF Count, Counter
    <3>3. QED
      BY <1>11, <3>1, <3>2 DEF PublishStateEdge
  <2>3. /\ history'.delivered = history.delivered /\ history'.told = history.told
        /\ history'.forgiven = history.forgiven
    BY <1>11, HistoryParts DEF PublishStateEdge, Lose, Histories
  <2>4. QED
    BY <1>11, <2>1, <2>2, <2>3, OtherAccounts DEF PublishStateEdge, usb_side
<1>12. CASE CountQueue
  <2>1. Taken' = Taken
    BY <1>12 DEF CountQueue, At, Goto, Taken, Places, Task
  <2>2. state'.invalid_frames = state.invalid_frames /\ state'.drops = state.drops
    BY <1>12, StateParts DEF CountQueue, States
  <2>3. QED
    BY <1>12, <2>1, <2>2, OtherAccounts DEF CountQueue, usb_side
<1>13. CASE Refresh
  <2>1. Taken' = Taken
    BY <1>13 DEF Refresh, At, Goto, Taken, Places, Task
  <2>2. state'.invalid_frames = state.invalid_frames /\ state'.drops = state.drops
    BY <1>13, StateParts DEF Refresh, States
  <2>3. QED
    BY <1>13, <2>1, <2>2, OtherAccounts DEF Refresh, usb_side
<1>14. ASSUME NEW task \in Task, SignalCanRx(task) PROVE FramesAccounted' /\ Arrived'
  <2>1. Taken' = Taken
    BY <1>14 DEF SignalCanRx, SignalReturn, At, Goto, Taken, Places, Task, mcan
  <2>2. QED
    BY <1>14, <2>1, OtherAccounts DEF SignalCanRx, mcan
<1>15. ASSUME NEW task \in Task, SignalSend(task) PROVE FramesAccounted' /\ Arrived'
  <2>1. Taken' = Taken
    BY <1>15 DEF SignalSend, SignalReturn, At, Goto, Taken, Places, Task, mcan
  <2>2. QED
    BY <1>15, <2>1, OtherAccounts DEF SignalSend, mcan
<1>16. ASSUME NEW task \in Task, SignalFailed(task) PROVE FramesAccounted' /\ Arrived'
  <2>1. Taken' = Taken
    BY <1>16 DEF SignalFailed, SignalReturn, At, Goto, Taken, Places, Task, mcan
  <2>2. QED
    BY <1>16, <2>1, OtherAccounts DEF SignalFailed, mcan
<1>17. CASE ChooseWait
  <2>1. Taken' = Taken
    BY <1>17 DEF ChooseWait, Goto, Taken, Places, Task, mcan
  <2>2. /\ history'.delivered = history.delivered /\ history'.told = history.told
        /\ history'.forgiven = history.forgiven
    BY <1>17, HistoryParts DEF ChooseWait, Histories
  <2>3. QED
    BY <1>17, <2>1, <2>2, OtherAccounts DEF ChooseWait, mcan
<1>18. CASE Wake
  <2>1. Taken' = Taken
    BY <1>18 DEF Wake, Goto, Taken, Places, Task, mcan
  <2>2. usb'.reported = usb.reported
    BY <1>18, UsbParts, WakeKeepsReported
  <2>3. QED
    BY <1>18, <2>1, <2>2, OtherAccounts DEF Wake, mcan
<1>19. CASE PopRx
  BY <1>19, PopRxAccounts
<1>20. CASE CompleteDrain
  <2>1. Taken' = Taken
    BY <1>20 DEF CompleteDrain, Goto, Taken, Places, Task, mcan
  <2>2. QED
    BY <1>20, <2>1, OtherAccounts DEF CompleteDrain, mcan
<1>21. CASE TakeSnapshot
  <2>1. Taken' = Taken
    BY <1>21 DEF TakeSnapshot, Goto, Taken, Places, Task, mcan
  <2>2. QED
    BY <1>21, <2>1, OtherAccounts DEF TakeSnapshot, mcan
<1>22. CASE PopEdge
  <2>1. Taken' = Taken
    BY <1>22 DEF PopEdge, Taken
  <2>2. /\ history'.delivered = history.delivered /\ history'.told = history.told
        /\ history'.forgiven = history.forgiven
    BY <1>22, HistoryParts DEF PopEdge, Lose, Histories
  <2>3. usb'.reported = usb.reported
    BY <1>22, UsbParts DEF PopEdge, UsbStates
  <2>4. QED
    BY <1>22, <2>1, <2>2, <2>3, OtherAccounts DEF PopEdge
<1>23. CASE Baseline \/ PublishLosses
  BY <1>23, ReportAccounts
<1>24. CASE UNCHANGED vars
  BY <1>24, OtherAccounts DEF vars, mcan, Taken
<1>25. QED
  BY <1>1, <1>2, <1>3, <1>4, <1>5, <1>6, <1>7, <1>8, <1>9, <1>10, <1>11, <1>12, <1>13, <1>14, <1>15,
     <1>16, <1>17, <1>18, <1>19, <1>20, <1>21, <1>22, <1>23, <1>24 DEF Next, McanTask, UsbTask, Task
-----------------------------------------------------------------------------
(* The state of the controller on its way to the session.                   *)

Diagnostic(e) == e.type = "DIAGNOSTIC"

(* A queue without samples of the state, with one of s, with s as the last. *)
Silent(q) == \A i \in 1..Len(q) : ~Diagnostic(q[i])
Holds(q, s) == \E i \in 1..Len(q) : Diagnostic(q[i]) /\ q[i].status = s
Final(q, s) ==
  \E i \in 1..Len(q) : /\ Diagnostic(q[i]) /\ q[i].status = s
                       /\ \A j \in i + 1..Len(q) : ~Diagnostic(q[j])

(* The last sample that the owner task has not yet published; once it has   *)
(* published all, the state it published last.                              *)
Sampled == isr.active /\ isr.flags \cap Fault # {}
InHand  == pc["mcan"] \in {"capture", "edge"}

Latest(s) ==
  IF Sampled THEN s = isr.status
  ELSE IF Silent(queue) THEN s = (IF InHand THEN event.status ELSE edge_state)
  ELSE Final(queue, s)

(* Since that sample the controller moved only as its flags say.            *)
Raised(flag) == flag \in controller.flags /\ ~(isr.active /\ flag \in isr.flags)

Moved(from, to) ==
  \/ ~Raised("EP") /\ ~Raised("BO") /\ from = to
  \/ Raised("EP") /\ ~Raised("BO")
       /\ <<from, to>> \in {<<"listen", "passive">>, <<"passive", "listen">>}
  \/ ~Raised("EP") /\ Raised("BO")
       /\ <<from, to>> \in {<<"passive", "off">>, <<"off", "listen">>}
  \/ Raised("EP") /\ Raised("BO")
       /\ <<from, to>> \in {<<"listen", "off">>, <<"off", "passive">>}

Traceable == \A s \in ChannelState : Latest(s) => Moved(s, controller.state)

(* The owner task has still to publish something.                           *)
Stirs ==
  \/ controller.state # edge_state
  \/ Sampled /\ isr.status # edge_state
  \/ \E s \in ChannelState : Holds(queue, s) /\ s # edge_state
  \/ InHand /\ event.status # edge_state

Current(status) == status = edge_state \/ Stirs

(* Whoever has read a state otherwise than from an edge is either level     *)
(* with the last edge, or another edge is to come.                          *)
Levelled ==
  /\ edges # <<>> => edges[Len(edges)] = edge_state
  /\ pc["mcan"] = "edge" => state.last_protocol_status = event.status
  /\ Current(state.last_protocol_status)
  /\ pc["mcan"] = "refresh_store" => Current(sample.status)
  /\ pc["usb"] = "edges" /\ ~Session =>
       Current(diag.status) \/ \E i \in 1..Len(edges) : edges[i] # diag.status
  /\ usb.baseline => usb.channel_state = usb.reported_state
  /\ usb.baseline /\ edges = <<>> /\ (pc["usb"] # "edges" \/ usb.negotiated)
       => Current(usb.reported_state)

(* Nothing asks for a reconciliation.                                       *)
Unreconciled ==
  /\ \A c \in {"diagnostic_queue_drops", "state_edge_drops"} :
       state.drops[c] = 0 /\ diag.drops[c] = 0 /\ usb.reported[c] = 0
  /\ ~usb.reconcile

Followed == history.lost = "never" => Traceable /\ Levelled /\ Unreconciled
-----------------------------------------------------------------------------
(* A queue with samples has a last one.                                     *)
LEMMA FinalExists ==
  ASSUME NEW q \in Seq(Event)
  PROVE  Silent(q) \/ \E s \in ChannelState : Final(q, s)
<1> SUFFICES ASSUME ~Silent(q) PROVE \E s \in ChannelState : Final(q, s)
  OBVIOUS
<1>1. PICK l \in Nat : l = Len(q)
  BY LenProperties
<1> DEFINE notes == {i \in 1..l : Diagnostic(q[i])}
           back  == {n \in 0..l : l - n \in notes}
<1>2. back \in SUBSET Nat /\ back # {}
  <2>1. PICK i \in 1..l : Diagnostic(q[i])
    BY <1>1 DEF Silent
  <2>2. l - i \in 0..l /\ l - (l - i) = i
    BY <2>1
  <2>3. l - i \in back
    BY <2>1, <2>2
  <2>4. back \subseteq 0..l /\ 0..l \subseteq Nat
    OBVIOUS
  <2> HIDE DEF back
  <2>5. QED
    BY <2>3, <2>4
<1>3. PICK n \in back : \A m \in back : ~(m < n)
  <2>1. PICK n \in back : \A m \in back : ~(<<m, n>> \in OpToRel(<, Nat))
    BY <1>2, NatLessThanWellFounded, WFMin
  <2>2. QED
    BY <1>2, <2>1 DEF OpToRel
<1>4. /\ l - n \in 1..l /\ Diagnostic(q[l - n])
      /\ \A j \in (l - n) + 1..l : ~Diagnostic(q[j])
  <2>1. n \in 0..l /\ l - n \in 1..l /\ Diagnostic(q[l - n])
    BY <1>3
  <2>2. ASSUME NEW j \in (l - n) + 1..l, Diagnostic(q[j]) PROVE FALSE
    <3>1. j \in 1..l /\ l - j \in 0..l /\ l - j < n /\ l - (l - j) = j
      BY <2>1, <2>2
    <3>2. l - j \in back
      BY <2>2, <3>1
    <3>3. QED
      BY <1>3, <3>1, <3>2
  <2>3. QED
    BY <2>1, <2>2
<1>5. q[l - n].status \in ChannelState
  <2>1. q[l - n] \in Event
    BY <1>1, <1>4, ElementOfSeq
  <2>2. QED
    BY <1>4, <2>1 DEF Event, Diagnostic
<1>6. QED
  BY <1>1, <1>4, <1>5 DEF Final

LEMMA FinalHeld ==
  ASSUME NEW q \in Seq(Event), NEW s, Final(q, s)
  PROVE  Holds(q, s) /\ ~Silent(q)
BY DEF Final, Holds, Silent

(* The queue grows by frames, or by one sample.                             *)
LEMMA FramesQueued ==
  ASSUME NEW q \in Seq(Event), NEW e \in Seq(Event), Silent(e)
  PROVE  /\ Silent(q \o e) <=> Silent(q)
         /\ \A s \in ChannelState : (Final(q \o e, s) => Final(q, s)) /\ (Holds(q, s) => Holds(q \o e, s))
<1>1. PICK l \in Nat, k \in Nat : l = Len(q) /\ k = Len(e)
  BY LenProperties
<1>2. /\ Len(q \o e) = l + k
      /\ \A i \in 1..l : (q \o e)[i] = q[i]
      /\ \A i \in l + 1..l + k : (q \o e)[i] = e[i - l]
  BY <1>1, ConcatProperties
<1>3. \A i \in l + 1..l + k : ~Diagnostic((q \o e)[i])
  <2>1. \A i \in l + 1..l + k : i - l \in 1..k
    BY <1>1
  <2>2. QED
    BY <1>1, <1>2, <2>1 DEF Silent
<1>4. PICK r : r = q \o e
  OBVIOUS
<1>5. \A i \in 1..l + k : i \in 1..l \/ i \in l + 1..l + k
  BY <1>1
<1>6. \A i \in 1..l : i \in 1..l + k
  BY <1>1
<1>7. Silent(r) <=> Silent(q)
  BY <1>1, <1>2, <1>3, <1>4, <1>5, <1>6 DEF Silent
<1>8. ASSUME NEW s \in ChannelState, Final(r, s) PROVE Final(q, s)
  <2>1. PICK i \in 1..l + k : /\ Diagnostic(r[i]) /\ r[i].status = s
                              /\ \A j \in i + 1..l + k : ~Diagnostic(r[j])
    BY <1>2, <1>4, <1>8 DEF Final
  <2>2. i \in 1..l
    BY <1>3, <1>4, <1>5, <2>1
  <2>3. \A j \in i + 1..l : j \in i + 1..l + k /\ j \in 1..l
    BY <1>1, <2>2
  <2>4. QED
    BY <1>1, <1>2, <1>4, <2>1, <2>2, <2>3 DEF Final
<1>9. ASSUME NEW s \in ChannelState, Holds(q, s) PROVE Holds(r, s)
  BY <1>1, <1>2, <1>4, <1>6, <1>9 DEF Holds
<1>10. QED
  BY <1>4, <1>7, <1>8, <1>9

LEMMA SampleQueued ==
  ASSUME NEW q \in Seq(Event), NEW d \in Event, Diagnostic(d)
  PROVE  /\ ~Silent(q \o <<d>>) /\ Holds(q \o <<d>>, d.status)
         /\ \A s \in ChannelState : /\ Final(q \o <<d>>, s) => s = d.status
                                    /\ Holds(q, s) => Holds(q \o <<d>>, s)
<1>1. PICK l \in Nat : l = Len(q)
  BY LenProperties
<1>2. PICK r : r = q \o <<d>>
  OBVIOUS
<1>3. /\ Len(r) = l + 1 /\ r[l + 1] = d
      /\ \A i \in 1..l : r[i] = q[i]
  <2>1. <<d>> \in Seq(Event) /\ Len(<<d>>) = 1 /\ <<d>>[1] = d
    OBVIOUS
  <2>2. /\ Len(q \o <<d>>) = l + 1
        /\ \A i \in 1..l : (q \o <<d>>)[i] = q[i]
        /\ \A i \in l + 1..l + 1 : (q \o <<d>>)[i] = <<d>>[i - l]
    BY <1>1, <2>1, ConcatProperties
  <2>3. l + 1 \in l + 1..l + 1 /\ l + 1 - l = 1
    BY <1>1
  <2>4. QED
    BY <1>2, <2>1, <2>2, <2>3
<1>4. l + 1 \in 1..l + 1 /\ \A i \in 1..l : i \in 1..l + 1
  BY <1>1
<1>5. ~Silent(r) /\ Holds(r, d.status)
  BY <1>3, <1>4 DEF Silent, Holds
<1>6. ASSUME NEW s \in ChannelState, Final(r, s) PROVE s = d.status
  <2>1. PICK i \in 1..l + 1 : r[i].status = s /\ \A j \in i + 1..l + 1 : ~Diagnostic(r[j])
    BY <1>3, <1>6 DEF Final
  <2>2. i = l + 1 \/ l + 1 \in i + 1..l + 1
    BY <1>1, <2>1
  <2>3. QED
    BY <1>3, <2>1, <2>2
<1>7. ASSUME NEW s \in ChannelState, Holds(q, s) PROVE Holds(r, s)
  BY <1>1, <1>3, <1>4, <1>7 DEF Holds
<1>8. QED
  BY <1>2, <1>5, <1>6, <1>7

(* The owner task takes the first event.                                    *)
LEMMA EventTaken ==
  ASSUME NEW q \in Seq(Event), q # <<>>
  PROVE  /\ Silent(q) <=> ~Diagnostic(Head(q)) /\ Silent(Tail(q))
         /\ \A s \in ChannelState :
              /\ Final(Tail(q), s) => Final(q, s)
              /\ Silent(Tail(q)) /\ Diagnostic(Head(q)) /\ s = Head(q).status => Final(q, s)
              /\ Holds(q, s) => Holds(Tail(q), s) \/ (Diagnostic(Head(q)) /\ Head(q).status = s)
<1>1. PICK l \in Nat : l = Len(q)
  BY LenProperties
<1>2. PICK r, h : r = Tail(q) /\ h = Head(q)
  OBVIOUS
<1>3. /\ l > 0 /\ Len(r) = l - 1 /\ h = q[1]
      /\ \A i \in 1..l - 1 : r[i] = q[i + 1]
  BY <1>1, <1>2, HeadTailProperties, EmptySeq, LenProperties
<1>4. \A i \in 1..l : i = 1 \/ (i - 1 \in 1..l - 1 /\ i - 1 + 1 = i)
  BY <1>1
<1>5. 1 \in 1..l /\ \A i \in 1..l - 1 : i + 1 \in 1..l
  BY <1>1, <1>3
<1>6. Silent(q) <=> ~Diagnostic(h) /\ Silent(r)
  <2>1. ASSUME Silent(q) PROVE ~Diagnostic(h) /\ Silent(r)
    BY <1>1, <1>3, <1>5, <2>1 DEF Silent
  <2>2. ASSUME ~Diagnostic(h), Silent(r), NEW i \in 1..l PROVE ~Diagnostic(q[i])
    <3>1. CASE i = 1
      BY <1>3, <2>2, <3>1
    <3>2. CASE i - 1 \in 1..l - 1 /\ i - 1 + 1 = i
      BY <1>3, <2>2, <3>2 DEF Silent
    <3>3. QED
      BY <1>4, <3>1, <3>2
  <2>3. QED
    BY <1>1, <2>1, <2>2 DEF Silent
<1>7. ASSUME NEW s \in ChannelState, Final(r, s) PROVE Final(q, s)
  <2>1. PICK i \in 1..l - 1 : /\ Diagnostic(r[i]) /\ r[i].status = s
                              /\ \A j \in i + 1..l - 1 : ~Diagnostic(r[j])
    BY <1>3, <1>7 DEF Final
  <2>2. \A j \in i + 1 + 1..l : j - 1 \in i + 1..l - 1 /\ j - 1 \in 1..l - 1 /\ j - 1 + 1 = j
    BY <1>1, <2>1
  <2>3. \A j \in i + 1 + 1..l : ~Diagnostic(q[j])
    BY <1>3, <2>1, <2>2
  <2>4. QED
    BY <1>1, <1>3, <1>5, <2>1, <2>3 DEF Final
<1>8. ASSUME NEW s \in ChannelState, Silent(r), Diagnostic(h), s = h.status PROVE Final(q, s)
  <2>1. \A j \in 1 + 1..l : j - 1 \in 1..l - 1 /\ j - 1 + 1 = j
    BY <1>1
  <2>2. \A j \in 1 + 1..l : ~Diagnostic(q[j])
    BY <1>3, <1>8, <2>1 DEF Silent
  <2>3. QED
    BY <1>1, <1>3, <1>5, <1>8, <2>2 DEF Final
<1>9. ASSUME NEW s \in ChannelState, Holds(q, s)
      PROVE  Holds(r, s) \/ (Diagnostic(h) /\ h.status = s)
  <2>1. PICK i \in 1..l : Diagnostic(q[i]) /\ q[i].status = s
    BY <1>1, <1>9 DEF Holds
  <2>2. CASE i = 1
    BY <1>3, <2>1, <2>2
  <2>3. CASE i - 1 \in 1..l - 1 /\ i - 1 + 1 = i
    <3>1. PICK k \in 1..l - 1 : k = i - 1 /\ k + 1 = i
      BY <2>3
    <3>2. r[k] = q[i]
      BY <1>3, <3>1
    <3>3. QED
      BY <1>3, <2>1, <3>1, <3>2 DEF Holds, Diagnostic
  <2>4. QED
    BY <1>4, <2>2, <2>3
<1>10. QED
  BY <1>2, <1>6, <1>7, <1>8, <1>9
-----------------------------------------------------------------------------
(* Nothing that was lost is found again.                                    *)
LEMMA NotLost ==
  ASSUME Types, NEW lost, Lose(lost), history'.lost = "never"
  PROVE  ~lost /\ history.lost = "never"
BY HistoryParts DEF Lose, Histories

LEMMA LostStays ==
  ASSUME Types, [Next]_vars, history'.lost = "never"
  PROVE  history.lost = "never"
<1> USE HistoryParts DEF Histories
<1>1. CASE history' = history
  BY <1>1
<1>2. ASSUME NEW lost, Lose(lost) PROVE history.lost = "never"
  BY <1>2, NotLost
<1>3. CASE ChooseWait
  BY <1>3 DEF ChooseWait
<1>4. CASE PopRx
  BY <1>4 DEF PopRx
<1>5. CASE Baseline \/ PublishLosses
  BY <1>5 DEF Baseline, PublishLosses
<1>6. CASE PublishStateEdge
  BY <1>1, <1>2, <1>6 DEF PublishStateEdge
<1>7. CASE PopEdge
  BY <1>1, <1>2, <1>7 DEF PopEdge
<1>8. CASE IsrExit
  BY <1>2, <1>8 DEF IsrExit
<1>9. ASSUME NEW new \in ChannelState, Change(new) PROVE history.lost = "never"
  BY <1>2, <1>9 DEF Change
<1>10. CASE \/ FrameArrives \/ OtherFault \/ IsrEnter \/ Receive \/ IdlePoll \/ PublishRx
            \/ CaptureDiagnostics \/ CountQueue \/ Refresh \/ UNCHANGED vars
  BY <1>1, <1>10 DEF FrameArrives, OtherFault, IsrEnter, Receive, IdlePoll, PublishRx,
       CaptureDiagnostics, CountQueue, Refresh, vars
<1>11. CASE Wake \/ CompleteDrain \/ TakeSnapshot
  BY <1>1, <1>11 DEF Wake, CompleteDrain, TakeSnapshot
<1>12. ASSUME NEW task \in Task, SignalCanRx(task) \/ SignalSend(task) \/ SignalFailed(task)
       PROVE  history.lost = "never"
  BY <1>1, <1>12 DEF SignalCanRx, SignalSend, SignalFailed
<1>13. ASSUME NEW type \in {"RESET", "HELLO"}, UsbInterrupt(type) PROVE history.lost = "never"
  BY <1>1, <1>13 DEF UsbInterrupt
<1>14. QED
  BY <1>3, <1>4, <1>5, <1>6, <1>7, <1>8, <1>9, <1>10, <1>11, <1>12, <1>13
     DEF Next, McanTask, UsbTask, Task
-----------------------------------------------------------------------------
(* The samples on their way, and the state they end in.                     *)

(* The parts of a step that matter to the samples.                          *)
SameController ==
  /\ controller'.state = controller.state /\ isr' = isr /\ queue' = queue
  /\ \A flag \in {"EP", "BO"} : flag \in controller'.flags <=> flag \in controller.flags

SameOwner ==
  /\ edge_state' = edge_state /\ (InHand => event' = event)
  /\ InHand' <=> InHand

LEMMA SamplesStay ==
  ASSUME SameController, SameOwner
  PROVE  (Traceable => Traceable') /\ (Stirs => Stirs')
<1>1. /\ Sampled' <=> Sampled
      /\ InHand' <=> InHand
  BY DEF SameController, SameOwner, Sampled
<1>2. \A s : Latest(s)' <=> Latest(s)
  BY <1>1 DEF SameController, SameOwner, Latest
<1>3. (Raised("EP")' <=> Raised("EP")) /\ (Raised("BO")' <=> Raised("BO"))
  BY DEF SameController, Raised
<1>4. \A s : Moved(s, controller.state)' <=> Moved(s, controller.state)
  BY <1>3 DEF SameController, Moved
<1>5. QED
  BY <1>1, <1>2, <1>4 DEF Traceable, Stirs, SameController, SameOwner

(* There is a last sample, and unless it is the state of the last edge the  *)
(* owner task has something to do.                                          *)
LEMMA LatestExists ==
  ASSUME Types
  PROVE  \E s \in ChannelState : Latest(s) /\ (s # edge_state => Stirs)
<1>1. CASE Sampled
  <2>1. isr.status \in ChannelState
    BY DEF Types, Interrupts
  <2>2. QED
    BY <1>1, <2>1 DEF Latest, Stirs
<1>2. CASE ~Sampled /\ Silent(queue)
  <2>1. edge_state \in ChannelState /\ (InHand => event.status \in ChannelState)
    BY DEF Types, InHand, DiagnosticEvent
  <2>2. QED
    BY <1>2, <2>1 DEF Latest, Stirs
<1>3. CASE ~Sampled /\ ~Silent(queue)
  <2>1. PICK s \in ChannelState : Final(queue, s)
    BY <1>3, FinalExists, QueueParts
  <2>2. Holds(queue, s)
    BY <2>1, FinalHeld, QueueParts
  <2>3. QED
    BY <1>3, <2>1, <2>2 DEF Latest, Stirs
<1>4. QED
  BY <1>1, <1>2, <1>3

(* A change of state leaves the last sample where it was, and while it is   *)
(* counted once the controller does not come back to it.                    *)
LEMMA ChangeTraced ==
  ASSUME Types, Traceable, NEW new \in ChannelState, Change(new), history'.lost = "never"
  PROVE  Traceable' /\ (Stirs => Stirs') /\ edge_state' = edge_state
<1> DEFINE flag == IF "off" \in {new, controller.state} THEN "BO" ELSE "EP"
<1>1. /\ new # controller.state /\ <<controller.state, new>> # <<"listen", "off">>
      /\ <<controller.state, new>> # <<"off", "passive">>
      /\ UNCHANGED <<isr, mcan, pc>>
      /\ flag \notin controller.flags /\ flag \notin isr.flags
  <2>1. ~(flag \in controller.flags \cup isr.flags)
    BY NotLost DEF Change
  <2>2. QED
    BY <2>1 DEF Change
<1>2. controller'.state = new /\ controller'.flags = controller.flags \cup {flag}
  BY ControllerParts DEF Change, Controllers
<1>3. PICK f \in {"EP", "BO"} : f = flag
  OBVIOUS
<1>11. f = (IF new = "off" \/ controller.state = "off" THEN "BO" ELSE "EP")
  BY <1>3
<1> HIDE DEF flag
<1>12. /\ isr' = isr /\ f \notin controller.flags /\ f \notin isr.flags
       /\ controller'.flags = controller.flags \cup {f}
  BY <1>1, <1>2, <1>3
<1>13. ~Raised(f) /\ Raised(f)'
  BY <1>12 DEF Raised
<1>4. \A other \in {"EP", "BO"} : other # f => (Raised(other)' <=> Raised(other))
  BY <1>12 DEF Raised
<1>5. \A s \in ChannelState : Latest(s)' <=> Latest(s)
  BY <1>1 DEF Latest, Sampled, InHand, mcan
<1>6. controller.state \in ChannelState
  BY ControllerParts
<1>7. ASSUME NEW s \in ChannelState, Moved(s, controller.state)
      PROVE  Moved(s, controller.state)' /\ s # controller'.state
  <2>1. CASE f = "EP"
    <3>1. ~Raised("EP") /\ Raised("EP")' /\ (Raised("BO")' <=> Raised("BO"))
      BY <1>13, <1>4, <2>1
    <3>2. \/ controller.state = "listen" /\ new = "passive"
          \/ controller.state = "passive" /\ new = "listen"
      BY <1>1, <1>6, <1>11, <2>1 DEF ChannelState
    <3>3. QED
      BY <1>2, <1>7, <3>1, <3>2 DEF Moved
  <2>2. CASE f = "BO"
    <3>1. ~Raised("BO") /\ Raised("BO")' /\ (Raised("EP")' <=> Raised("EP"))
      BY <1>13, <1>4, <2>2
    <3>2. \/ controller.state = "passive" /\ new = "off"
          \/ controller.state = "off" /\ new = "listen"
      BY <1>1, <1>6, <1>11, <2>2 DEF ChannelState
    <3>3. QED
      BY <1>2, <1>7, <3>1, <3>2 DEF Moved
  <2>3. QED
    BY <2>1, <2>2
<1>8. Traceable'
  BY <1>5, <1>7 DEF Traceable
<1>9. Stirs'
  <2>1. PICK s \in ChannelState : Latest(s) /\ (s # edge_state => Stirs)
    BY LatestExists
  <2>2. s # controller'.state
    BY <1>7, <2>1 DEF Traceable
  <2>3. CASE s = edge_state
    BY <1>1, <2>2, <2>3 DEF Stirs, mcan
  <2>4. ASSUME s # edge_state, ~Stirs' PROVE FALSE
    <3>1. \/ Sampled /\ s = isr.status
          \/ Final(queue, s)
          \/ InHand /\ s = event.status
      BY <2>1, <2>4 DEF Latest
    <3>2. Final(queue, s) => Holds(queue, s)
      BY FinalHeld, QueueParts
    <3>3. QED
      BY <1>1, <2>4, <3>1, <3>2 DEF Stirs, Sampled, InHand, mcan
  <2>5. QED
    BY <2>3, <2>4
<1>10. QED
  BY <1>1, <1>8, <1>9 DEF mcan
-----------------------------------------------------------------------------
(* A step of a task leaves the other where it is.                           *)
LEMMA Went ==
  ASSUME Types, NEW task \in Task, NEW place, Goto(task, place)
  PROVE  pc'[task] = place /\ \A other \in Task \ {task} : pc'[other] = pc[other]
BY DEF Types, Places, Goto

(* The interrupt takes the flags, and the state they ended in as its sample.*)
LEMMA IsrEnterTraced ==
  ASSUME Types, Traceable, IsrEnter
  PROVE  Traceable' /\ (Stirs => Stirs') /\ edge_state' = edge_state
<1>1. /\ ~isr.active /\ isr'.active /\ isr'.flags = controller.flags
      /\ isr'.status = controller.state
      /\ UNCHANGED <<edge_state, event, pc>>
  BY DEF IsrEnter
<1>2. controller'.state = controller.state /\ controller'.flags = controller.flags \ {"RX"}
  BY ControllerParts DEF IsrEnter, Controllers
<1>3. /\ Silent(queue') <=> Silent(queue)
      /\ \A s \in ChannelState : /\ Final(queue', s) => Final(queue, s)
                                 /\ Holds(queue, s) => Holds(queue', s)
  <2>1. CASE "RX" \notin controller.flags
    BY <2>1 DEF IsrEnter
  <2>2. CASE "RX" \in controller.flags
    <3> DEFINE events == [i \in 1..Len(controller.fifo) |-> Rx(controller.fifo[i])]
    <3>1. events \in Seq(Event) /\ "rx_queue_drops" \in Counter
      BY RxEvents DEF Counter
    <3>2. EnqueueFromIsr(events, "rx_queue_drops")
      BY <2>2 DEF IsrEnter
    <3>3. \A i \in 1..Len(events) : ~Diagnostic(events[i])
      <4>1. Len(controller.fifo) \in Nat
        BY ControllerParts, LenProperties
      <4>2. Len(events) = Len(controller.fifo)
        BY <4>1
      <4>3. QED
        BY <4>2 DEF Diagnostic, Rx
    <3> HIDE DEF events
    <3>4. PICK k \in 0..Len(events) :
            /\ queue' = queue \o SubSeq(events, 1, k)
            /\ SubSeq(events, 1, k) \in Seq(Event) /\ Len(SubSeq(events, 1, k)) = k
            /\ \A i \in 1..k : SubSeq(events, 1, k)[i] = events[i]
      BY <3>1, <3>2, Enqueued
    <3>5. \A i \in 1..k : i \in 1..Len(events)
      BY <3>1, LenProperties
    <3>6. Silent(SubSeq(events, 1, k))
      BY <3>3, <3>4, <3>5 DEF Silent
    <3>7. PICK e \in Seq(Event) : e = SubSeq(events, 1, k)
      BY <3>4
    <3>8. /\ Silent(queue \o e) <=> Silent(queue)
          /\ \A s \in ChannelState : /\ Final(queue \o e, s) => Final(queue, s)
                                     /\ Holds(queue, s) => Holds(queue \o e, s)
      BY <3>6, <3>7, FramesQueued, QueueParts
    <3>9. QED
      BY <3>4, <3>7, <3>8
  <2>3. QED
    BY <2>1, <2>2
<1>4. ~Raised("EP")' /\ ~Raised("BO")'
  BY <1>1, <1>2 DEF Raised
<1>5. ASSUME NEW s \in ChannelState, Latest(s)' PROVE s = controller.state
  <2>1. CASE Sampled'
    BY <1>1, <1>5, <2>1 DEF Latest
  <2>2. CASE ~Sampled'
    <3>1. ~Raised("EP") /\ ~Raised("BO") /\ ~Sampled
      BY <1>1, <2>2 DEF Sampled, Raised, Fault, Flag
    <3>2. Latest(s)
      BY <1>1, <1>3, <1>5, <2>2, <3>1 DEF Latest, InHand
    <3>3. Moved(s, controller.state)
      BY <3>2 DEF Traceable
    <3>4. QED
      BY <3>1, <3>3 DEF Moved
  <2>3. QED
    BY <2>1, <2>2
<1>6. Traceable'
  BY <1>2, <1>4, <1>5 DEF Traceable, Moved
<1>7. Stirs => Stirs'
  BY <1>1, <1>2, <1>3 DEF Stirs, Sampled, InHand
<1>8. QED
  BY <1>1, <1>6, <1>7

(* It queues the sample, unless it found no room, which would be a loss.    *)
LEMMA IsrExitTraced ==
  ASSUME Types, Traceable, IsrExit, history'.lost = "never"
  PROVE  /\ Traceable' /\ (Stirs => Stirs') /\ edge_state' = edge_state
         /\ \A c \in {"diagnostic_queue_drops", "state_edge_drops"} :
              state'.drops[c] = state.drops[c]
<1>1. isr.active /\ ~isr'.active /\ UNCHANGED <<edge_state, event, pc>>
  BY DEF IsrExit, NoIsr
<1>2. controller'.state = controller.state /\ controller'.flags = controller.flags \ (isr.flags \ {"RX"})
  BY ControllerParts DEF IsrExit, Controllers, ClearFlags
<1>3. (Raised("EP")' <=> Raised("EP")) /\ (Raised("BO")' <=> Raised("BO"))
  BY <1>1, <1>2 DEF Raised
<1>4. PICK events \in Seq(Event) : events = DiagnosticOf(isr)
  BY DiagnosticEvents
<1>5. PICK k \in 0..Len(events) :
        /\ queue' = queue \o SubSeq(events, 1, k)
        /\ SubSeq(events, 1, k) \in Seq(Event) /\ Len(SubSeq(events, 1, k)) = k
        /\ \A i \in 1..k : SubSeq(events, 1, k)[i] = events[i]
        /\ k = Len(events) \/ Len(queue') = QueueLength
        /\ state'.drops["diagnostic_queue_drops"]
             = state.drops["diagnostic_queue_drops"] + (Len(events) - k)
        /\ \A d \in Counter \ {"diagnostic_queue_drops"} : state'.drops[d] = state.drops[d]
  <2>1. EnqueueFromIsr(events, "diagnostic_queue_drops") /\ "diagnostic_queue_drops" \in Counter
    BY <1>4 DEF IsrExit, DiagnosticOf, Counter
  <2>2. QED
    BY <2>1, Enqueued
<1>6. PICK e \in Seq(Event) : e = SubSeq(events, 1, k)
  BY <1>5
<1>7. isr.status \in ChannelState /\ ~Sampled'
  BY <1>1 DEF Types, Interrupts, Sampled
<1>11. k = Len(events) => \A c \in {"diagnostic_queue_drops", "state_edge_drops"} :
                            state'.drops[c] = state.drops[c]
  <2>1. \A c \in {"diagnostic_queue_drops", "state_edge_drops"} :
          c \in Counter /\ state.drops[c] \in Nat
    BY StateParts DEF Counter
  <2>2. Len(events) \in Nat
    BY LenProperties
  <2>3. k = Len(events) => Len(events) - k = 0
    BY <2>2
  <2>4. QED
    BY <1>5, <2>1, <2>3
<1>8. CASE Sampled
  <2>1. PICK d \in Event : d = [type |-> "DIAGNOSTIC", status |-> isr.status]
    BY <1>7 DEF Event
  <2>2. events = <<d>>
    BY <1>4, <1>8, <2>1 DEF DiagnosticOf, Sampled
  <2>3. Len(queue) # QueueLength
    <3>1. ~(isr.flags \cap Fault # {} /\ Len(queue) = QueueLength)
      BY NotLost DEF IsrExit
    <3>2. QED
      BY <1>8, <3>1 DEF Sampled
  <2>4. k = 1
    <3>1. Len(events) = 1 /\ Len(queue) \in Nat
      BY <2>2, QueueParts
    <3>2. Len(queue \o e) = Len(queue) + k
      BY <1>5, <1>6, ConcatProperties, QueueParts
    <3>3. QED
      BY <1>5, <1>6, <2>3, <3>1, <3>2
  <2>5. e = <<d>>
    <3>1. Len(e) = 1 /\ e[1] = d
      BY <1>5, <1>6, <2>2, <2>4
    <3>2. QED
      BY <3>1
  <2>6. queue' = queue \o <<d>>
    BY <1>5, <1>6, <2>5
  <2>7. /\ ~Silent(queue') /\ Holds(queue', isr.status)
        /\ \A s \in ChannelState : /\ Final(queue', s) => s = isr.status
                                   /\ Holds(queue, s) => Holds(queue', s)
    <3>1. Diagnostic(d) /\ d.status = isr.status
      BY <2>1 DEF Diagnostic
    <3>2. QED
      BY <2>6, <3>1, SampleQueued, QueueParts
  <2>8. \A s \in ChannelState : Latest(s)' => Latest(s)
    BY <1>7, <1>8, <2>7 DEF Latest
  <2>9. Traceable'
    BY <1>2, <1>3, <2>8 DEF Traceable, Moved
  <2>10. Stirs => Stirs'
    BY <1>1, <1>2, <1>7, <2>7 DEF Stirs, InHand
  <2>12. k = Len(events)
    BY <2>2, <2>4
  <2>11. QED
    BY <1>1, <1>11, <2>9, <2>10, <2>12
<1>9. CASE ~Sampled
  <2>1. events = <<>> /\ Len(events) = 0 /\ k = 0
    BY <1>1, <1>4, <1>5, <1>9 DEF DiagnosticOf, Sampled
  <2>2. Silent(e)
    BY <1>5, <1>6, <2>1 DEF Silent
  <2>3. /\ Silent(queue') <=> Silent(queue)
        /\ \A s \in ChannelState : /\ Final(queue', s) => Final(queue, s)
                                   /\ Holds(queue, s) => Holds(queue', s)
    <3>1. queue' = queue \o e
      BY <1>5, <1>6
    <3>2. QED
      BY <2>2, <3>1, FramesQueued, QueueParts
  <2>4. \A s \in ChannelState : Latest(s)' => Latest(s)
    BY <1>1, <1>7, <1>9, <2>3 DEF Latest, InHand
  <2>5. Traceable'
    BY <1>2, <1>3, <2>4 DEF Traceable, Moved
  <2>6. Stirs => Stirs'
    BY <1>1, <1>2, <1>9, <2>3 DEF Stirs, InHand
  <2>7. QED
    BY <1>1, <1>11, <2>1, <2>5, <2>6
<1>10. QED
  BY <1>8, <1>9

(* The owner task takes a sample in hand.                                   *)
LEMMA ReceiveTraced ==
  ASSUME Types, Traceable, Receive
  PROVE  Traceable' /\ (Stirs => Stirs') /\ edge_state' = edge_state
<1>1. /\ ~isr.active /\ pc["mcan"] = "receive" /\ queue # <<>>
      /\ event' = Head(queue) /\ queue' = Tail(queue)
      /\ UNCHANGED <<controller, isr, edge_state>>
  BY DEF Receive, At
<1>2. ~Sampled /\ ~Sampled' /\ ~InHand
  BY <1>1 DEF Sampled, InHand
<1>3. InHand' <=> Diagnostic(event')
  <2>1. pc'["mcan"] = IF event'.type = "RX" THEN "publish" ELSE "capture"
    BY Went DEF Receive, Task
  <2>2. event' \in Event
    BY <1>1, HeadTailProperties, QueueParts
  <2>3. QED
    BY <2>1, <2>2 DEF InHand, Event, Diagnostic
<1>4. PICK q, h, r : q \in Seq(Event) /\ q = queue /\ h = Head(q) /\ r = Tail(q)
  BY QueueParts
<1>5. /\ Silent(q) <=> ~Diagnostic(h) /\ Silent(r)
      /\ \A s \in ChannelState :
           /\ Final(r, s) => Final(q, s)
           /\ Silent(r) /\ Diagnostic(h) /\ s = h.status => Final(q, s)
           /\ Holds(q, s) => Holds(r, s) \/ (Diagnostic(h) /\ h.status = s)
  BY <1>1, <1>4, EventTaken
<1>6. queue = q /\ queue' = r /\ event' = h
  BY <1>1, <1>4
<1>7. ASSUME NEW s \in ChannelState, Latest(s)' PROVE Latest(s)
  <2>1. CASE Silent(r) /\ Diagnostic(h)
    <3>1. s = h.status
      BY <1>2, <1>3, <1>6, <1>7, <2>1 DEF Latest
    <3>2. QED
      BY <1>2, <1>5, <1>6, <2>1, <3>1 DEF Latest
  <2>2. CASE Silent(r) /\ ~Diagnostic(h)
    <3>1. s = edge_state
      BY <1>1, <1>2, <1>3, <1>6, <1>7, <2>2 DEF Latest
    <3>2. QED
      BY <1>2, <1>5, <1>6, <2>2, <3>1 DEF Latest
  <2>3. CASE ~Silent(r)
    <3>1. Final(r, s)
      BY <1>2, <1>6, <1>7, <2>3 DEF Latest
    <3>2. QED
      BY <1>2, <1>5, <1>6, <2>3, <3>1 DEF Latest
  <2>4. QED
    BY <2>1, <2>2, <2>3
<1>8. Traceable'
  BY <1>1, <1>7 DEF Traceable, Moved, Raised
<1>9. Stirs => Stirs'
  BY <1>1, <1>2, <1>3, <1>5, <1>6 DEF Stirs
<1>10. QED
  BY <1>1, <1>8, <1>9

(* An edge carries the sample on.                                           *)
LEMMA PublishTraced ==
  ASSUME Types, Traceable, PublishStateEdge, history'.lost = "never"
  PROVE  /\ Traceable'
         /\ edge_state' = event.status
         /\ event.status = edge_state => (Stirs => Stirs') /\ UNCHANGED <<state, edges>>
         /\ event.status # edge_state => edges' = Append(edges, event.status) /\ state' = state
<1>1. /\ ~isr.active /\ pc["mcan"] = "edge" /\ edge_state' = event.status
      /\ UNCHANGED <<controller, isr, queue, event>>
  BY DEF PublishStateEdge, At, NewEdgeState
<1>2. ~Sampled /\ ~Sampled' /\ InHand /\ ~InHand'
  <2>1. pc'["mcan"] = "count"
    BY Went DEF PublishStateEdge, Task
  <2>2. QED
    BY <1>1, <2>1 DEF Sampled, InHand
<1>3. \A s \in ChannelState : Latest(s)' => Latest(s)
  BY <1>1, <1>2 DEF Latest
<1>4. Traceable'
  BY <1>1, <1>3 DEF Traceable, Moved, Raised
<1>5. event.status = edge_state => (Stirs => Stirs')
  BY <1>1, <1>2 DEF Stirs
<1>6. ~Lose(TRUE)
  BY NotLost
<1>7. QED
  BY <1>1, <1>4, <1>5, <1>6 DEF PublishStateEdge

(* While no change is lost, the samples of the owner task and of the        *)
(* interrupt say how the controller came to its state; only an edge brings  *)
(* the owner nearer to it.                                                  *)
LEMMA TracedStep ==
  ASSUME Types, Traceable, [Next]_vars, history'.lost = "never"
  PROVE  /\ Traceable'
         /\ \/ PublishStateEdge /\ event.status # edge_state
            \/ edge_state' = edge_state /\ (Stirs => Stirs')
<1> DEFINE Traced == Traceable' /\ edge_state' = edge_state /\ (Stirs => Stirs')
<1>1. SameController /\ SameOwner => Traced
  BY SamplesStay DEF SameOwner
<1> HIDE DEF Traced
<1>2. CASE FrameArrives \/ OtherFault \/ \E type \in {"RESET", "HELLO"} : UsbInterrupt(type)
  <2>1. /\ controller'.state = controller.state
        /\ \E more \in SUBSET {"RX", "OTHER"} : controller'.flags = controller.flags \cup more
    <3>1. CASE FrameArrives
      BY <3>1, ControllerParts DEF FrameArrives, Controllers
    <3>2. CASE OtherFault
      BY <3>2, ControllerParts DEF OtherFault, Controllers
    <3>3. CASE \E type \in {"RESET", "HELLO"} : UsbInterrupt(type)
      <4>1. controller'.state = controller.state /\ controller'.flags = controller.flags \cup {}
        BY <3>3, ControllerParts DEF UsbInterrupt, Controllers
      <4>2. QED
        BY <4>1
    <3>4. QED
      BY <1>2, <3>1, <3>2, <3>3
  <2>2. UNCHANGED <<isr, queue, edge_state, event, pc>>
    BY <1>2 DEF FrameArrives, OtherFault, UsbInterrupt, mcan
  <2>3. SameController /\ SameOwner
    BY <2>1, <2>2 DEF SameController, SameOwner, InHand
  <2>4. QED
    BY <1>1, <2>3 DEF Traced
<1>3. CASE \E new \in ChannelState : Change(new)
  BY <1>3, ChangeTraced DEF Traced
<1>4. CASE IsrEnter \/ IsrExit
  BY <1>4, IsrEnterTraced, IsrExitTraced DEF Traced
<1>5. CASE Receive
  BY <1>5, ReceiveTraced DEF Traced
<1>6. CASE IdlePoll \/ PublishRx \/ Refresh
  <2>1. /\ UNCHANGED <<controller, isr, queue, edge_state, event>>
        /\ pc["mcan"] \notin {"capture", "edge"} /\ pc'["mcan"] \notin {"capture", "edge"}
    BY <1>6, Went DEF IdlePoll, PublishRx, Refresh, At, mcan, Task
  <2>2. SameController /\ SameOwner
    BY <2>1 DEF SameController, SameOwner, InHand
  <2>3. QED
    BY <1>1, <2>2 DEF Traced
<1>7. CASE CaptureDiagnostics
  <2>1. /\ UNCHANGED <<controller, isr, queue, edge_state, event>>
        /\ pc["mcan"] = "capture" /\ pc'["mcan"] = "edge"
    BY <1>7, Went DEF CaptureDiagnostics, At, Task
  <2>2. SameController /\ SameOwner
    BY <2>1 DEF SameController, SameOwner, InHand
  <2>3. QED
    BY <1>1, <2>2 DEF Traced
<1>8. CASE CountQueue
  <2>1. /\ UNCHANGED <<controller, isr, queue, edge_state>>
        /\ pc["mcan"] = "count" /\ pc'["mcan"] = "refresh"
    BY <1>8, Went DEF CountQueue, At, Task
  <2>2. SameController /\ SameOwner
    BY <2>1 DEF SameController, SameOwner, InHand
  <2>3. QED
    BY <1>1, <2>2 DEF Traced
<1>9. CASE \/ SignalCanRx("mcan") \/ SignalSend("mcan") \/ SignalFailed("mcan")
  <2>1. /\ UNCHANGED <<controller, isr, queue, edge_state, event>>
        /\ pc["mcan"] \notin {"capture", "edge"} /\ pc'["mcan"] \notin {"capture", "edge"}
    BY <1>9, Went DEF SignalCanRx, SignalSend, SignalFailed, SignalReturn, At, mcan, Task
  <2>2. SameController /\ SameOwner
    BY <2>1 DEF SameController, SameOwner, InHand
  <2>3. QED
    BY <1>1, <2>2 DEF Traced
<1>10. CASE UsbTask \/ UNCHANGED vars
  <2>1. /\ UNCHANGED <<controller, isr, queue, edge_state, event>>
    BY <1>10 DEF UsbTask, ChooseWait, Wake, PopRx, CompleteDrain, SignalCanRx, SignalSend,
         SignalFailed, TakeSnapshot, PopEdge, Baseline, PublishLosses, mcan, vars
  <2>2. pc'["mcan"] = pc["mcan"]
    BY <1>10, Went DEF UsbTask, ChooseWait, Wake, PopRx, CompleteDrain, SignalCanRx, SignalSend,
         SignalFailed, TakeSnapshot, PopEdge, Baseline, PublishLosses, vars, Task
  <2>3. SameController /\ SameOwner
    BY <2>1, <2>2 DEF SameController, SameOwner, InHand
  <2>4. QED
    BY <1>1, <2>3 DEF Traced
<1>11. CASE PublishStateEdge
  BY <1>11, PublishTraced DEF Traced
<1>12. QED
  BY <1>2, <1>3, <1>4, <1>5, <1>6, <1>7, <1>8, <1>9, <1>10, <1>11
     DEF Next, McanTask, Traced
-----------------------------------------------------------------------------
(* What the two tasks know of the state of the controller.                  *)

(* The parts of a step that matter to that.                                 *)
SameLevels ==
  /\ UNCHANGED <<edge_state, edges, diag, usb>>
  /\ state'.last_protocol_status = state.last_protocol_status
  /\ \A c \in {"diagnostic_queue_drops", "state_edge_drops"} : state'.drops[c] = state.drops[c]
  /\ pc'["mcan"] = "edge" => pc["mcan"] = "edge" /\ event' = event
  /\ pc'["mcan"] = "refresh_store" => pc["mcan"] = "refresh_store" /\ sample' = sample
  /\ (pc'["usb"] = "edges") <=> (pc["usb"] = "edges")

LEMMA LevelsStay ==
  ASSUME SameLevels, Stirs => Stirs'
  PROVE  (Levelled => Levelled') /\ (Unreconciled => Unreconciled')
<1>1. Session' <=> Session
  BY DEF SameLevels, Session
<1>2. Levelled => Levelled'
  BY <1>1 DEF SameLevels, Levelled, Current
<1>3. QED
  BY <1>2 DEF SameLevels, Unreconciled

(* Every step but those that read a state or an edge.                       *)
LEMMA OtherLevels ==
  ASSUME Types, Traceable, [Next]_vars, history'.lost = "never"
  PROVE  \/ CaptureDiagnostics \/ PublishStateEdge \/ Refresh \/ Wake \/ TakeSnapshot
         \/ PopEdge \/ Baseline \/ PublishLosses \/ SameLevels
<1>1. CASE \/ FrameArrives \/ OtherFault \/ (\E new \in ChannelState : Change(new))
           \/ (\E type \in {"RESET", "HELLO"} : UsbInterrupt(type)) \/ UNCHANGED vars
  <2>1. UNCHANGED <<edge_state, edges, diag, usb, state, pc, event, sample>>
    BY <1>1 DEF FrameArrives, OtherFault, Change, UsbInterrupt, mcan, vars
  <2>2. QED
    BY <2>1 DEF SameLevels
<1>2. CASE IsrEnter \/ IsrExit
  <2>1. UNCHANGED <<edge_state, edges, diag, usb, pc, event, sample>>
    BY <1>2 DEF IsrEnter, IsrExit
  <2>2. \A c \in {"diagnostic_queue_drops", "state_edge_drops"} : state'.drops[c] = state.drops[c]
    <3>1. CASE IsrExit
      BY <3>1, IsrExitTraced
    <3>2. CASE IsrEnter /\ "RX" \notin controller.flags
      BY <3>2 DEF IsrEnter
    <3>3. CASE IsrEnter /\ "RX" \in controller.flags
      <4> DEFINE events == [i \in 1..Len(controller.fifo) |-> Rx(controller.fifo[i])]
      <4>1. events \in Seq(Event) /\ "rx_queue_drops" \in Counter
        BY RxEvents DEF Counter
      <4>2. EnqueueFromIsr(events, "rx_queue_drops")
        BY <3>3 DEF IsrEnter
      <4> HIDE DEF events
      <4>3. \A d \in Counter \ {"rx_queue_drops"} : state'.drops[d] = state.drops[d]
        BY <4>1, <4>2, Enqueued
      <4>4. QED
        BY <4>3 DEF Counter
    <3>4. QED
      BY <1>2, <3>1, <3>2, <3>3
  <2>3. state'.last_protocol_status = state.last_protocol_status
    <3>1. CASE state' = state
      BY <3>1
    <3>2. ASSUME NEW events, NEW c, EnqueueFromIsr(events, c)
          PROVE  state'.last_protocol_status = state.last_protocol_status
      BY <3>2, StateParts DEF EnqueueFromIsr, States
    <3>3. QED
      BY <1>2, <3>1, <3>2 DEF IsrEnter, IsrExit
  <2>4. QED
    BY <2>1, <2>2, <2>3 DEF SameLevels
<1>3. CASE Receive \/ IdlePoll \/ CountQueue \/ PublishRx
  <2>1. UNCHANGED <<edge_state, edges, diag, usb>>
    BY <1>3 DEF Receive, IdlePoll, CountQueue, PublishRx, usb_side, mcan
  <2>2. /\ pc'["mcan"] \notin {"edge", "refresh_store"} /\ pc'["usb"] = pc["usb"]
    BY <1>3, Went DEF Receive, IdlePoll, CountQueue, PublishRx, Task
  <2>3. /\ state'.last_protocol_status = state.last_protocol_status
        /\ \A c \in {"diagnostic_queue_drops", "state_edge_drops"} :
             state'.drops[c] = state.drops[c]
    <3>1. CASE Receive \/ IdlePoll \/ CountQueue
      BY <3>1, StateParts DEF Receive, IdlePoll, CountQueue, mcan, States
    <3>2. CASE PublishRx
      <4>1. CASE state' = state
        BY <4>1
      <4>2. CASE state' = [state EXCEPT !.invalid_frames = @ + 1]
        BY <4>2, StateParts DEF States
      <4>3. CASE state' = [state EXCEPT !.drops["ring_drops"] = @ + 1]
        <5>1. PICK drops \in Count : drops = state.drops
          BY StateParts
        <5>2. state' = [state EXCEPT !.drops = [drops EXCEPT !["ring_drops"] = @ + 1]]
          BY <4>3, <5>1, StateParts DEF States
        <5>3. /\ state'.drops = [drops EXCEPT !["ring_drops"] = @ + 1]
              /\ state'.last_protocol_status = state.last_protocol_status
          BY <5>2, StateParts DEF States
        <5>4. QED
          BY <5>1, <5>3 DEF Count, Counter
      <4>4. QED
        BY <3>2, <4>1, <4>2, <4>3 DEF PublishRx
    <3>3. QED
      BY <1>3, <3>1, <3>2
  <2>4. QED
    BY <2>1, <2>2, <2>3 DEF SameLevels
<1>4. ASSUME NEW task \in Task, SignalCanRx(task) \/ SignalSend(task) \/ SignalFailed(task)
      PROVE  SameLevels
  <2>1. UNCHANGED <<edge_state, edges, diag, usb, state, event, sample>>
    BY <1>4 DEF SignalCanRx, SignalSend, SignalFailed, mcan
  <2>2. /\ pc'[task] \notin {"edge", "refresh_store", "edges"} /\ pc[task] # "edges"
        /\ \A other \in Task \ {task} : pc'[other] = pc[other]
    BY <1>4, Went DEF SignalCanRx, SignalSend, SignalFailed, SignalReturn, At, Task
  <2>3. QED
    BY <2>1, <2>2 DEF SameLevels, Task
<1>5. CASE ChooseWait \/ PopRx \/ CompleteDrain
  <2>1. UNCHANGED <<edge_state, edges, diag, usb, state, event, sample>>
    BY <1>5 DEF ChooseWait, PopRx, CompleteDrain, mcan
  <2>2. pc["usb"] # "edges" /\ pc'["usb"] # "edges" /\ pc'["mcan"] = pc["mcan"]
    BY <1>5, Went DEF ChooseWait, PopRx, CompleteDrain, Recheck, At, Task
  <2>3. QED
    BY <2>1, <2>2 DEF SameLevels
<1>6. QED
  BY <1>1, <1>2, <1>3, <1>4, <1>5 DEF Next, McanTask, UsbTask, Task

(* The USB task takes the first edge.                                       *)
LEMMA EdgeTaken ==
  ASSUME NEW q \in Seq(ChannelState), q # <<>>
  PROVE  /\ Head(q) \in ChannelState
         /\ Tail(q) # <<>> => Tail(q)[Len(Tail(q))] = q[Len(q)]
         /\ Tail(q) = <<>> => Head(q) = q[Len(q)]
         /\ \A i \in 1..Len(q) : q[i] # Head(q) =>
              \E j \in 1..Len(Tail(q)) : Tail(q)[j] = q[i]
<1>1. PICK l \in Nat : l = Len(q)
  BY LenProperties
<1>2. PICK r, h : r = Tail(q) /\ h = Head(q)
  OBVIOUS
<1>3. /\ l > 0 /\ r \in Seq(ChannelState) /\ Len(r) = l - 1 /\ h = q[1]
      /\ \A i \in 1..l - 1 : r[i] = q[i + 1]
  BY <1>1, <1>2, HeadTailProperties, EmptySeq, LenProperties
<1>4. h \in ChannelState
  BY <1>2, HeadTailProperties
<1>5. r # <<>> => r[l - 1] = q[l]
  <2>1. ASSUME r # <<>> PROVE l - 1 \in 1..l - 1 /\ l - 1 + 1 = l
    BY <1>1, <1>3, <2>1, EmptySeq
  <2>2. QED
    BY <1>3, <2>1
<1>6. r = <<>> => l = 1
  <2>1. r = <<>> => Len(r) = 0
    BY EmptySeq
  <2>2. Len(r) = l - 1
    BY <1>3
  <2>3. l - 1 = 0 => l = 1
    OBVIOUS
  <2>4. QED
    BY <2>1, <2>2, <2>3
<1>7. ASSUME NEW i \in 1..l, q[i] # h PROVE \E j \in 1..l - 1 : r[j] = q[i]
  <2>1. i # 1
    BY <1>3, <1>7
  <2>2. PICK j \in 1..l - 1 : j + 1 = i
    <3>1. i - 1 \in 1..l - 1 /\ i - 1 + 1 = i
      BY <1>1, <2>1
    <3>2. QED
      BY <3>1
  <2>3. QED
    BY <1>3, <2>2
<1>8. QED
  BY <1>1, <1>2, <1>3, <1>4, <1>5, <1>6, <1>7

(* An edge is added.                                                        *)
LEMMA EdgeAdded ==
  ASSUME NEW q \in Seq(ChannelState), NEW s \in ChannelState
  PROVE  /\ Append(q, s) # <<>> /\ Append(q, s)[Len(Append(q, s))] = s
         /\ Len(Append(q, s)) \in 1..Len(Append(q, s))
<1>1. PICK l \in Nat : l = Len(q)
  BY LenProperties
<1>2. Append(q, s) \in Seq(ChannelState) /\ Len(Append(q, s)) = l + 1 /\ Append(q, s)[l + 1] = s
  BY <1>1, AppendProperties
<1>3. l + 1 # 0 /\ l + 1 \in 1..l + 1
  BY <1>1
<1>4. QED
  BY <1>2, <1>3, EmptySeq

(* A step that reads a state leaves the reader level, or an edge to come.   *)
LEMMA CaptureLevels ==
  ASSUME Types, Levelled, Unreconciled, CaptureDiagnostics, Stirs => Stirs'
  PROVE  Levelled' /\ Unreconciled'
<1>1. /\ UNCHANGED <<edge_state, edges, diag, usb, event, sample>>
      /\ state'.last_protocol_status = event.status /\ state'.drops = state.drops
  BY StateParts DEF CaptureDiagnostics, usb_side, States
<1>2. pc'["mcan"] = "edge" /\ pc'["usb"] = pc["usb"]
  BY Went DEF CaptureDiagnostics, Task
<1>3. Current(event.status)'
  BY <1>2 DEF Current, Stirs, InHand
<1>4. \A s : Current(s) => (s = edge_state' \/ Stirs')
  BY <1>1 DEF Current
<1>5. Session' <=> Session
  BY <1>1 DEF Session
<1>6. Levelled'
  BY <1>1, <1>2, <1>3, <1>4, <1>5 DEF Levelled, Current
<1>7. QED
  BY <1>1, <1>6 DEF Unreconciled

LEMMA PublishLevels ==
  ASSUME Types, Traceable, Levelled, Unreconciled, PublishStateEdge, history'.lost = "never"
  PROVE  Levelled' /\ Unreconciled'
<1>1. /\ pc["mcan"] = "edge" /\ edge_state' = event.status
      /\ UNCHANGED <<diag, usb, event, sample>>
  BY DEF PublishStateEdge, NewEdgeState, usb_side, At
<1>2. pc'["mcan"] = "count" /\ pc'["usb"] = pc["usb"]
  BY Went DEF PublishStateEdge, Task
<1>3. CASE event.status = edge_state
  <2>1. UNCHANGED <<state, edges, edge_state>> /\ (Stirs => Stirs')
    BY <1>1, <1>3, PublishTraced
  <2>2. SameLevels
    BY <1>1, <1>2, <2>1 DEF SameLevels
  <2>3. QED
    BY <2>1, <2>2, LevelsStay
<1>4. CASE event.status # edge_state
  <2>1. edges' = Append(edges, event.status) /\ state' = state
    BY <1>4, PublishTraced
  <2>2. event.status \in ChannelState /\ edges \in Seq(ChannelState)
    BY <1>1, QueueParts DEF Types, DiagnosticEvent
  <2>3. /\ edges' # <<>> /\ edges'[Len(edges')] = event.status
        /\ Len(edges') \in 1..Len(edges')
    BY <2>1, <2>2, EdgeAdded
  <2>4. Session' <=> Session
    BY <1>1 DEF Session
  <2>5. state.last_protocol_status = event.status
    BY <1>1 DEF Levelled
  <2>6. Levelled'
    BY <1>1, <1>2, <2>1, <2>3, <2>4, <2>5 DEF Levelled, Current
  <2>7. Unreconciled'
    BY <1>1, <2>1 DEF Unreconciled
  <2>8. QED
    BY <2>6, <2>7
<1>5. QED
  BY <1>3, <1>4

LEMMA RefreshLevels ==
  ASSUME Types, Levelled, Unreconciled, Refresh, Stirs => Stirs'
  PROVE  Levelled' /\ Unreconciled'
<1>1. UNCHANGED <<controller, edge_state, edges, diag, usb, event>>
  BY DEF Refresh, usb_side
<1>2. Session' <=> Session
  BY <1>1 DEF Session
<1>3. \A s : Current(s) => (s = edge_state' \/ Stirs')
  BY <1>1 DEF Current
<1>4. CASE At("mcan", "refresh") /\ Goto("mcan", "refresh_status") /\ state' = state
  <2>1. pc'["mcan"] = "refresh_status" /\ pc'["usb"] = pc["usb"]
    BY <1>4, Went DEF Task
  <2>2. SameLevels
    BY <1>1, <1>4, <2>1 DEF SameLevels
  <2>3. QED
    BY <2>2, LevelsStay
<1>5. CASE /\ At("mcan", "refresh_status") /\ Goto("mcan", "refresh_store")
           /\ sample' = [sample EXCEPT !.status = controller.state] /\ state' = state
  <2>1. pc'["mcan"] = "refresh_store" /\ pc'["usb"] = pc["usb"]
    BY <1>5, Went DEF Task
  <2>2. sample'.status = controller.state
    BY <1>5 DEF Types, Samples
  <2>3. Current(sample.status)'
    BY <1>1, <2>2 DEF Current, Stirs
  <2>4. Levelled'
    BY <1>1, <1>2, <1>3, <1>5, <2>1, <2>3 DEF Levelled, Current
  <2>5. QED
    BY <1>1, <1>5, <2>4 DEF Unreconciled
<1>6. CASE /\ At("mcan", "refresh_store") /\ Goto("mcan", "receive")
           /\ state' = [state EXCEPT !.last_protocol_status = sample.status,
                                     !.queue_count = sample.queue_count]
  <2>1. pc["mcan"] = "refresh_store" /\ pc'["mcan"] = "receive" /\ pc'["usb"] = pc["usb"]
    BY <1>6, Went DEF At, Task
  <2>2. state'.last_protocol_status = sample.status /\ state'.drops = state.drops
    BY <1>6, StateParts DEF States
  <2>3. Current(sample.status)
    BY <2>1 DEF Levelled
  <2>4. Levelled'
    BY <1>1, <1>2, <1>3, <2>1, <2>2, <2>3 DEF Levelled, Current
  <2>5. QED
    BY <1>1, <2>2, <2>4 DEF Unreconciled
<1>7. QED
  BY <1>4, <1>5, <1>6 DEF Refresh

LEMMA WakeLevels ==
  ASSUME Types, Levelled, Unreconciled, Wake, Stirs => Stirs'
  PROVE  Levelled' /\ Unreconciled'
<1>1. UNCHANGED <<edge_state, edges, diag, state, event, sample>>
  BY DEF Wake, mcan
<1>2. pc["usb"] # "edges" /\ pc'["usb"] = "pop" /\ pc'["mcan"] = pc["mcan"]
  BY Went DEF Wake, At, Task
<1>3. /\ \/ /\ usb'.baseline = usb.baseline /\ usb'.channel_state = usb.channel_state
            /\ usb'.reported_state = usb.reported_state
         \/ ~usb'.baseline
      /\ usb'.reported = usb.reported /\ (usb'.reconcile => usb.reconcile)
  <2>1. CASE usb' = usb
    BY <2>1
  <2>2. CASE usb' = [usb EXCEPT !.negotiated = TRUE]
    BY <2>2, UsbParts DEF UsbStates
  <2>3. CASE usb' = [usb EXCEPT !.negotiated = FALSE, !.baseline = FALSE,
                                !.reconcile = FALSE, !.channel_state = "listen"]
    BY <2>3, UsbParts DEF UsbStates
  <2>4. usb_queue # <<>> => Head(usb_queue) \in UsbEvent
    BY HeadTailProperties, QueueParts
  <2>5. QED
    BY <2>1, <2>2, <2>3, <2>4 DEF Wake, UsbEvent
<1>5. Levelled'
  BY <1>1, <1>2, <1>3 DEF Levelled, Current
<1>6. QED
  BY <1>1, <1>3, <1>5 DEF Unreconciled

LEMMA SnapshotLevels ==
  ASSUME Types, Levelled, Unreconciled, TakeSnapshot, Stirs => Stirs'
  PROVE  Levelled' /\ Unreconciled'
<1>1. UNCHANGED <<edge_state, edges, usb, state, event, sample>> /\ diag' = Snapshot
  BY DEF TakeSnapshot, mcan
<1>2. pc["usb"] # "edges" /\ pc'["usb"] = "edges" /\ pc'["mcan"] = pc["mcan"]
  BY Went DEF TakeSnapshot, At, Task
<1>3. diag'.status = state.last_protocol_status /\ diag'.drops = state.drops
  BY <1>1 DEF Snapshot
<1>4. Levelled'
  BY <1>1, <1>2, <1>3 DEF Levelled, Current
<1>5. QED
  BY <1>1, <1>3, <1>4 DEF Unreconciled

LEMMA PopEdgeLevels ==
  ASSUME Types, Levelled, Unreconciled, PopEdge, Stirs => Stirs', history'.lost = "never"
  PROVE  Levelled' /\ Unreconciled'
<1>1. /\ pc["usb"] = "edges" /\ edges # <<>> /\ edges' = Tail(edges)
      /\ UNCHANGED <<edge_state, state, diag, event, sample, pc>>
  BY DEF PopEdge, At
<1>2. PICK q, r, h : q \in Seq(ChannelState) /\ q = edges /\ r = Tail(q) /\ h = Head(q)
  BY QueueParts
<1>3. /\ h \in ChannelState
      /\ r # <<>> => r[Len(r)] = q[Len(q)]
      /\ r = <<>> => h = q[Len(q)]
      /\ \A i \in 1..Len(q) : q[i] # h => \E j \in 1..Len(r) : r[j] = q[i]
  BY <1>1, <1>2, EdgeTaken
<1>4. edges = q /\ edges' = r /\ q[Len(q)] = edge_state
  BY <1>1, <1>2 DEF Levelled
<1>5. CASE Session
  <2>1. usb' = [usb EXCEPT !.channel_state = IF h # usb.reported_state THEN h ELSE @,
                           !.reported_state = h]
    BY <1>2, <1>5 DEF PopEdge
  <2>2. /\ usb'.baseline = usb.baseline /\ usb'.negotiated = usb.negotiated
        /\ usb'.reported_state = h /\ usb'.reported = usb.reported
        /\ usb'.reconcile = usb.reconcile
        /\ usb'.channel_state = IF h # usb.reported_state THEN h ELSE usb.channel_state
    BY <2>1, UsbParts DEF UsbStates
  <2>3. Session' /\ usb'.channel_state = usb'.reported_state
    BY <1>5, <2>2 DEF Session, Levelled
  <2>4. Levelled'
    BY <1>1, <1>3, <1>4, <2>2, <2>3 DEF Levelled, Current
  <2>5. QED
    BY <1>1, <2>2, <2>4 DEF Unreconciled
<1>6. CASE ~Session
  <2>1. usb' = usb /\ h = diag.status
    BY <1>2, <1>6, NotLost DEF PopEdge
  <2>2. ~Session' /\ ~(usb.baseline /\ usb.negotiated)
    BY <1>6, <2>1 DEF Session
  <2>3. Current(diag.status) \/ \E i \in 1..Len(r) : r[i] # diag.status
    <3>1. CASE Current(diag.status)
      BY <3>1
    <3>2. CASE \E i \in 1..Len(q) : q[i] # diag.status
      BY <1>3, <2>1, <3>2
    <3>3. QED
      BY <1>1, <1>4, <1>6, <3>1, <3>2 DEF Levelled
  <2>4. Levelled'
    BY <1>1, <1>3, <1>4, <2>1, <2>2, <2>3 DEF Levelled, Current
  <2>5. QED
    BY <1>1, <2>1, <2>4 DEF Unreconciled
<1>7. QED
  BY <1>5, <1>6

LEMMA BaselineLevels ==
  ASSUME Types, Levelled, Unreconciled, Baseline, Stirs => Stirs'
  PROVE  Levelled' /\ Unreconciled'
<1>1. /\ pc["usb"] = "edges" /\ edges = <<>> /\ ~Session
      /\ UNCHANGED <<edge_state, edges, state, diag, event, sample>>
  BY DEF Baseline, mcan, At
<1>2. pc'["usb"] = "top" /\ pc'["mcan"] = pc["mcan"]
  BY Went DEF Baseline, Task
<1>3. /\ usb'.reported_state = diag.status /\ usb'.channel_state = diag.status
      /\ usb'.reported = diag.drops /\ ~usb'.reconcile
  BY UsbParts DEF Baseline, ReportedDrops, UsbStates
<1>4. Current(diag.status)
  <2>1. ~\E i \in 1..Len(edges) : edges[i] # diag.status
    BY <1>1
  <2>2. QED
    BY <1>1, <2>1 DEF Levelled
<1>5. Levelled'
  BY <1>1, <1>2, <1>3, <1>4 DEF Levelled, Current
<1>6. QED
  BY <1>1, <1>3, <1>5 DEF Unreconciled

LEMMA LossesLevels ==
  ASSUME Types, Levelled, Unreconciled, PublishLosses, Stirs => Stirs'
  PROVE  Levelled' /\ Unreconciled'
<1>1. /\ pc["usb"] = "edges" /\ edges = <<>> /\ Session
      /\ UNCHANGED <<edge_state, edges, state, diag, event, sample>>
  BY DEF PublishLosses, mcan, At
<1>2. pc'["usb"] = "top" /\ pc'["mcan"] = pc["mcan"]
  BY Went DEF PublishLosses, Task
<1>3. /\ ~usb.reconcile /\ ~(New("diagnostic_queue_drops") # 0)
      /\ ~(New("state_edge_drops") # 0)
  BY DEF Unreconciled, New
<1>4. /\ usb'.reported_state = usb.reported_state /\ usb'.channel_state = usb.channel_state
      /\ usb'.baseline = usb.baseline /\ usb'.negotiated = usb.negotiated
      /\ usb'.reported = diag.drops /\ ~usb'.reconcile
  <2> DEFINE pending == usb.reconcile \/ New("diagnostic_queue_drops") # 0
                                      \/ New("state_edge_drops") # 0
             now     == pending /\ diag.queue_count = 0
  <2>1. ~pending /\ ~now
    BY <1>3
  <2>2. usb' = [usb EXCEPT
                  !.reconcile = pending /\ ~now, !.reported = diag.drops,
                  !.channel_state = IF now /\ diag.status # usb.reported_state
                                    THEN diag.status ELSE @,
                  !.reported_state = IF now THEN diag.status ELSE @]
    BY DEF PublishLosses, ReportedDrops
  <2> HIDE DEF pending, now
  <2>3. QED
    BY <2>1, <2>2, UsbParts DEF UsbStates
<1>5. Current(usb.reported_state)
  BY <1>1 DEF Levelled, Session
<1>6. Levelled'
  BY <1>1, <1>2, <1>4, <1>5 DEF Levelled, Current
<1>7. QED
  BY <1>1, <1>4, <1>6 DEF Unreconciled
-----------------------------------------------------------------------------
(* Followed is inductive, given the types.                                  *)
LEMMA InitFollowed == Init => Followed
<1> SUFFICES ASSUME Init PROVE Followed
  OBVIOUS
<1>1. /\ controller.state = "listen" /\ controller.flags = {} /\ ~isr.active
      /\ queue = <<>> /\ edges = <<>> /\ edge_state = "listen"
      /\ state.last_protocol_status = "listen" /\ diag.status = "listen"
      /\ pc["mcan"] = "receive" /\ pc["usb"] = "top"
      /\ usb.reported_state = "listen" /\ usb.channel_state = "listen" /\ ~usb.reconcile
  BY DEF Init, NoIsr, Snapshot, Task
<1>2. Silent(queue) /\ ~Sampled /\ ~InHand
  BY <1>1 DEF Silent, Sampled, InHand
<1>3. Traceable
  BY <1>1, <1>2 DEF Traceable, Latest, Moved, Raised
<1>4. Levelled
  BY <1>1 DEF Levelled, Current
<1>5. Unreconciled
  <2>1. \A c \in {"diagnostic_queue_drops", "state_edge_drops"} : c \in Counter
    BY DEF Counter
  <2>2. QED
    BY <1>1, <2>1 DEF Unreconciled, Init, Snapshot
<1>6. QED
  BY <1>3, <1>4, <1>5 DEF Followed

LEMMA FollowedStep == Types /\ Followed /\ [Next]_vars => Followed'
<1> SUFFICES ASSUME Types, Followed, [Next]_vars, history'.lost = "never"
             PROVE  Traceable' /\ Levelled' /\ Unreconciled'
  BY DEF Followed
<1>1. Traceable /\ Levelled /\ Unreconciled
  BY LostStays DEF Followed
<1>2. Traceable'
  BY <1>1, TracedStep
<1>3. CASE PublishStateEdge
  BY <1>1, <1>2, <1>3, PublishLevels
<1>4. CASE ~PublishStateEdge
  <2>1. Stirs => Stirs'
    BY <1>1, <1>4, TracedStep
  <2>2. Levelled' /\ Unreconciled'
    BY <1>1, <1>4, <2>1, OtherLevels, LevelsStay, CaptureLevels, RefreshLevels, WakeLevels,
       SnapshotLevels, PopEdgeLevels, BaselineLevels, LossesLevels
  <2>3. QED
    BY <1>2, <2>2
<1>5. QED
  BY <1>3, <1>4
-----------------------------------------------------------------------------
(* The theorems.                                                            *)

LEMMA Invariant == Spec => []IInv
<1>1. IInv /\ [Next]_vars => IInv'
  <2> SUFFICES ASSUME IInv, [Next]_vars PROVE IInv'
    OBVIOUS
  <2>1. Types' /\ Reports' /\ Woken'
    BY TypesStep, ReportsStep, WokenStep DEF IInv
  <2>2. FramesAccounted' /\ Arrived'
    BY <2>1, AccountsStep
  <2>3. QED
    BY <2>1, <2>2 DEF IInv
<1>2. QED
  BY <1>1, InitInvariant, PTL DEF Spec

(* No variable leaves its type; only the accounts bound the count of the    *)
(* invalid frames, by the frames that have arrived.                         *)
THEOREM TypeCorrect == Spec => []TypeOK
<1>1. IInv => TypeOK
  <2> SUFFICES ASSUME IInv PROVE TypeOK
    OBVIOUS
  <2>1. Types /\ Reports /\ FramesAccounted
    BY DEF IInv
  <2>2. state.invalid_frames \in 0..MaxInputs
    <3>1. "rx_queue_drops" \in Counter /\ "ring_drops" \in Counter
      BY DEF Counter
    <3>2. PICK i \in Nat, t \in Nat, g \in Nat :
            i = state.invalid_frames /\ t = history.told /\ g = history.forgiven
      BY <2>1, StateParts, HistoryParts
    <3>3. PICK a \in Nat, b \in Nat :
            a = state.drops["rx_queue_drops"] /\ b = state.drops["ring_drops"]
      BY <2>1, <3>1, StateParts
    <3>4. PICK u \in Nat, v \in Nat :
            u = usb.reported["rx_queue_drops"] /\ v = usb.reported["ring_drops"]
      BY <2>1, <3>1, UsbParts
    <3>5. u <= a /\ v <= b
      <4>1. \A c \in Counter : /\ usb.reported[c] <= diag.drops[c]
                               /\ diag.drops[c] <= state.drops[c]
                               /\ diag.drops[c] \in Nat
        BY <2>1, DiagParts DEF Reports
      <4>2. QED
        BY <3>1, <3>3, <3>4, <4>1
    <3>6. PICK f \in Nat : f = Frames(Path)
      BY <2>1, AccountsNow
    <3>7. f + (i + t + g + (a - u) + (b - v)) = controller.frames
      BY <2>1, <3>2, <3>3, <3>4, <3>6, AccountsNow DEF Gone, Unreported
    <3>8. PICK n \in Nat : n = controller.frames /\ n <= MaxInputs
      BY <2>1, ControllerParts, CanAssumption
    <3>9. QED
      BY <3>2, <3>5, <3>7, <3>8, CanAssumption
  <2>3. state \in [last_protocol_status: ChannelState, queue_count: 0..QueueLength,
                   drops: [Counter -> Nat], invalid_frames: 0..MaxInputs]
    BY <2>1, <2>2, StateParts DEF States, Count
  <2>4. usb \in [negotiated: BOOLEAN, baseline: BOOLEAN, reconcile: BOOLEAN,
                 reported: [Counter -> Nat], reported_state: ChannelState,
                 channel_state: ChannelState]
    BY <2>1 DEF Types, UsbStates, Count
  <2>5. controller.state \in ChannelState /\ controller.flags \subseteq Flag
        /\ controller.fifo \in Seq(Frame)
    BY <2>1, ControllerParts
  <2>6. QED
    BY <2>1, <2>3, <2>4, <2>5 DEF Types, TypeOK, Interrupts, Samples, Places
<1>2. QED
  BY <1>1, Invariant, PTL

(* From the receive FIFO to the session no frame is doubled or overtaken,   *)
(* and each one that is missing is told as lost exactly once, forgiven by a *)
(* new session's baseline, waits in a counter, or was counted as invalid.   *)
THEOREM FramesAccountedFor == Spec => []FramesAccounted
<1>1. IInv => FramesAccounted
  BY DEF IInv
<1>2. QED
  BY <1>1, Invariant, PTL

(* The USB task never waits while the ring holds frames and no wake-up is   *)
(* in its queue or on the way, and no frame sits in the FIFO without an     *)
(* interrupt to come.                                                       *)
THEOREM WakeupNotLost == Spec => []NoLostWakeup
<1>1. IInv => NoLostWakeup
  BY DEF IInv, Woken, NoLostWakeup
<1>2. QED
  BY <1>1, Invariant, PTL

(* Unless a step of the controller's state is lost, the session has the     *)
(* controller's state whenever nothing is left to do.                       *)
THEOREM EdgesFollowed == Spec => []EdgesReachSession
<1>1. Types /\ Followed => EdgesReachSession
  <2> SUFFICES ASSUME Types, Followed, Quiet, Session, history.lost = "never" PROVE Agrees
    BY DEF EdgesReachSession
  <2>1. Traceable /\ Levelled
    BY DEF Followed
  <2>2. /\ ~isr.active /\ controller.flags = {} /\ queue = <<>> /\ edges = <<>>
        /\ pc["mcan"] = "receive" /\ pc["usb"] # "edges"
    BY DEF Quiet
  <2>3. ~Sampled /\ ~InHand /\ Silent(queue) /\ ~Raised("EP") /\ ~Raised("BO")
        /\ \A s \in ChannelState : ~Holds(queue, s)
    BY <2>2 DEF Sampled, InHand, Silent, Raised, Holds
  <2>4. edge_state \in ChannelState /\ Latest(edge_state)
    BY <2>3 DEF Types, Latest
  <2>5. edge_state = controller.state
    BY <2>1, <2>3, <2>4 DEF Traceable, Moved
  <2>6. ~Stirs
    BY <2>3, <2>5 DEF Stirs
  <2>7. usb.channel_state = edge_state
    BY <2>1, <2>2, <2>6 DEF Levelled, Current, Session
  <2>8. QED
    BY <2>5, <2>7 DEF Agrees
<1>2. IInv => Types
  BY DEF IInv
<1>3. Spec => []Followed
  BY <1>2, InitFollowed, FollowedStep, Invariant, PTL DEF Spec
<1>4. QED
  BY <1>1, <1>2, <1>3, Invariant, PTL
=============================================================================
