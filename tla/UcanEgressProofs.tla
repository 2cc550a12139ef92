-------------------------- MODULE UcanEgressProofs --------------------------
(***************************************************************************)
(* Proofs about UcanEgress for every capacity and any number of calls: its *)
(* types and bounds; the order of events in the queues and at the host;    *)
(* that it implements EventStream; and that every gap is explained once,   *)
(* every result delivered once, and no edge overtakes another.             *)
(***************************************************************************)
EXTENDS UcanEgress, SequenceTheorems, FiniteSetTheorems, TLAPS

-----------------------------------------------------------------------------
(* Lemmas about the helpers.                                                *)

(* A frame record with a new sequence number is a frame.                    *)
LEMMA FrameExcept ==
  ASSUME NEW f \in Frame, NEW n \in Nat
  PROVE  /\ [f EXCEPT !.seq = n] \in Frame
         /\ [f EXCEPT !.seq = n].seq = n
BY DEF Frame

(* Stamped gives the first n frames consecutive sequences above the base.   *)
LEMMA StampedFrames ==
  ASSUME NEW due \in Seq(Frame), NEW n \in 0..Len(due), NEW base \in Nat
  PROVE  /\ Stamped(due, n, base) \in Seq(Frame)
         /\ Len(Stamped(due, n, base)) = n
         /\ \A k \in 1..n : Stamped(due, n, base)[k].seq = base + k
<1>1. \A k \in 1..n : due[k] \in Frame /\ base + k \in Nat
  BY ElementOfSeq
<1>2. \A k \in 1..n : /\ [due[k] EXCEPT !.seq = base + k] \in Frame
                      /\ [due[k] EXCEPT !.seq = base + k].seq = base + k
  BY <1>1, FrameExcept
<1>3. Stamped(due, n, base) \in [1..n -> Frame]
  BY <1>2 DEF Stamped
<1>4. n \in Nat
  OBVIOUS
<1>5. Stamped(due, n, base) \in Seq(Frame) /\ Len(Stamped(due, n, base)) = n
  BY <1>3, <1>4, SeqDef, LenProperties
<1>6. QED
  BY <1>2, <1>5 DEF Stamped

(* Wherever the cut is, the two rings hold the whole FIFO.                  *)
LEMMA RingsWhole ==
  ASSUME NEW fifo \in Seq(Frame), NEW cut \in 0..Len(fifo)
  PROVE  /\ Rings(fifo, cut).primary \in Seq(Frame)
         /\ Rings(fifo, cut).pending \in Seq(Frame)
         /\ Len(Rings(fifo, cut).primary) = cut
         /\ Len(Rings(fifo, cut).pending) = Len(fifo) - cut
         /\ Rings(fifo, cut).primary \o Rings(fifo, cut).pending = fifo
<1>1. Len(fifo) \in Nat /\ cut \in Nat /\ cut <= Len(fifo)
  BY LenProperties
<1>2. \A i \in 1..Len(fifo) : fifo[i] \in Frame
  BY ElementOfSeq
<1>3. /\ SubSeq(fifo, 1, cut) \in Seq(Frame)
      /\ Len(SubSeq(fifo, 1, cut)) = IF 1 <= cut THEN cut - 1 + 1 ELSE 0
  BY <1>1, <1>2, SubSeqProperties
<1>4. /\ SubSeq(fifo, cut + 1, Len(fifo)) \in Seq(Frame)
      /\ Len(SubSeq(fifo, cut + 1, Len(fifo)))
           = IF cut + 1 <= Len(fifo) THEN Len(fifo) - (cut + 1) + 1 ELSE 0
  BY <1>1, <1>2, SubSeqProperties
<1>5. SubSeq(fifo, 1, cut) \o SubSeq(fifo, cut + 1, Len(fifo)) = SubSeq(fifo, 1, Len(fifo))
  <2>1. /\ 1 \in 1..Len(fifo) + 1
        /\ cut \in 1 - 1..Len(fifo)
        /\ Len(fifo) \in cut..Len(fifo)
    BY <1>1
  <2>2. QED
    BY <2>1, ConcatAdjacentSubSeq, Zenon
<1>6. SubSeq(fifo, 1, Len(fifo)) = fifo
  BY SubSeqFull
<1>7. /\ Rings(fifo, cut).primary = SubSeq(fifo, 1, cut)
      /\ Rings(fifo, cut).pending = SubSeq(fifo, cut + 1, Len(fifo))
  BY Zenon DEF Rings
<1>8. /\ Len(SubSeq(fifo, 1, cut)) = cut
      /\ Len(SubSeq(fifo, cut + 1, Len(fifo))) = Len(fifo) - cut
  BY <1>1, <1>3, <1>4
<1>9. QED
  BY <1>3, <1>4, <1>5, <1>6, <1>7, <1>8, Zenon

(* The order in which a loop visits a finite set of indices is a sequence.  *)
LEMMA AscendingSeq ==
  ASSUME NEW m \in Nat, NEW S \in SUBSET (1..m), NEW order \in Ascending(S)
  PROVE  /\ order \in Seq(S)
         /\ Len(order) \in Nat
         /\ \A k \in 1..Len(order) : order[k] \in S
<1>1. IsFiniteSet(S)
  BY FS_Interval, FS_Subset, 1 \in Int, m \in Int
<1>2. Cardinality(S) \in Nat
  BY <1>1, FS_CardinalityType
<1>3. order \in [1..Cardinality(S) -> S]
  BY DEF Ascending
<1>4. order \in Seq(S)
  BY <1>2, <1>3, SeqDef
<1>5. QED
  BY <1>4, LenProperties, ElementOfSeq

(* What Emit asks for and what it gets.                                     *)
LEMMA AdmittedBounds ==
  ASSUME TypeOK, NEW due \in Seq(Frame)
  PROVE  /\ CriticalRoom \in Nat
         /\ Admitted(due) \in 0..Len(due)
         /\ Admitted(due) <= CriticalRoom
<1>1. Len(q_critical) \in Nat /\ Len(q_critical_pending) \in Nat /\ Len(due) \in Nat
  BY LenProperties DEF TypeOK
<1>2. QED
  BY <1>1, EgressAssumption DEF TypeOK, CriticalRoom, Admitted, Lesser

(* The frames that enqueue_critical takes end up behind all that wait, and  *)
(* neither ring grows past its capacity.                                    *)
LEMMA EnqueueCriticalAppends ==
  ASSUME TypeOK, NEW frames \in Seq(Frame), Len(frames) <= CriticalRoom
  PROVE  /\ EnqueueCritical(frames).primary \in Seq(Frame)
         /\ EnqueueCritical(frames).pending \in Seq(Frame)
         /\ Len(EnqueueCritical(frames).primary) <= CriticalCap
         /\ Len(EnqueueCritical(frames).pending) <= CriticalCap
         /\ EnqueueCritical(frames).primary \o EnqueueCritical(frames).pending
              = Critical \o frames
<1> DEFINE p    == Len(q_critical)
           r    == Len(q_critical_pending)
           n    == Len(frames)
           cut  == IF q_critical_pending = <<>>
                   THEN Lesser(CriticalCap, p + n)
                   ELSE p + Greater(0, r + n - CriticalCap)
           fifo == q_critical \o q_critical_pending \o frames
<1>1. /\ q_critical \in Seq(Frame) /\ q_critical_pending \in Seq(Frame)
      /\ p <= CriticalCap /\ r <= CriticalCap
  BY DEF TypeOK
<1>2. p \in Nat /\ r \in Nat /\ n \in Nat
  BY <1>1, LenProperties
<1>3. q_critical_pending = <<>> => r = 0
  BY <1>1, EmptySeq
<1>4. CriticalCap \in Nat \ {0} /\ p + r + n <= 2 * CriticalCap
  BY <1>2, EgressAssumption DEF CriticalRoom
<1>5. /\ q_critical \o q_critical_pending \in Seq(Frame)
      /\ Len(q_critical \o q_critical_pending) = p + r
  BY <1>1, ConcatProperties
<1>6. fifo \in Seq(Frame) /\ Len(fifo) = p + r + n
  BY <1>5, ConcatProperties
<1>7. cut \in 0..p + r + n /\ cut <= CriticalCap /\ p + r + n - cut <= CriticalCap
  <2>1. CASE q_critical_pending = <<>>
    <3>1. r = 0 /\ cut = Lesser(CriticalCap, p + n)
      BY <2>1, <1>3
    <3>2. QED
      BY <3>1, <1>1, <1>2, <1>4 DEF Lesser
  <2>2. CASE q_critical_pending # <<>>
    <3>1. cut = p + Greater(0, r + n - CriticalCap)
      BY <2>2
    <3>2. QED
      BY <3>1, <1>1, <1>2, <1>4 DEF Greater
  <2>3. QED
    BY <2>1, <2>2
<1>8. EnqueueCritical(frames) = Rings(fifo, cut)
  BY DEF EnqueueCritical
<1>9. cut \in 0..Len(fifo) /\ Len(fifo) - cut <= CriticalCap
  BY <1>6, <1>7
<1> HIDE DEF fifo, cut
<1>10. /\ Rings(fifo, cut).primary \in Seq(Frame)
       /\ Rings(fifo, cut).pending \in Seq(Frame)
       /\ Len(Rings(fifo, cut).primary) = cut
       /\ Len(Rings(fifo, cut).pending) = Len(fifo) - cut
       /\ Rings(fifo, cut).primary \o Rings(fifo, cut).pending = fifo
  BY <1>6, <1>9, RingsWhole
<1>11. QED
  BY <1>7, <1>8, <1>9, <1>10 DEF fifo, Critical

(* The part of TypeOK that an emission disturbs.                            *)
CriticalOK ==
  /\ q_critical \in Seq(Frame)
  /\ q_critical_pending \in Seq(Frame)
  /\ Len(q_critical) <= CriticalCap
  /\ Len(q_critical_pending) <= CriticalCap
  /\ device_event_sequence \in Nat

(* Emit appends the frames it admits, stamped, to the critical FIFO.        *)
LEMMA EmitAppends ==
  ASSUME TypeOK, NEW due \in Seq(Frame), NEW base \in Nat, Emit(due, base)
  PROVE  /\ CriticalOK'
         /\ device_event_sequence' = base + Admitted(due)
         /\ Critical' = Critical \o Stamped(due, Admitted(due), base)
<1> DEFINE n == Admitted(due)
           frames == Stamped(due, n, base)
<1>1. n \in 0..Len(due) /\ n <= CriticalRoom /\ Len(due) \in Nat
  BY AdmittedBounds, LenProperties
<1>2. frames \in Seq(Frame) /\ Len(frames) = n
  BY <1>1, StampedFrames
<1>3. /\ q_critical' = EnqueueCritical(frames).primary
      /\ q_critical_pending' = EnqueueCritical(frames).pending
      /\ device_event_sequence' = base + n
  BY DEF Emit
<1> HIDE DEF frames, n
<1>4. Len(frames) <= CriticalRoom
  BY <1>1, <1>2
<1>5. /\ q_critical' \in Seq(Frame) /\ q_critical_pending' \in Seq(Frame)
      /\ Len(q_critical') <= CriticalCap /\ Len(q_critical_pending') <= CriticalCap
      /\ q_critical' \o q_critical_pending' = Critical \o frames
  BY <1>2, <1>3, <1>4, EnqueueCriticalAppends
<1>6. base + n \in Nat
  BY <1>1
<1>7. QED
  BY <1>3, <1>5, <1>6 DEF CriticalOK, Critical, frames, n
-----------------------------------------------------------------------------
(* The order of events.                                                     *)

(* Frames stamped above all that a queue holds extend its order.            *)
LEMMA WithinAppends ==
  ASSUME NEW f \in Seq(Frame), NEW g \in Seq(Frame),
         NEW lo \in Nat, NEW hi \in Nat, NEW base \in Nat,
         lo <= hi, hi <= base, Within(f, lo, hi),
         \A k \in 1..Len(g) : g[k].seq = base + k
  PROVE  Within(f \o g, lo, base + Len(g))
<1>1. Len(f) \in Nat /\ Len(g) \in Nat
  BY LenProperties
<1>2. Len(f \o g) = Len(f) + Len(g)
  BY ConcatProperties
<1>3. \A i \in 1..Len(f) + Len(g) :
        (f \o g)[i] = IF i <= Len(f) THEN f[i] ELSE g[i - Len(f)]
  BY ConcatProperties
<1>4. \A i \in 1..Len(f) : f[i].seq \in Nat
  <2>1. \A i \in 1..Len(f) : f[i] \in Frame
    BY ElementOfSeq
  <2>2. QED
    BY <2>1 DEF Frame
<1>5. \A i \in 1..Len(f) + Len(g) :
        \/ i <= Len(f) /\ (f \o g)[i].seq = f[i].seq
        \/ i > Len(f) /\ (f \o g)[i].seq = base + (i - Len(f))
  BY <1>1, <1>3
<1>6. \A i \in 1..Len(f) : lo < f[i].seq /\ f[i].seq <= hi
  BY DEF Within
<1>7. Increasing(f \o g)
  <2>1. SUFFICES ASSUME NEW i \in 1..Len(f) + Len(g), NEW j \in 1..Len(f) + Len(g), i < j
                 PROVE  (f \o g)[i].seq < (f \o g)[j].seq
    BY <1>2 DEF Increasing
  <2>2. CASE j <= Len(f)
    <3>1. i \in 1..Len(f) /\ j \in 1..Len(f)
      BY <2>1, <2>2, <1>1
    <3>2. f[i].seq < f[j].seq
      BY <2>1, <3>1 DEF Within, Increasing
    <3>3. QED
      BY <3>1, <3>2, <1>1, <1>5
  <2>3. CASE i <= Len(f) /\ j > Len(f)
    <3>1. i \in 1..Len(f) /\ j - Len(f) > 0
      BY <2>1, <2>3, <1>1
    <3>2. f[i].seq <= hi /\ f[i].seq \in Nat
      BY <3>1, <1>4, <1>6
    <3>3. (f \o g)[i].seq = f[i].seq /\ (f \o g)[j].seq = base + (j - Len(f))
      BY <2>3, <1>1, <1>5
    <3>4. QED
      BY <3>1, <3>2, <3>3, <1>1
  <2>4. CASE i > Len(f)
    BY <2>1, <2>4, <1>1, <1>5
  <2>5. QED
    BY <2>2, <2>3, <2>4, <1>1
<1>8. ASSUME NEW i \in 1..Len(f) + Len(g)
      PROVE  lo < (f \o g)[i].seq /\ (f \o g)[i].seq <= base + Len(g)
  <2>1. CASE i <= Len(f)
    <3>1. i \in 1..Len(f) /\ (f \o g)[i].seq = f[i].seq
      BY <2>1, <1>1, <1>5
    <3>2. QED
      BY <3>1, <1>1, <1>4, <1>6
  <2>2. CASE i > Len(f)
    BY <2>2, <1>1, <1>5
  <2>3. QED
    BY <2>1, <2>2, <1>1
<1>9. QED
  BY <1>2, <1>7, <1>8 DEF Within

(* What EventOrder says, of any two queues and any bounds.                  *)
Ordered(c, d, lo, hi) ==
  /\ lo <= hi
  /\ Within(c, lo, hi)
  /\ Within(d, lo, hi)
  /\ \A i \in 1..Len(c), j \in 1..Len(d) : c[i].seq # d[j].seq

(* The two queues play the same part.                                       *)
LEMMA OrderedSymmetric ==
  ASSUME NEW c \in Seq(Frame), NEW d \in Seq(Frame), NEW lo, NEW hi,
         Ordered(c, d, lo, hi)
  PROVE  Ordered(d, c, lo, hi)
BY Zenon DEF Ordered

(* New frames behind one queue, stamped above everything, keep the order.   *)
LEMMA OrderedAppends ==
  ASSUME NEW c \in Seq(Frame), NEW d \in Seq(Frame), NEW g \in Seq(Frame),
         NEW lo \in Nat, NEW hi \in Nat, NEW base \in Nat,
         hi <= base, Ordered(c, d, lo, hi),
         \A k \in 1..Len(g) : g[k].seq = base + k
  PROVE  Ordered(c \o g, d, lo, base + Len(g))
<1>1. Len(c) \in Nat /\ Len(d) \in Nat /\ Len(g) \in Nat
  BY LenProperties
<1>2. lo <= hi /\ Within(c, lo, hi) /\ Within(d, lo, hi)
  BY DEF Ordered
<1>3. Within(c \o g, lo, base + Len(g))
  BY <1>2, WithinAppends
<1>4. \A j \in 1..Len(d) : d[j].seq \in Nat /\ lo < d[j].seq /\ d[j].seq <= hi
  <2>1. \A j \in 1..Len(d) : d[j] \in Frame
    BY ElementOfSeq
  <2>2. QED
    BY <2>1, <1>2 DEF Frame, Within
<1>5. Within(d, lo, base + Len(g))
  BY <1>1, <1>2, <1>4 DEF Within
<1>6. ASSUME NEW i \in 1..Len(c \o g), NEW j \in 1..Len(d)
      PROVE  (c \o g)[i].seq # d[j].seq
  <2>1. i \in 1..Len(c) + Len(g)
    BY ConcatProperties
  <2>2. CASE i <= Len(c)
    <3>1. i \in 1..Len(c) /\ (c \o g)[i] = c[i]
      BY <2>1, <2>2, <1>1, ConcatProperties
    <3>2. QED
      BY <3>1 DEF Ordered
  <2>3. CASE i > Len(c)
    <3>1. i - Len(c) \in 1..Len(g)
      BY <2>1, <2>3, <1>1
    <3>2. (c \o g)[i] = g[i - Len(c)]
      BY <2>1, <2>3, <1>1, ConcatProperties
    <3>3. (c \o g)[i].seq = base + (i - Len(c))
      BY <3>1, <3>2
    <3>4. QED
      BY <3>1, <3>3, <1>4
  <2>4. QED
    BY <2>1, <2>2, <2>3, <1>1
<1>7. lo <= base + Len(g)
  BY <1>1, <1>2
<1>8. QED
  BY <1>3, <1>5, <1>6, <1>7 DEF Ordered

(* Taking the older of two heads raises the lower bound to its sequence.    *)
LEMMA OrderedTake ==
  ASSUME NEW c \in Seq(Frame), NEW d \in Seq(Frame),
         NEW lo \in Nat, NEW hi \in Nat, Ordered(c, d, lo, hi),
         c # <<>>, d # <<>> => c[1].seq < d[1].seq
  PROVE  /\ Ordered(Tail(c), d, c[1].seq, hi)
         /\ lo < c[1].seq
<1>1. Len(c) \in Nat \ {0} /\ Len(d) \in Nat
  BY LenProperties, EmptySeq
<1>2. \A i \in 1..Len(c) : c[i].seq \in Nat
  <2>1. \A i \in 1..Len(c) : c[i] \in Frame
    BY ElementOfSeq
  <2>2. QED
    BY <2>1 DEF Frame
<1>3. \A i \in 1..Len(d) : d[i].seq \in Nat
  <2>1. \A i \in 1..Len(d) : d[i] \in Frame
    BY ElementOfSeq
  <2>2. QED
    BY <2>1 DEF Frame
<1>4. /\ \A i \in 1..Len(c) : lo < c[i].seq /\ c[i].seq <= hi
      /\ \A i \in 1..Len(d) : lo < d[i].seq /\ d[i].seq <= hi
      /\ \A i, j \in 1..Len(c) : i < j => c[i].seq < c[j].seq
      /\ \A i, j \in 1..Len(d) : i < j => d[i].seq < d[j].seq
      /\ \A i \in 1..Len(c), j \in 1..Len(d) : c[i].seq # d[j].seq
  BY DEF Ordered, Within, Increasing
<1>5. 1 \in 1..Len(c) /\ lo < c[1].seq /\ c[1].seq <= hi
  BY <1>1, <1>4
<1>6. /\ Len(Tail(c)) = Len(c) - 1
      /\ \A i \in 1..Len(c) - 1 : Tail(c)[i] = c[i + 1]
  BY <1>1, HeadTailProperties
<1>7. \A i \in 1..Len(c) - 1 : i + 1 \in 1..Len(c)
  BY <1>1
<1>8. Within(Tail(c), c[1].seq, hi)
  <2>1. ASSUME NEW i \in 1..Len(c) - 1, NEW j \in 1..Len(c) - 1, i < j
        PROVE  Tail(c)[i].seq < Tail(c)[j].seq
    BY <2>1, <1>4, <1>6, <1>7
  <2>2. ASSUME NEW i \in 1..Len(c) - 1
        PROVE  c[1].seq < Tail(c)[i].seq /\ Tail(c)[i].seq <= hi
    <3>1. i + 1 \in 1..Len(c) /\ 1 < i + 1 /\ Tail(c)[i] = c[i + 1]
      BY <1>6, <1>7
    <3>2. QED
      BY <3>1, <1>4, <1>5
  <2>3. QED
    BY <2>1, <2>2, <1>6 DEF Within, Increasing
<1>9. Within(d, c[1].seq, hi)
  <2>1. ASSUME NEW i \in 1..Len(d)
        PROVE  c[1].seq < d[i].seq
    <3>1. d # <<>> /\ 1 \in 1..Len(d)
      BY <1>1, EmptySeq
    <3>2. c[1].seq < d[1].seq
      BY <3>1
    <3>3. i = 1 \/ d[1].seq < d[i].seq
      BY <3>1, <1>4
    <3>4. c[1].seq \in Nat /\ d[1].seq \in Nat /\ d[i].seq \in Nat
      BY <3>1, <1>2, <1>3, <1>5
    <3>5. QED
      BY <3>2, <3>3, <3>4
  <2>2. QED
    BY <2>1, <1>4 DEF Within, Increasing
<1>10. ASSUME NEW i \in 1..Len(Tail(c)), NEW j \in 1..Len(d)
       PROVE  Tail(c)[i].seq # d[j].seq
  <2>1. i + 1 \in 1..Len(c) /\ Tail(c)[i] = c[i + 1]
    BY <1>6, <1>7
  <2>2. QED
    BY <2>1, <1>4
<1>11. QED
  BY <1>5, <1>8, <1>9, <1>10 DEF Ordered
-----------------------------------------------------------------------------
(* The frames that the emissions are made of.                               *)

(* Every loss notice that a flush of occupied accumulators sends is a frame.*)
LEMMA NoticesFrames ==
  ASSUME TypeOK, NEW S \in SUBSET Occupied, NEW order \in Ascending(S)
  PROVE  Notices(order) \in Seq(Frame) /\ Len(Notices(order)) = Len(order)
<1>1. NAcc \in Nat /\ S \in SUBSET (1..NAcc)
  BY EgressAssumption DEF Occupied, Acc
<1>2. Len(order) \in Nat /\ \A k \in 1..Len(order) : order[k] \in S
  BY <1>1, AscendingSeq
<1>3. ASSUME NEW a \in Occupied
      PROVE  LossNotice(loss[a]) \in Frame
  <2>1. loss[a] \in LossAcc
    BY DEF TypeOK, Occupied
  <2>2. loss[a].first \in Nat /\ loss[a].last \in Nat
    BY <2>1 DEF LossAcc
  <2>3. QED
    BY <2>2 DEF LossNotice, Frame, Kind
<1>4. Notices(order) \in [1..Len(order) -> Frame]
  BY <1>2, <1>3 DEF Notices
<1>5. QED
  BY <1>2, <1>4, SeqDef, LenProperties

(* The results of a run of slots, and an edge, are frames.                  *)
LEMMA ResultsFrames ==
  ASSUME TypeOK, NEW S \in SUBSET Slots, NEW order \in Ascending(S)
  PROVE  /\ Len(order) \in Nat
         /\ Results(order) \in Seq(Frame)
         /\ Len(Results(order)) = Len(order)
         /\ \A k \in 1..Len(order) : order[k] \in Slots
<1>1. NSlots \in Nat /\ S \in SUBSET (1..NSlots)
  BY EgressAssumption DEF Slots
<1>2. Len(order) \in Nat /\ \A k \in 1..Len(order) : order[k] \in S
  BY <1>1, AscendingSeq
<1>3. ASSUME NEW k \in 1..Len(order)
      PROVE  TxResult(finals + k) \in Frame
  <2>1. finals + k \in Nat
    BY <1>2 DEF TypeOK
  <2>2. QED
    BY <2>1 DEF TxResult, Frame, Kind
<1>4. Results(order) \in [1..Len(order) -> Frame]
  BY <1>3 DEF Results
<1>5. QED
  BY <1>2, <1>4, SeqDef, LenProperties

(* The edge that persist_channel_state tries to send is at most one frame. *)
LEMMA EdgeToSendFrames ==
  ASSUME TypeOK
  PROVE  EdgeToSend \in Seq(Frame)
<1>1. ChannelState(edges + 1) \in Frame
  <2>1. edges + 1 \in Nat
    BY DEF TypeOK
  <2>2. QED
    BY <2>1 DEF ChannelState, Frame, Kind
<1>2. QED
  BY <1>1 DEF EdgeToSend

(* So is the FLOW_CONTROL frame. *)
LEMMA FlowControlFrame == FlowControl \in Frame
BY DEF FlowControl, Frame, Kind

-----------------------------------------------------------------------------
(* What each part of an action leaves well-typed.                           *)

(* Accumulators freed by flush_loss_notice leave well-formed ones. *)
LEMMA FreedType ==
  ASSUME TypeOK, NEW order, NEW n
  PROVE  Freed(order, n) \in [Acc -> LossAcc \cup {Free}]
<1>1. \A a \in Acc : loss[a] \in LossAcc \cup {Free}
  BY DEF TypeOK
<1>2. QED
  BY <1>1 DEF Freed

(* Slots that come to owe a result owe the number of a final result. *)
LEMMA OweType ==
  ASSUME TypeOK, NEW order, NEW n \in Nat, Len(order) \in Nat
  PROVE  Owe(order, n) \in [Slots -> Nat]
<1>1. ASSUME NEW i \in Slots
      PROVE  (IF \E k \in n + 1..Len(order) : order[k] = i
              THEN finals + (CHOOSE k \in n + 1..Len(order) : order[k] = i)
              ELSE delivery_pending[i]) \in Nat
  <2>1. CASE \E k \in n + 1..Len(order) : order[k] = i
    <3>1. (CHOOSE k \in n + 1..Len(order) : order[k] = i) \in n + 1..Len(order)
      BY <2>1
    <3>2. QED
      BY <2>1, <3>1 DEF TypeOK
  <2>2. CASE ~\E k \in n + 1..Len(order) : order[k] = i
    BY <2>2 DEF TypeOK
  <2>3. QED
    BY <2>1, <2>2
<1>2. QED
  BY <1>1 DEF Owe

(* An accumulated loss emits notices and keeps the accumulators well-typed. *)
LEMMA AccumulateLossType ==
  ASSUME TypeOK, NEW key \in Key, NEW s \in Nat, NEW base \in Nat,
         AccumulateLoss(key, s, base)
  PROVE  /\ \E due \in Seq(Frame) : Emit(due, base)
         /\ loss' \in [Acc -> LossAcc \cup {Free}]
         /\ unrecorded' \in SUBSET Nat
<1>1. \A S \in SUBSET Matching(key) : S \in SUBSET Occupied
  BY DEF Matching
<1>2. CASE ExtendRange(key, s, base)
  <2>1. PICK a \in Matching(key) :
          /\ \E order \in Ascending({b \in Matching(key) : b < a}) :
               /\ Emit(Notices(order), base)
               /\ loss' = [Freed(order, Admitted(Notices(order))) EXCEPT ![a].last = s]
          /\ UNCHANGED unrecorded
    BY <1>2 DEF ExtendRange
  <2>2. PICK order \in Ascending({b \in Matching(key) : b < a}) :
          /\ Emit(Notices(order), base)
          /\ loss' = [Freed(order, Admitted(Notices(order))) EXCEPT ![a].last = s]
    BY <2>1
  <2>3. Notices(order) \in Seq(Frame)
    BY <1>1, NoticesFrames
  <2> DEFINE left == Freed(order, Admitted(Notices(order)))
  <2>4. left \in [Acc -> LossAcc \cup {Free}]
    BY FreedType
  <2>5. a \in Acc /\ left[a] = loss[a]
    <3>1. Len(order) \in Nat /\ \A k \in 1..Len(order) : order[k] # a
      <4>1. NAcc \in Nat /\ {b \in Matching(key) : b < a} \in SUBSET (1..NAcc)
        BY EgressAssumption DEF Matching, Occupied, Acc
      <4>2. /\ Len(order) \in Nat
            /\ \A k \in 1..Len(order) : order[k] \in {b \in Matching(key) : b < a}
        BY <4>1, AscendingSeq
      <4>3. a \in Nat
        BY DEF Matching, Occupied, Acc
      <4>4. QED
        BY <4>2, <4>3
    <3>2. Admitted(Notices(order)) \in 0..Len(order)
      BY <1>1, <2>3, NoticesFrames, AdmittedBounds
    <3>3. \A k \in 1..Admitted(Notices(order)) : order[k] # a
      BY <3>1, <3>2
    <3>4. QED
      BY <3>3 DEF Freed, Matching, Occupied
  <2>6. left[a] \in LossAcc
    BY <2>5 DEF TypeOK, Matching, Occupied
  <2>7. [left[a] EXCEPT !.last = s] \in LossAcc
    BY <2>6 DEF LossAcc
  <2>8. loss' = [left EXCEPT ![a] = [left[a] EXCEPT !.last = s]]
    BY <2>2
  <2> HIDE DEF left
  <2>9. loss' \in [Acc -> LossAcc \cup {Free}]
    BY <2>4, <2>7, <2>8
  <2>10. QED
    BY <2>1, <2>2, <2>3, <2>9 DEF TypeOK
<1>3. CASE OpenRange(key, s, base)
  <2>1. PICK order \in Ascending(Matching(key)) :
          /\ Emit(Notices(order), base)
          /\ \/ \E a \in Acc :
                   /\ loss' = [Freed(order, Admitted(Notices(order))) EXCEPT ![a] =
                                 [key |-> key, generation |-> config_generation,
                                  first |-> s, last |-> s]]
                   /\ UNCHANGED unrecorded
             \/ /\ loss' = Freed(order, Admitted(Notices(order)))
                /\ unrecorded' = IF key \in EventKey THEN unrecorded \cup {s}
                                                     ELSE unrecorded
    BY <1>3 DEF OpenRange
  <2>2. Notices(order) \in Seq(Frame)
    BY <1>1, NoticesFrames
  <2> DEFINE left == Freed(order, Admitted(Notices(order)))
  <2>3. left \in [Acc -> LossAcc \cup {Free}]
    BY FreedType
  <2>4. [key |-> key, generation |-> config_generation, first |-> s, last |-> s] \in LossAcc
    BY DEF TypeOK, LossAcc
  <2> HIDE DEF left
  <2>5. loss' \in [Acc -> LossAcc \cup {Free}]
    BY <2>1, <2>3, <2>4 DEF left
  <2>6. unrecorded' \in SUBSET Nat
    BY <2>1 DEF TypeOK
  <2>7. QED
    BY <2>1, <2>2, <2>5, <2>6
<1>4. QED
  BY <1>2, <1>3 DEF AccumulateLoss
-----------------------------------------------------------------------------
(* The actions that only add to the critical FIFO.                          *)

(* Frames are emitted above every sequence given so far; the data ring and  *)
(* the host are not touched.                                                *)
Emission ==
  /\ \E due \in Seq(Frame), base \in {device_event_sequence, device_event_sequence + 1} :
       Emit(due, base)
  /\ UNCHANGED <<q_data, host>>

(* Nothing that EventOrder speaks of changes.                               *)
Silence ==
  UNCHANGED <<q_critical, q_critical_pending, device_event_sequence, q_data, host>>

(* The fields that Emit assigns keep their types. *)
LEMMA EmissionTypes ==
  ASSUME TypeOK, Emission \/ Silence
  PROVE  CriticalOK'
<1>1. CASE Emission
  BY <1>1, EmitAppends DEF Emission, TypeOK
<1>2. CASE Silence
  BY <1>2 DEF Silence, TypeOK, CriticalOK
<1>3. QED
  BY <1>1, <1>2

(* What Emit appends keeps the events in order. *)
LEMMA EmissionOrder ==
  ASSUME TypeOK, EventOrder, Emission \/ Silence
  PROVE  EventOrder'
<1>1. CASE Emission
  <2>1. PICK due \in Seq(Frame), base \in {device_event_sequence, device_event_sequence + 1} :
          Emit(due, base)
    BY <1>1 DEF Emission
  <2>2. device_event_sequence \in Nat /\ host.last \in Nat
    BY DEF TypeOK, Host
  <2>3. base \in Nat /\ device_event_sequence <= base
    BY <2>2
  <2> DEFINE n == Admitted(due)
             g == Stamped(due, n, base)
  <2>4. n \in 0..Len(due)
    BY AdmittedBounds
  <2>5. g \in Seq(Frame) /\ Len(g) = n /\ \A k \in 1..n : g[k].seq = base + k
    BY <2>3, <2>4, StampedFrames
  <2>6. Critical' = Critical \o g /\ device_event_sequence' = base + n
    BY <2>1, <2>3, EmitAppends
  <2> HIDE DEF g, n
  <2>7. Critical \in Seq(Frame) /\ q_data \in Seq(Frame)
    BY ConcatProperties DEF TypeOK, Critical
  <2>8. Ordered(Critical, q_data, host.last, device_event_sequence)
    BY DEF EventOrder, Ordered
  <2>9. Ordered(Critical \o g, q_data, host.last, base + n)
    BY <2>2, <2>3, <2>5, <2>7, <2>8, OrderedAppends
  <2>10. q_data' = q_data /\ host' = host
    BY <1>1 DEF Emission
  <2>11. QED
    BY <2>6, <2>9, <2>10, Zenon DEF EventOrder, Ordered
<1>2. CASE Silence
  BY <1>2 DEF Silence, EventOrder, Critical
<1>3. QED
  BY <1>1, <1>2

(* The rest of TypeOK, which each action has to show for itself.            *)
RestOK ==
  /\ q_data \in Seq(Frame)
  /\ q_pending_channel_state \in Seq(Nat)
  /\ Len(q_data) <= DataCap
  /\ Len(q_pending_channel_state) <= StateCap
  /\ loss \in [Acc -> LossAcc \cup {Free}]
  /\ delivery_pending \in [Slots -> Nat]
  /\ flow_control_pending \in BOOLEAN
  /\ config_generation \in Nat
  /\ next_channel_sequence \in Nat
  /\ finals \in Nat
  /\ edges \in Nat
  /\ unrecorded \in SUBSET Nat
  /\ host \in Host
  /\ rx_budget \in 0..RxBudget
  /\ control_budget \in 0..ControlBudget

(* A call that reports something uses up one of the calls left.             *)
LEMMA Budgets ==
  ASSUME TypeOK, SpendRx \/ SpendControl
  PROVE  rx_budget' \in 0..RxBudget /\ control_budget' \in 0..ControlBudget
BY EgressAssumption DEF TypeOK, SpendRx, SpendControl

(* ucan_session_note_event_queue_loss keeps type and order. *)
LEMMA NoteEventQueueLossStep ==
  ASSUME TypeOK, NoteEventQueueLoss
  PROVE  RestOK' /\ Emission
<1>1. device_event_sequence + 1 \in Nat /\ "usb_event_overflow" \in Key
  BY DEF TypeOK, Key, EventKey
<1>2. AccumulateLoss("usb_event_overflow", device_event_sequence + 1, device_event_sequence + 1)
  BY DEF NoteEventQueueLoss
<1>3. /\ \E due \in Seq(Frame) : Emit(due, device_event_sequence + 1)
      /\ loss' \in [Acc -> LossAcc \cup {Free}]
      /\ unrecorded' \in SUBSET Nat
  BY <1>1, <1>2, AccumulateLossType
<1>4. rx_budget' \in 0..RxBudget /\ control_budget' \in 0..ControlBudget
  BY Budgets DEF NoteEventQueueLoss
<1>5. QED
  BY <1>3, <1>4 DEF NoteEventQueueLoss, Emission, RestOK, TypeOK

(* ucan_session_on_rx and ucan_session_note_rx_ring_loss keep both. *)
LEMMA OnRxStep ==
  ASSUME TypeOK, NEW room \in BOOLEAN, OnRx(room)
  PROVE  RestOK' /\ (Emission \/ Silence)
<1>1. /\ rx_budget' \in 0..RxBudget /\ control_budget' \in 0..ControlBudget
      /\ next_channel_sequence' \in Nat
      /\ UNCHANGED <<q_data, q_pending_channel_state, delivery_pending, finals, edges,
                     flow_control_pending, config_generation, host>>
  BY Budgets DEF OnRx, TypeOK
<1>2. CASE room
  <2>1. UNCHANGED <<q_critical, q_critical_pending, device_event_sequence, loss, unrecorded>>
    BY <1>2 DEF OnRx
  <2>2. QED
    BY <1>1, <2>1 DEF RestOK, TypeOK, Silence
<1>3. CASE ~room
  <2>1. /\ next_channel_sequence + 1 \in Nat /\ device_event_sequence \in Nat
        /\ "can_ring" \in Key
    BY DEF TypeOK, Key
  <2>2. AccumulateLoss("can_ring", next_channel_sequence + 1, device_event_sequence)
    BY <1>3 DEF OnRx
  <2>3. /\ \E due \in Seq(Frame) : Emit(due, device_event_sequence)
        /\ loss' \in [Acc -> LossAcc \cup {Free}]
        /\ unrecorded' \in SUBSET Nat
    BY <2>1, <2>2, AccumulateLossType
  <2>4. QED
    BY <1>1, <2>3 DEF RestOK, TypeOK, Emission
<1>4. QED
  BY <1>2, <1>3

(* Every way of making slots FINAL keeps both. *)
LEMMA FinalizeSlotsStep ==
  ASSUME TypeOK, NEW slots \in SUBSET Slots, FinalizeSlots(slots),
         config_generation' \in Nat
  PROVE  RestOK' /\ Emission
<1>1. PICK order \in Ascending(slots) :
        /\ Emit(Results(order), device_event_sequence)
        /\ delivery_pending' = Owe(order, Admitted(Results(order)))
        /\ finals' = finals + Len(order)
  BY DEF FinalizeSlots
<1>2. Len(order) \in Nat /\ Results(order) \in Seq(Frame)
  BY ResultsFrames
<1>3. Admitted(Results(order)) \in Nat
  BY <1>2, AdmittedBounds, LenProperties
<1>4. delivery_pending' \in [Slots -> Nat]
  BY <1>1, <1>2, <1>3, OweType
<1>5. finals' \in Nat
  BY <1>1, <1>2 DEF TypeOK
<1>6. rx_budget' \in 0..RxBudget /\ control_budget' \in 0..ControlBudget
  BY Budgets DEF FinalizeSlots
<1>7. UNCHANGED <<q_data, q_pending_channel_state, loss, unrecorded, edges,
                 flow_control_pending, next_channel_sequence, host>>
  BY DEF FinalizeSlots
<1>8. RestOK'
  BY <1>4, <1>5, <1>6, <1>7 DEF RestOK, TypeOK
<1>9. Emission
  BY <1>1, <1>2, <1>7 DEF Emission
<1>10. QED
  BY <1>8, <1>9

(* An edge, with the disarm before it, keeps both. *)
LEMMA PersistChannelStateStep ==
  ASSUME TypeOK, NEW slots \in SUBSET Slots, PersistChannelState(slots),
         config_generation' \in Nat
  PROVE  RestOK' /\ Emission
<1> DEFINE due(order)  == Results(order) \o EdgeToSend
           sent(order) == EdgeToSend # <<>> /\ Admitted(due(order)) = Len(due(order))
<1>1. PICK order \in Ascending(slots) :
        /\ Emit(due(order), device_event_sequence)
        /\ delivery_pending' = Owe(order, Admitted(due(order)))
        /\ finals' = finals + Len(order)
        /\ q_pending_channel_state' =
             IF sent(order) \/ Len(q_pending_channel_state) >= StateCap
             THEN q_pending_channel_state
             ELSE Append(q_pending_channel_state, edges + 1)
  BY DEF PersistChannelState
<1>2. /\ Len(order) \in Nat
      /\ Results(order) \in Seq(Frame) /\ EdgeToSend \in Seq(Frame)
  BY ResultsFrames, EdgeToSendFrames
<1>3. due(order) \in Seq(Frame)
  BY <1>2, ConcatProperties
<1> HIDE DEF due
<1>4. Admitted(due(order)) \in Nat
  BY <1>3, AdmittedBounds, LenProperties
<1>5. delivery_pending' \in [Slots -> Nat]
  BY <1>1, <1>2, <1>4, OweType
<1>6. finals' \in Nat /\ edges' \in Nat
  BY <1>1, <1>2 DEF PersistChannelState, TypeOK
<1>7. /\ q_pending_channel_state' \in Seq(Nat)
      /\ Len(q_pending_channel_state') <= StateCap
  <2>1. /\ q_pending_channel_state \in Seq(Nat) /\ edges + 1 \in Nat
        /\ Len(q_pending_channel_state) <= StateCap
        /\ StateCap \in Nat
    BY EgressAssumption DEF TypeOK
  <2>2. CASE sent(order) \/ Len(q_pending_channel_state) >= StateCap
    BY <1>1, <2>1, <2>2
  <2>3. CASE ~(sent(order) \/ Len(q_pending_channel_state) >= StateCap)
    <3>1. q_pending_channel_state' = Append(q_pending_channel_state, edges + 1)
      BY <1>1, <2>3
    <3>2. QED
      BY <2>1, <2>3, <3>1, AppendProperties, LenProperties
  <2>4. QED
    BY <2>2, <2>3
<1>8. rx_budget' \in 0..RxBudget /\ control_budget' \in 0..ControlBudget
  BY Budgets DEF PersistChannelState
<1>9. UNCHANGED <<q_data, loss, unrecorded, flow_control_pending,
                 next_channel_sequence, host>>
  BY DEF PersistChannelState
<1>10. RestOK'
  BY <1>5, <1>6, <1>7, <1>8, <1>9 DEF RestOK, TypeOK
<1>11. Emission
  BY <1>1, <1>3, <1>9 DEF Emission
<1>12. QED
  BY <1>10, <1>11

(* ucan_session_poll_flow_control keeps both. *)
LEMMA PollFlowControlStep ==
  ASSUME TypeOK, PollFlowControl
  PROVE  RestOK' /\ Emission
<1>1. <<FlowControl>> \in Seq(Frame)
  BY FlowControlFrame
<1>2. rx_budget' \in 0..RxBudget /\ control_budget' \in 0..ControlBudget
  BY Budgets DEF PollFlowControl
<1>3. RestOK'
  BY <1>2 DEF PollFlowControl, RestOK, TypeOK
<1>4. Emission
  BY <1>1 DEF PollFlowControl, Emission
<1>5. QED
  BY <1>3, <1>4

(* A batch goes behind the data ring with the next sequence, or is lost.    *)
LEMMA EmitRxBatchStep ==
  ASSUME TypeOK, NEW fits \in BOOLEAN, EmitRxBatch(fits)
  PROVE  /\ TypeOK'
         /\ EventOrder => EventOrder'
         /\ host' = host
<1> DEFINE s == device_event_sequence + 1
           batch == [kind |-> "rx_batch", seq |-> s, first |-> 0, last |-> 0]
<1>1. /\ rx_budget' \in 0..RxBudget /\ control_budget' \in 0..ControlBudget
      /\ UNCHANGED <<q_pending_channel_state, delivery_pending, finals, edges,
                     flow_control_pending, config_generation, next_channel_sequence, host>>
  BY Budgets DEF EmitRxBatch
<1>2. s \in Nat /\ device_event_sequence \in Nat /\ host.last \in Nat
  BY DEF TypeOK, Host
<1>3. CASE fits /\ Len(q_data) < DataCap
  <2>1. /\ q_data' = Append(q_data, batch)
        /\ device_event_sequence' = s
        /\ UNCHANGED <<q_critical, q_critical_pending, loss, unrecorded>>
    BY <1>3 DEF EmitRxBatch
  <2>2. batch \in Frame /\ batch.seq = s
    BY <1>2 DEF Frame, Kind
  <2> HIDE DEF batch
  <2>3. q_data \in Seq(Frame) /\ Critical \in Seq(Frame)
    BY ConcatProperties DEF TypeOK, Critical
  <2>4. /\ q_data' \in Seq(Frame)
        /\ Len(q_data') = Len(q_data) + 1
        /\ Len(q_data) \in Nat
    BY <2>1, <2>2, <2>3, AppendProperties, LenProperties
  <2>5. Len(q_data') <= DataCap
    BY <1>3, <2>4, EgressAssumption
  <2>6. TypeOK'
    BY <1>1, <1>2, <2>1, <2>4, <2>5 DEF TypeOK
  <2>7. ASSUME EventOrder
        PROVE  EventOrder'
    <3>1. Ordered(q_data, Critical, host.last, device_event_sequence)
      BY <2>3, <2>7, OrderedSymmetric DEF EventOrder, Ordered
    <3> DEFINE g == <<batch>>
    <3>2. g \in Seq(Frame) /\ Len(g) = 1 /\ g[1] = batch
      BY <2>2
    <3>3. q_data' = q_data \o g
      BY <2>1, <2>2, <2>3, AppendIsConcat
    <3> HIDE DEF g
    <3>4. \A k \in 1..Len(g) : g[k].seq = device_event_sequence + k
      BY <2>2, <3>2
    <3>5. device_event_sequence <= device_event_sequence
      BY <1>2
    <3>6. Ordered(q_data', Critical, host.last, s)
      <4>1. Ordered(q_data \o g, Critical, host.last, device_event_sequence + Len(g))
        BY <1>2, <2>3, <3>1, <3>2, <3>4, <3>5, OrderedAppends
      <4>2. QED
        BY <3>2, <3>3, <4>1
    <3>7. Ordered(Critical, q_data', host.last, s)
      BY <2>3, <2>4, <3>6, OrderedSymmetric
    <3>8. Critical' = Critical /\ host' = host /\ device_event_sequence' = s
      BY <1>1, <2>1 DEF Critical
    <3>9. QED
      BY <3>7, <3>8, Zenon DEF EventOrder, Ordered
  <2>8. QED
    BY <1>1, <2>6, <2>7
<1>4. CASE ~(fits /\ Len(q_data) < DataCap)
  <2>1. PICK key \in Key : AccumulateLoss(key, s, s)
    BY <1>4 DEF EmitRxBatch, Key, EventKey
  <2>2. q_data' = q_data
    BY <1>4 DEF EmitRxBatch
  <2>3. /\ \E due \in Seq(Frame) : Emit(due, s)
        /\ loss' \in [Acc -> LossAcc \cup {Free}]
        /\ unrecorded' \in SUBSET Nat
    BY <1>2, <2>1, AccumulateLossType
  <2>4. RestOK'
    BY <1>1, <2>2, <2>3 DEF RestOK, TypeOK
  <2>5. Emission
    BY <1>1, <2>2, <2>3 DEF Emission
  <2>6. TypeOK'
    BY <2>4, <2>5, EmissionTypes DEF TypeOK, CriticalOK, RestOK
  <2>7. QED
    BY <1>1, <2>5, <2>6, EmissionOrder
<1>5. QED
  BY <1>3, <1>4
-----------------------------------------------------------------------------
(* Dequeue.                                                                 *)

(* What a flush promises: well-typed parts within their bounds, the primary *)
(* ring empty only if both are, and the FIFO extended by stamped frames.    *)
FlushOK(flush) ==
  /\ flush.rings.primary \in Seq(Frame)
  /\ flush.rings.pending \in Seq(Frame)
  /\ Len(flush.rings.primary) <= CriticalCap
  /\ Len(flush.rings.pending) <= CriticalCap
  /\ flush.rings.primary = <<>> => flush.rings.pending = <<>>
  /\ \E g \in Seq(Frame) :
       /\ flush.rings.primary \o flush.rings.pending = Critical \o g
       /\ flush.seq = device_event_sequence + Len(g)
       /\ \A k \in 1..Len(g) : g[k].seq = device_event_sequence + k
  /\ flush.loss \in [Acc -> LossAcc \cup {Free}]
  /\ flush.owed \in [Slots -> Nat]
  /\ flush.edges \in Seq(Nat)
  /\ Len(flush.edges) <= StateCap
  /\ flush.flow \in BOOLEAN

(* Refilling the primary ring leaves at most a ring's worth behind it.      *)
LEMMA RefillBounds ==
  ASSUME NEW fifo \in Seq(Frame), Len(fifo) <= 2 * CriticalCap
  PROVE  LET rings == Rings(fifo, Lesser(CriticalCap, Len(fifo)))
         IN  /\ rings.primary \in Seq(Frame)
             /\ rings.pending \in Seq(Frame)
             /\ Len(rings.primary) <= CriticalCap
             /\ Len(rings.pending) <= CriticalCap
             /\ rings.primary = <<>> => rings.pending = <<>>
             /\ rings.primary \o rings.pending = fifo
<1> DEFINE cut == Lesser(CriticalCap, Len(fifo))
           rings == Rings(fifo, cut)
<1>1. Len(fifo) \in Nat /\ CriticalCap \in Nat \ {0}
  BY LenProperties, EgressAssumption
<1>2. /\ cut \in 0..Len(fifo) /\ cut <= CriticalCap
      /\ Len(fifo) - cut <= CriticalCap
      /\ cut = 0 => Len(fifo) = 0
  BY <1>1 DEF Lesser
<1> HIDE DEF cut
<1>3. /\ rings.primary \in Seq(Frame)
      /\ rings.pending \in Seq(Frame)
      /\ Len(rings.primary) = cut
      /\ Len(rings.pending) = Len(fifo) - cut
      /\ rings.primary \o rings.pending = fifo
  BY <1>2, RingsWhole
<1> HIDE DEF rings
<1>4. rings.primary = <<>> => rings.pending = <<>>
  BY <1>1, <1>2, <1>3, EmptySeq
<1>5. QED
  BY <1>2, <1>3, <1>4 DEF rings, cut

(* What flush_pending makes of rings, accumulators, slots and edges is
   well formed. *)
LEMMA FlushTypes ==
  ASSUME TypeOK, NEW accs \in Ascending(Occupied), NEW slots \in Ascending(Owing)
  PROVE  FlushOK(FlushResult(accs, slots))
<1> DEFINE edgeFrames == [k \in 1..Len(q_pending_channel_state) |->
                            ChannelState(q_pending_channel_state[k])]
           owedFrames == [k \in 1..Len(slots) |-> TxResult(delivery_pending[slots[k]])]
           flowFrames == IF flow_control_pending THEN <<FlowControl>> ELSE <<>>
           due  == Notices(accs) \o owedFrames \o edgeFrames \o flowFrames
           held == Len(q_critical) + Len(q_critical_pending)
           n    == IF held >= CriticalCap THEN 0 ELSE Admitted(due)
           g    == Stamped(due, n, device_event_sequence)
           fifo == q_critical \o q_critical_pending \o g
           share(before, size) == Lesser(size, Greater(0, n - before))
           edgesIn == share(Len(accs) + Len(slots), Len(edgeFrames))
           flush == FlushResult(accs, slots)
<1>1. /\ flush.rings = Rings(fifo, Lesser(CriticalCap, Len(fifo)))
      /\ flush.seq = device_event_sequence + n
      /\ flush.loss = Freed(accs, share(0, Len(accs)))
      /\ flush.owed = [i \in Slots |->
                          IF \E k \in 1..share(Len(accs), Len(slots)) : slots[k] = i
                          THEN 0 ELSE delivery_pending[i]]
      /\ flush.edges = SubSeq(q_pending_channel_state, edgesIn + 1, Len(edgeFrames))
      /\ flush.flow = (flow_control_pending /\ n < Len(due))
  BY Zenon DEF FlushResult
<1>2. Notices(accs) \in Seq(Frame) /\ Len(accs) \in Nat
  <2>1. NAcc \in Nat /\ Occupied \in SUBSET (1..NAcc)
    BY EgressAssumption DEF Occupied, Acc
  <2>2. QED
    BY <2>1, NoticesFrames, AscendingSeq
<1>3. Len(slots) \in Nat /\ \A k \in 1..Len(slots) : slots[k] \in Slots
  BY ResultsFrames DEF Owing
<1>4. owedFrames \in Seq(Frame)
  <2>1. \A m \in Nat : TxResult(m) \in Frame
    BY DEF TxResult, Frame, Kind
  <2>2. \A k \in 1..Len(slots) : delivery_pending[slots[k]] \in Nat
    BY <1>3 DEF TypeOK
  <2>3. owedFrames \in [1..Len(slots) -> Frame]
    BY <2>1, <2>2
  <2>4. QED
    BY <1>3, <2>3, SeqDef
<1>5. edgeFrames \in Seq(Frame) /\ Len(edgeFrames) = Len(q_pending_channel_state)
  <2>1. \A m \in Nat : ChannelState(m) \in Frame
    BY DEF ChannelState, Frame, Kind
  <2>2. /\ Len(q_pending_channel_state) \in Nat
        /\ \A k \in 1..Len(q_pending_channel_state) : q_pending_channel_state[k] \in Nat
    BY LenProperties, ElementOfSeq DEF TypeOK
  <2>3. edgeFrames \in [1..Len(q_pending_channel_state) -> Frame]
    BY <2>1, <2>2
  <2>4. QED
    BY <2>2, <2>3, SeqDef, LenProperties
<1>6. flowFrames \in Seq(Frame)
  BY FlowControlFrame
<1>7. due \in Seq(Frame)
  <2> HIDE DEF owedFrames, edgeFrames, flowFrames
  <2>1. Notices(accs) \o owedFrames \in Seq(Frame)
    BY <1>2, <1>4, ConcatProperties
  <2>2. Notices(accs) \o owedFrames \o edgeFrames \in Seq(Frame)
    BY <2>1, <1>5, ConcatProperties
  <2>3. QED
    BY <2>2, <1>6, ConcatProperties
<1> HIDE DEF due, edgeFrames, owedFrames, flowFrames
<1>8. /\ CriticalCap \in Nat /\ held \in Nat /\ Len(due) \in Nat
      /\ q_critical \o q_critical_pending \in Seq(Frame)
      /\ Len(q_critical \o q_critical_pending) = held
      /\ held <= 2 * CriticalCap
      /\ device_event_sequence \in Nat
  BY <1>7, EgressAssumption, LenProperties, ConcatProperties DEF TypeOK
<1>9. n \in 0..Len(due) /\ held + n <= 2 * CriticalCap
  <2>1. Admitted(due) \in 0..Len(due) /\ Admitted(due) <= CriticalRoom
    BY <1>7, AdmittedBounds
  <2>2. CriticalRoom = 2 * CriticalCap - Len(q_critical) - Len(q_critical_pending)
    BY DEF CriticalRoom
  <2>3. Len(q_critical) \in Nat /\ Len(q_critical_pending) \in Nat
    BY LenProperties DEF TypeOK
  <2>4. QED
    BY <1>8, <2>1, <2>2, <2>3
<1> HIDE DEF n, held
<1>10. /\ g \in Seq(Frame) /\ Len(g) = n
       /\ \A k \in 1..n : g[k].seq = device_event_sequence + k
  BY <1>7, <1>8, <1>9, StampedFrames
<1> HIDE DEF g
<1>11. fifo \in Seq(Frame) /\ Len(fifo) = held + n
  BY <1>8, <1>10, ConcatProperties
<1>12. fifo = Critical \o g
  BY DEF Critical
<1> HIDE DEF fifo
<1>13. /\ flush.rings.primary \in Seq(Frame)
       /\ flush.rings.pending \in Seq(Frame)
       /\ Len(flush.rings.primary) <= CriticalCap
       /\ Len(flush.rings.pending) <= CriticalCap
       /\ flush.rings.primary = <<>> => flush.rings.pending = <<>>
       /\ flush.rings.primary \o flush.rings.pending = fifo
  BY <1>1, <1>9, <1>11, RefillBounds, Zenon
<1>14. flush.loss \in [Acc -> LossAcc \cup {Free}]
  BY <1>1, FreedType
<1>15. flush.owed \in [Slots -> Nat]
  BY <1>1 DEF TypeOK
<1>16. flush.edges \in Seq(Nat) /\ Len(flush.edges) <= StateCap
  <2> DEFINE q == q_pending_channel_state
  <2>1. q \in Seq(Nat) /\ Len(q) \in Nat /\ Len(q) <= StateCap /\ StateCap \in Nat
    BY EgressAssumption, LenProperties DEF TypeOK
  <2>2. edgesIn \in Nat
    BY <1>2, <1>3, <1>5, <1>9, <2>1 DEF Lesser, Greater
  <2> HIDE DEF edgesIn
  <2>3. flush.edges = SubSeq(q, edgesIn + 1, Len(q))
    BY <1>1, <1>5
  <2>4. \A k \in edgesIn + 1..Len(q) : q[k] \in Nat
    BY <2>1, <2>2, ElementOfSeq
  <2>5. /\ SubSeq(q, edgesIn + 1, Len(q)) \in Seq(Nat)
        /\ Len(SubSeq(q, edgesIn + 1, Len(q))) =
             IF edgesIn + 1 <= Len(q) THEN Len(q) - (edgesIn + 1) + 1 ELSE 0
    BY <2>1, <2>2, <2>4, SubSeqProperties
  <2>6. QED
    BY <2>1, <2>2, <2>3, <2>5
<1>17. flush.flow \in BOOLEAN
  BY <1>1
<1> HIDE DEF flush
<1>18. \E h \in Seq(Frame) :
        /\ flush.rings.primary \o flush.rings.pending = Critical \o h
        /\ flush.seq = device_event_sequence + Len(h)
        /\ \A k \in 1..Len(h) : h[k].seq = device_event_sequence + k
  BY <1>1, <1>10, <1>12, <1>13
<1>19. FlushOK(flush)
  BY <1>13, <1>14, <1>15, <1>16, <1>17, <1>18 DEF FlushOK
<1>20. QED
  BY <1>19 DEF flush

(* A host that takes a frame newer than all it has seen stays well-typed.   *)
LEMMA HostReceivesType ==
  ASSUME TypeOK, NEW frame \in Frame
  PROVE  HostReceives(frame) \in Host /\ HostReceives(frame).last = frame.seq
<1>1. /\ frame.seq \in Nat /\ frame.first \in Nat
      /\ host.last \in Nat /\ host.missing \in SUBSET Nat
      /\ host.results \in SUBSET Nat /\ host.edge \in Nat
  BY DEF Frame, TypeOK, Host
<1> DEFINE missing == (host.missing \cup (host.last + 1 .. frame.seq - 1)) \
                        (IF frame.kind = "event_loss" THEN frame.first..frame.last ELSE {})
           results == IF frame.kind = "tx_result" THEN host.results \cup {frame.first}
                                                  ELSE host.results
           edge    == IF frame.kind = "channel_state" THEN frame.first ELSE host.edge
<1>2. missing \in SUBSET Nat
  <2>1. host.last + 1 .. frame.seq - 1 \in SUBSET Nat
    BY <1>1
  <2>2. QED
    BY <1>1, <2>1
<1>3. results \in SUBSET Nat /\ edge \in Nat
  BY <1>1
<1>4. HostReceives(frame) = [last |-> frame.seq, missing |-> missing,
                             results |-> results, edge |-> edge]
  BY Zenon DEF HostReceives
<1> HIDE DEF missing, results, edge
<1>5. QED
  BY <1>1, <1>2, <1>3, <1>4 DEF Host

(* ucan_session_dequeue keeps both, and hands out a frame newer than the last. *)
LEMMA DequeueStep ==
  ASSUME TypeOK, NEW fits \in BOOLEAN, Dequeue(fits)
  PROVE  /\ TypeOK'
         /\ EventOrder => EventOrder' /\ (host' # host => host'.last > host.last)
<1>1. PICK accs \in Ascending(Occupied), slots \in Ascending(Owing) :
        LET flush    == FlushResult(accs, slots)
            critical == flush.rings.primary
        IN  /\ device_event_sequence' = flush.seq
            /\ q_critical_pending' = flush.rings.pending
            /\ loss' = flush.loss
            /\ delivery_pending' = flush.owed
            /\ q_pending_channel_state' = flush.edges
            /\ flow_control_pending' = flush.flow
            /\ \/ /\ fits /\ TakesCritical(critical)
                  /\ q_critical' = Tail(critical)
                  /\ host' = HostReceives(critical[1])
                  /\ UNCHANGED q_data
               \/ /\ fits /\ ~TakesCritical(critical) /\ q_data # <<>>
                  /\ q_data' = Tail(q_data)
                  /\ host' = HostReceives(q_data[1])
                  /\ q_critical' = critical
               \/ /\ ~fits \/ (critical = <<>> /\ q_data = <<>>)
                  /\ q_critical' = critical
                  /\ UNCHANGED <<q_data, host>>
  BY DEF Dequeue
<1> DEFINE flush   == FlushResult(accs, slots)
           primary == flush.rings.primary
           pending == flush.rings.pending
           fifo    == primary \o pending
<1>2. UNCHANGED <<config_generation, next_channel_sequence, finals, edges,
                 unrecorded, rx_budget, control_budget>>
  BY DEF Dequeue
<1>3. FlushOK(flush)
  BY FlushTypes
<1> HIDE DEF flush
<1>4. /\ device_event_sequence' = flush.seq
      /\ q_critical_pending' = pending
      /\ loss' = flush.loss
      /\ delivery_pending' = flush.owed
      /\ q_pending_channel_state' = flush.edges
      /\ flow_control_pending' = flush.flow
  BY <1>1 DEF flush
<1>5. \/ /\ TakesCritical(primary)
         /\ q_critical' = Tail(primary) /\ host' = HostReceives(primary[1])
         /\ q_data' = q_data
      \/ /\ ~TakesCritical(primary) /\ q_data # <<>>
         /\ q_data' = Tail(q_data) /\ host' = HostReceives(q_data[1])
         /\ q_critical' = primary
      \/ /\ q_critical' = primary /\ q_data' = q_data /\ host' = host
  BY <1>1 DEF flush
<1>6. /\ primary \in Seq(Frame) /\ pending \in Seq(Frame)
      /\ Len(primary) <= CriticalCap /\ Len(pending) <= CriticalCap
      /\ primary = <<>> => pending = <<>>
      /\ flush.loss \in [Acc -> LossAcc \cup {Free}]
      /\ flush.owed \in [Slots -> Nat]
      /\ flush.edges \in Seq(Nat) /\ Len(flush.edges) <= StateCap
      /\ flush.flow \in BOOLEAN
  BY <1>3 DEF FlushOK
<1>7. PICK g \in Seq(Frame) :
        /\ fifo = Critical \o g
        /\ flush.seq = device_event_sequence + Len(g)
        /\ \A k \in 1..Len(g) : g[k].seq = device_event_sequence + k
  BY <1>3 DEF FlushOK
<1> HIDE DEF primary, pending
<1>8. /\ device_event_sequence \in Nat /\ host.last \in Nat
      /\ q_data \in Seq(Frame) /\ Critical \in Seq(Frame) /\ fifo \in Seq(Frame)
      /\ Len(g) \in Nat /\ CriticalCap \in Nat /\ DataCap \in Nat
      /\ Len(q_data) <= DataCap
  BY <1>6, ConcatProperties, LenProperties, EgressAssumption DEF TypeOK, Critical, Host
<1>9. ASSUME NEW f \in Seq(Frame), f # <<>>
      PROVE  /\ f[1] \in Frame /\ Tail(f) \in Seq(Frame)
             /\ Len(Tail(f)) <= Len(f) /\ Len(f) \in Nat /\ Len(Tail(f)) \in Nat
  <2>1. Len(f) \in Nat \ {0}
    BY <1>9, EmptySeq, LenProperties
  <2>2. QED
    BY <1>9, <2>1, HeadTailProperties, ElementOfSeq
<1>10. TypeOK'
  <2>1. /\ flush.seq \in Nat
        /\ q_critical_pending' \in Seq(Frame) /\ Len(q_critical_pending') <= CriticalCap
    BY <1>4, <1>6, <1>7, <1>8
  <2>2. /\ q_critical' \in Seq(Frame) /\ Len(q_critical') <= CriticalCap
        /\ q_data' \in Seq(Frame) /\ Len(q_data') <= DataCap
        /\ host' \in Host
    <3>1. CASE TakesCritical(primary) /\ q_critical' = Tail(primary)
               /\ host' = HostReceives(primary[1]) /\ q_data' = q_data
      <4>1. primary # <<>>
        BY <3>1 DEF TakesCritical
      <4>2. QED
        BY <3>1, <4>1, <1>6, <1>8, <1>9, HostReceivesType
    <3>2. CASE q_data # <<>> /\ q_data' = Tail(q_data)
               /\ host' = HostReceives(q_data[1]) /\ q_critical' = primary
      BY <3>2, <1>6, <1>8, <1>9, HostReceivesType
    <3>3. CASE q_critical' = primary /\ q_data' = q_data /\ host' = host
      BY <3>3, <1>6, <1>8 DEF TypeOK
    <3>4. QED
      BY <1>5, <3>1, <3>2, <3>3
  <2>3. QED
    BY <1>2, <1>4, <1>6, <2>1, <2>2 DEF TypeOK
<1>11. ASSUME EventOrder
       PROVE  EventOrder' /\ (host' # host => host'.last > host.last)
  <2>1. Ordered(Critical, q_data, host.last, device_event_sequence)
    BY <1>11 DEF EventOrder, Ordered
  <2>2. Ordered(fifo, q_data, host.last, flush.seq)
    <3>1. device_event_sequence <= device_event_sequence
      BY <1>8
    <3>2. QED
      BY <1>7, <1>8, <2>1, <3>1, OrderedAppends
  <2>3. flush.seq \in Nat
    BY <1>7, <1>8
  <2>4. primary # <<>> => fifo # <<>> /\ fifo[1] = primary[1]
                          /\ Tail(fifo) = Tail(primary) \o pending
    <3>1. ASSUME primary # <<>>
          PROVE  fifo # <<>> /\ Head(fifo) = Head(primary)
                 /\ Tail(fifo) = Tail(primary) \o pending
      BY <1>6, <3>1, ConcatProperties
    <3>2. QED
      BY <3>1
  <2>5. primary = <<>> => fifo = <<>>
    BY <1>6
  <2> HIDE DEF fifo
  <2>6. CASE TakesCritical(primary) /\ q_critical' = Tail(primary)
             /\ host' = HostReceives(primary[1]) /\ q_data' = q_data
    <3>1. primary # <<>> /\ (q_data # <<>> => primary[1].seq < q_data[1].seq)
      BY <2>6 DEF TakesCritical
    <3>2. host'.last = fifo[1].seq
      BY <2>4, <2>6, <3>1, <1>6, <1>9, HostReceivesType
    <3>3. /\ Ordered(Tail(fifo), q_data, fifo[1].seq, flush.seq)
          /\ host.last < fifo[1].seq
      BY <1>8, <2>2, <2>3, <2>4, <3>1, OrderedTake
    <3>4. Critical' = Tail(fifo)
      BY <1>4, <2>4, <2>6, <3>1 DEF Critical
    <3>5. fifo[1].seq \in Nat
      BY <1>8, <1>9, <2>4, <3>1 DEF Frame
    <3>6. Ordered(Critical', q_data', host'.last, device_event_sequence')
      BY <1>4, <2>6, <3>2, <3>3, <3>4
    <3>7. EventOrder'
      BY <3>6, Zenon DEF EventOrder, Ordered
    <3>8. host'.last > host.last
      BY <1>8, <3>2, <3>3, <3>5
    <3>9. QED
      BY <3>7, <3>8
  <2>7. CASE ~TakesCritical(primary) /\ q_data # <<>> /\ q_data' = Tail(q_data)
             /\ host' = HostReceives(q_data[1]) /\ q_critical' = primary
    <3>1. fifo # <<>> => q_data[1].seq < fifo[1].seq
      <4>1. ASSUME fifo # <<>>
            PROVE  q_data[1].seq < fifo[1].seq
        <5>1. primary # <<>> /\ fifo[1] = primary[1]
          BY <2>4, <2>5, <4>1
        <5>2. ~(fifo[1].seq < q_data[1].seq)
          BY <2>7, <5>1 DEF TakesCritical
        <5>3. 1 \in 1..Len(fifo) /\ 1 \in 1..Len(q_data)
          BY <1>8, <2>7, <4>1, EmptySeq, LenProperties
        <5>4. fifo[1].seq # q_data[1].seq
          BY <2>2, <5>3 DEF Ordered
        <5>5. fifo[1].seq \in Nat /\ q_data[1].seq \in Nat
          BY <1>8, <1>9, <2>7, <4>1 DEF Frame
        <5>6. QED
          BY <5>2, <5>4, <5>5
      <4>2. QED
        BY <4>1
    <3>2. Ordered(q_data, fifo, host.last, flush.seq)
      BY <1>8, <2>2, OrderedSymmetric
    <3>3. /\ Ordered(Tail(q_data), fifo, q_data[1].seq, flush.seq)
          /\ host.last < q_data[1].seq
      BY <1>8, <2>3, <2>7, <3>1, <3>2, OrderedTake
    <3>4. Tail(q_data) \in Seq(Frame) /\ q_data[1] \in Frame
      BY <1>8, <1>9, <2>7
    <3>5. Ordered(fifo, Tail(q_data), q_data[1].seq, flush.seq)
      BY <1>8, <3>3, <3>4, OrderedSymmetric
    <3>6. Critical' = fifo /\ host'.last = q_data[1].seq
      BY <1>4, <2>7, <3>4, HostReceivesType DEF Critical, fifo
    <3>7. Ordered(Critical', q_data', host'.last, device_event_sequence')
      BY <1>4, <2>7, <3>5, <3>6
    <3>8. EventOrder'
      BY <3>7, Zenon DEF EventOrder, Ordered
    <3>9. q_data[1].seq \in Nat
      BY <3>4 DEF Frame
    <3>10. QED
      BY <1>8, <3>3, <3>6, <3>8, <3>9
  <2>8. CASE q_critical' = primary /\ q_data' = q_data /\ host' = host
    <3>1. Critical' = fifo
      BY <1>4, <2>8 DEF Critical, fifo
    <3>2. Ordered(Critical', q_data', host'.last, device_event_sequence')
      BY <1>4, <2>2, <2>8, <3>1
    <3>3. QED
      BY <2>8, <3>2, Zenon DEF EventOrder, Ordered
  <2>9. QED
    BY <1>5, <2>6, <2>7, <2>8
<1>12. QED
  BY <1>10, <1>11
-----------------------------------------------------------------------------
(* The theorems.                                                            *)

(* The types hold at the start of a session, *)
LEMMA InitTypes == Init => TypeOK
<1> SUFFICES ASSUME Init PROVE TypeOK
  OBVIOUS
<1>1. /\ CriticalOK
      /\ q_data \in Seq(Frame) /\ Len(q_data) <= DataCap
      /\ q_pending_channel_state \in Seq(Nat)
      /\ Len(q_pending_channel_state) <= StateCap
  BY EgressAssumption DEF Init, CriticalOK
<1>2. host \in Host
  BY DEF Init, Host
<1>3. /\ loss \in [Acc -> LossAcc \cup {Free}]
      /\ delivery_pending \in [Slots -> Nat]
  BY DEF Init
<1>4. /\ config_generation \in Nat /\ next_channel_sequence \in Nat
      /\ finals \in Nat /\ edges \in Nat
      /\ rx_budget \in 0..RxBudget /\ control_budget \in 0..ControlBudget
  <2>1. /\ config_generation = 1 /\ next_channel_sequence = 0
        /\ finals = 0 /\ edges = 0 /\ rx_budget = RxBudget /\ control_budget = ControlBudget
    BY Zenon DEF Init
  <2>2. QED
    BY <2>1, EgressAssumption
<1>5. unrecorded \in SUBSET Nat
  BY DEF Init
<1>6. flow_control_pending \in BOOLEAN
  BY Zenon DEF Init
<1>7. QED
  BY <1>1, <1>2, <1>3, <1>4, <1>5, <1>6 DEF TypeOK, CriticalOK

(* and so does the order, there being no event. *)
LEMMA InitOrder == Init => EventOrder
<1> SUFFICES ASSUME Init PROVE EventOrder
  OBVIOUS
<1>1. /\ Critical = <<>> /\ q_data = <<>>
      /\ host.last = 0 /\ device_event_sequence = 0
  <2>1. <<>> \in Seq(Frame)
    OBVIOUS
  <2>2. <<>> \o <<>> = <<>>
    BY <2>1, ConcatEmptySeq, Zenon
  <2>3. QED
    BY <2>2 DEF Init, Critical
<1>2. QED
  BY <1>1 DEF EventOrder, Within, Increasing

(* What one step does to the types, to the order, and to the host.          *)
Preserved ==
  /\ TypeOK'
  /\ EventOrder => EventOrder' /\ (host' # host => host'.last > host.last)

(* Every step keeps both, and delivers in order. *)
LEMMA NextStep ==
  ASSUME TypeOK, [Next]_vars
  PROVE  Preserved
<1>1. ASSUME RestOK', Emission \/ Silence
      PROVE  Preserved
  <2>1. TypeOK'
    BY <1>1, EmissionTypes DEF TypeOK, CriticalOK, RestOK
  <2>2. EventOrder => EventOrder'
    BY <1>1, EmissionOrder
  <2>3. host' = host
    BY <1>1 DEF Emission, Silence
  <2>4. QED
    BY <2>1, <2>2, <2>3 DEF Preserved
<1>2. ASSUME NEW fits \in BOOLEAN, EmitRxBatch(fits) PROVE Preserved
  BY <1>2, EmitRxBatchStep DEF Preserved
<1>3. CASE NoteEventQueueLoss
  BY <1>1, <1>3, NoteEventQueueLossStep
<1>4. CASE OnRx(TRUE)
  BY <1>1, <1>4, OnRxStep
<1>5. CASE NoteRxRingLoss
  BY <1>1, <1>5, OnRxStep DEF NoteRxRingLoss
<1>6. ASSUME NEW slots \in SUBSET Quiet, FinalizeTx(slots) \/ Reconfigure(slots) PROVE Preserved
  <2>1. FinalizeSlots(slots) /\ config_generation' \in Nat /\ slots \in SUBSET Slots
    BY <1>6 DEF FinalizeTx, Reconfigure, TypeOK, Quiet
  <2>2. QED
    BY <1>1, <2>1, FinalizeSlotsStep
<1>7. ASSUME NEW slots \in SUBSET Quiet, NoteChannelState(slots) PROVE Preserved
  <2>1. PersistChannelState(slots) /\ config_generation' \in Nat /\ slots \in SUBSET Slots
    BY <1>7 DEF NoteChannelState, TypeOK, Quiet
  <2>2. QED
    BY <1>1, <2>1, PersistChannelStateStep
<1>8. ASSUME NEW slots \in SUBSET Quiet, ConfigChannel(slots) PROVE Preserved
  <2>1. PersistChannelState(slots) /\ config_generation' \in Nat /\ slots \in SUBSET Slots
    BY <1>8 DEF ConfigChannel, TypeOK, Quiet
  <2>2. QED
    BY <1>1, <2>1, PersistChannelStateStep
<1>9. CASE PollFlowControl
  BY <1>1, <1>9, PollFlowControlStep
<1>10. ASSUME NEW fits \in BOOLEAN, Dequeue(fits) PROVE Preserved
  BY <1>10, DequeueStep DEF Preserved
<1>11. CASE UNCHANGED vars
  <2>1. TypeOK'
    BY <1>11 DEF vars, TypeOK
  <2>2. EventOrder => EventOrder'
    BY <1>11 DEF vars, EventOrder, Critical
  <2>3. host' = host
    BY <1>11 DEF vars
  <2>4. QED
    BY <2>1, <2>2, <2>3 DEF Preserved
<1>12. Next => Preserved
  BY <1>2, <1>3, <1>4, <1>5, <1>6, <1>7, <1>8, <1>9, <1>10, Zenon DEF Next
<1>13. QED
  BY <1>11, <1>12

(* Type correctness of the session's queues, and their bounds: neither      *)
(* critical ring of enqueue_critical, nor the data ring, nor the pending    *)
(* channel-state FIFO, ever holds more than its capacity.                   *)
THEOREM TypeCorrect == Spec => []TypeOK
<1>1. Init => TypeOK
  BY InitTypes
<1>2. TypeOK /\ [Next]_vars => TypeOK'
  BY NextStep DEF Preserved
<1>3. QED
  BY <1>1, <1>2, PTL DEF Spec

(* The invariant from which the order of delivery follows: the rings behind *)
(* ucan_session_dequeue hold their frames in the order of their sequences,  *)
(* all newer than the host's latest, and none in two rings.                 *)
THEOREM EventsOrdered == Spec => []EventOrder
<1>1. Init => TypeOK /\ EventOrder
  BY InitTypes, InitOrder
<1>2. (TypeOK /\ EventOrder) /\ [Next]_vars => (TypeOK /\ EventOrder)'
  BY NextStep DEF Preserved
<1>3. QED
  BY <1>1, <1>2, PTL DEF Spec

(* ucan_session_dequeue hands out events in the order of their sequences,   *)
(* whatever the capacities and however long the session.                    *)
THEOREM DeliveredInOrder == Spec => InOrderDelivery
<1>1. TypeOK /\ EventOrder /\ [Next]_vars => [host' # host => host'.last > host.last]_vars
  BY NextStep DEF Preserved
<1>2. QED
  BY <1>1, TypeCorrect, EventsOrdered, PTL DEF Spec, InOrderDelivery

-----------------------------------------------------------------------------
(* UcanEgress implements EventStream: an emission is an admission, and a    *)
(* dequeue the delivery of the oldest frame.                                *)

(* The sequences of two queues one behind the other.                        *)
LEMMA SequencesConcat ==
  ASSUME NEW f \in Seq(Frame), NEW g \in Seq(Frame)
  PROVE  SequencesOf(f \o g) = SequencesOf(f) \cup SequencesOf(g)
<1>1. Len(f) \in Nat /\ Len(g) \in Nat /\ Len(f \o g) = Len(f) + Len(g)
  BY LenProperties, ConcatProperties
<1>2. \A i \in 1..Len(f) + Len(g) :
        (f \o g)[i] = IF i <= Len(f) THEN f[i] ELSE g[i - Len(f)]
  BY ConcatProperties
<1>3. ASSUME NEW s \in SequencesOf(f \o g) PROVE s \in SequencesOf(f) \cup SequencesOf(g)
  <2>1. PICK i \in 1..Len(f) + Len(g) : s = (f \o g)[i].seq
    BY <1>1, <1>3 DEF SequencesOf
  <2>2. CASE i <= Len(f)
    <3>1. i \in 1..Len(f) /\ s = f[i].seq
      BY <1>1, <1>2, <2>1, <2>2
    <3>2. QED
      BY <3>1 DEF SequencesOf
  <2>3. CASE ~(i <= Len(f))
    <3>1. i - Len(f) \in 1..Len(g) /\ s = g[i - Len(f)].seq
      BY <1>1, <1>2, <2>1, <2>3
    <3>2. QED
      BY <3>1 DEF SequencesOf
  <2>4. QED
    BY <2>2, <2>3
<1>4. ASSUME NEW s \in SequencesOf(f) PROVE s \in SequencesOf(f \o g)
  <2>1. PICK i \in 1..Len(f) : s = f[i].seq
    BY <1>4 DEF SequencesOf
  <2>2. i \in 1..Len(f \o g) /\ s = (f \o g)[i].seq
    BY <1>1, <1>2, <2>1
  <2>3. QED
    BY <2>2 DEF SequencesOf
<1>5. ASSUME NEW s \in SequencesOf(g) PROVE s \in SequencesOf(f \o g)
  <2>1. PICK i \in 1..Len(g) : s = g[i].seq
    BY <1>5 DEF SequencesOf
  <2>2. Len(f) + i \in 1..Len(f \o g) /\ s = (f \o g)[Len(f) + i].seq
    BY <1>1, <1>2, <2>1
  <2>3. QED
    BY <2>2 DEF SequencesOf
<1>6. QED
  BY <1>3, <1>4, <1>5

(* The head of a queue and the rest of it.                                  *)
LEMMA SequencesTail ==
  ASSUME NEW f \in Seq(Frame), f # <<>>
  PROVE  SequencesOf(f) = {f[1].seq} \cup SequencesOf(Tail(f))
<1>1. /\ Len(f) \in Nat \ {0} /\ Len(Tail(f)) = Len(f) - 1
      /\ \A i \in 1..Len(Tail(f)) : Tail(f)[i] = f[i + 1]
  BY EmptySeq, LenProperties, HeadTailProperties
<1>2. ASSUME NEW s \in SequencesOf(f) PROVE s \in {f[1].seq} \cup SequencesOf(Tail(f))
  <2>1. PICK i \in 1..Len(f) : s = f[i].seq
    BY <1>2 DEF SequencesOf
  <2>2. CASE i = 1
    BY <2>1, <2>2
  <2>3. CASE i # 1
    <3>1. i - 1 \in 1..Len(Tail(f)) /\ s = Tail(f)[i - 1].seq
      BY <1>1, <2>1, <2>3
    <3>2. QED
      BY <3>1 DEF SequencesOf
  <2>4. QED
    BY <2>2, <2>3
<1>3. ASSUME NEW s \in SequencesOf(Tail(f)) PROVE s \in SequencesOf(f)
  <2>1. PICK i \in 1..Len(Tail(f)) : s = Tail(f)[i].seq
    BY <1>3 DEF SequencesOf
  <2>2. i + 1 \in 1..Len(f) /\ s = f[i + 1].seq
    BY <1>1, <2>1
  <2>3. QED
    BY <2>2 DEF SequencesOf
<1>4. f[1].seq \in SequencesOf(f)
  BY <1>1 DEF SequencesOf
<1>5. QED
  BY <1>2, <1>3, <1>4

LEMMA SequencesTypes ==
  ASSUME NEW f \in Seq(Frame)
  PROVE  SequencesOf(f) \subseteq Nat
<1>1. \A i \in 1..Len(f) : f[i] \in Frame
  BY ElementOfSeq
<1>2. QED
  BY <1>1 DEF SequencesOf, Frame

(* Frames stamped from a base on have fresh sequences.                      *)
LEMMA SequencesFresh ==
  ASSUME NEW g \in Seq(Frame), NEW base \in Nat,
         \A k \in 1..Len(g) : g[k].seq = base + k
  PROVE  SequencesOf(g) \in SUBSET (base + 1 .. base + Len(g))
<1>1. Len(g) \in Nat
  BY LenProperties
<1>2. ASSUME NEW s \in SequencesOf(g) PROVE s \in base + 1 .. base + Len(g)
  <2>1. PICK k \in 1..Len(g) : s = base + k
    BY <1>2 DEF SequencesOf
  <2>2. QED
    BY <1>1, <2>1
<1>3. QED
  BY <1>2

Queued == SequencesOf(Critical) \cup SequencesOf(q_data)

(* The steps of the stream, in terms of the session.                        *)
Admits ==
  /\ device_event_sequence' \in Nat /\ device_event_sequence <= device_event_sequence'
  /\ \E fresh \in SUBSET (device_event_sequence + 1 .. device_event_sequence') :
       Queued' = Queued \cup fresh
  /\ host' = host

Delivers ==
  /\ device_event_sequence' \in Nat /\ device_event_sequence <= device_event_sequence'
  /\ \E fresh \in SUBSET (device_event_sequence + 1 .. device_event_sequence') :
       /\ host'.last \in Queued \cup fresh
       /\ \A other \in Queued \cup fresh : host'.last <= other
       /\ Queued' = (Queued \cup fresh) \ {host'.last}
       /\ host'.missing \in SUBSET (host.missing \cup (host.last + 1 .. host'.last - 1))

LEMMA AdmitsFresh ==
  ASSUME device_event_sequence' \in Nat, device_event_sequence <= device_event_sequence',
         NEW fresh \in SUBSET (device_event_sequence + 1 .. device_event_sequence'),
         Queued' = Queued \cup fresh, host' = host
  PROVE  Admits
BY Zenon DEF Admits

LEMMA AdmitsIsStep ==
  ASSUME Admits
  PROVE  Stream!Next
BY DEF Admits, Queued, Stream!Next, Stream!Admit

LEMMA DeliversIsStep ==
  ASSUME Delivers
  PROVE  Stream!Next
<1>1. PICK fresh \in SUBSET (device_event_sequence + 1 .. device_event_sequence') :
       /\ host'.last \in Queued \cup fresh
       /\ \A other \in Queued \cup fresh : host'.last <= other
       /\ Queued' = (Queued \cup fresh) \ {host'.last}
       /\ host'.missing \in SUBSET (host.missing \cup (host.last + 1 .. host'.last - 1))
  BY DEF Delivers
<1>2. Stream!Deliver(fresh)
  BY <1>1 DEF Queued, Stream!Deliver
<1>3. QED
  BY <1>2 DEF Delivers, Stream!Next
-----------------------------------------------------------------------------
(* The calls that only emit admit what they append.                         *)
LEMMA EmissionAdmits ==
  ASSUME TypeOK, Emission \/ Silence
  PROVE  Admits
<1>0. device_event_sequence \in Nat
  BY DEF TypeOK
<1>1. CASE Emission
  <2>1. PICK due \in Seq(Frame), base \in {device_event_sequence, device_event_sequence + 1} :
          Emit(due, base)
    BY <1>1 DEF Emission
  <2>2. base \in Nat /\ device_event_sequence <= base
    BY <1>0
  <2> DEFINE n == Admitted(due)
             g == Stamped(due, n, base)
  <2>3. n \in 0..Len(due)
    BY AdmittedBounds
  <2>4. g \in Seq(Frame) /\ Len(g) = n /\ \A k \in 1..n : g[k].seq = base + k
    BY <2>2, <2>3, StampedFrames
  <2>5. Critical' = Critical \o g /\ device_event_sequence' = base + n
    BY <2>1, <2>2, EmitAppends
  <2> HIDE DEF g
  <2>6. n \in Nat
    BY <2>3
  <2> HIDE DEF n
  <2>7. Critical \in Seq(Frame)
    BY ConcatProperties DEF TypeOK, Critical
  <2>8. SequencesOf(Critical') = SequencesOf(Critical) \cup SequencesOf(g)
    BY <2>4, <2>5, <2>7, SequencesConcat
  <2>9. SequencesOf(g) \in SUBSET (base + 1 .. base + n)
    BY <2>2, <2>4, SequencesFresh
  <2>10. SequencesOf(g) \in SUBSET (device_event_sequence + 1 .. device_event_sequence')
    BY <1>0, <2>2, <2>5, <2>6, <2>9
  <2>11. q_data' = q_data /\ host' = host
    BY <1>1 DEF Emission
  <2>12. Queued' = Queued \cup SequencesOf(g)
    BY <2>8, <2>11 DEF Queued
  <2>13. QED
    <3>1. device_event_sequence' \in Nat /\ device_event_sequence <= device_event_sequence'
      BY <1>0, <2>2, <2>5, <2>6
    <3>2. QED
      BY <2>10, <2>11, <2>12, <3>1, AdmitsFresh
<1>2. CASE Silence
  <2>1. Queued' = Queued \cup {}
    BY <1>2 DEF Silence, Queued, Critical
  <2>2. QED
    <3>1. device_event_sequence' = device_event_sequence /\ host' = host
      BY <1>2 DEF Silence
    <3>2. {} \in SUBSET (device_event_sequence + 1 .. device_event_sequence')
      OBVIOUS
    <3>3. QED
      <4>1. device_event_sequence' \in Nat /\ device_event_sequence <= device_event_sequence'
        BY <1>0, <3>1
      <4>2. QED
        BY <2>1, <3>1, <3>2, <4>1, AdmitsFresh, Zenon
<1>3. QED
  BY <1>1, <1>2

(* ucan_session_emit_rx_batch_records_at queues the batch or emits notices. *)
LEMMA EmitRxBatchAdmits ==
  ASSUME TypeOK, NEW fits \in BOOLEAN, EmitRxBatch(fits)
  PROVE  Admits
<1> DEFINE s == device_event_sequence + 1
           batch == [kind |-> "rx_batch", seq |-> s, first |-> 0, last |-> 0]
<1>1. s \in Nat /\ device_event_sequence \in Nat /\ host' = host
  BY DEF TypeOK, EmitRxBatch
<1>2. CASE fits /\ Len(q_data) < DataCap
  <2>1. /\ q_data' = Append(q_data, batch)
        /\ device_event_sequence' = s
        /\ UNCHANGED <<q_critical, q_critical_pending>>
    BY <1>2 DEF EmitRxBatch
  <2>2. batch \in Frame /\ batch.seq = s
    BY <1>1 DEF Frame, Kind
  <2> HIDE DEF batch
  <2>3. <<batch>> \in Seq(Frame) /\ Len(<<batch>>) = 1 /\ <<batch>>[1] = batch
    BY <2>2
  <2>4. q_data \in Seq(Frame) /\ q_data' = q_data \o <<batch>>
    BY <2>1, <2>2, AppendIsConcat DEF TypeOK
  <2>5. SequencesOf(q_data') = SequencesOf(q_data) \cup SequencesOf(<<batch>>)
    BY <2>3, <2>4, SequencesConcat
  <2>6. SequencesOf(<<batch>>) = {s}
    BY <2>2, <2>3 DEF SequencesOf
  <2>7. Queued' = Queued \cup {s}
    BY <2>1, <2>5, <2>6 DEF Queued, Critical
  <2>8. QED
    <3>1. {s} \in SUBSET (device_event_sequence + 1 .. device_event_sequence')
      BY <1>1, <2>1
    <3>2. QED
      <4>1. device_event_sequence' \in Nat /\ device_event_sequence <= device_event_sequence'
        BY <1>1, <2>1
      <4>2. QED
        BY <1>1, <2>7, <3>1, <4>1, AdmitsFresh, Zenon
<1>3. CASE ~(fits /\ Len(q_data) < DataCap)
  <2>1. PICK key \in Key : AccumulateLoss(key, s, s) /\ UNCHANGED q_data
    BY <1>3, Zenon DEF EmitRxBatch, Key, EventKey
  <2>2. \E due \in Seq(Frame) : Emit(due, s)
    BY <1>1, <2>1, AccumulateLossType
  <2>3. Emission
    BY <1>1, <2>1, <2>2 DEF Emission
  <2>4. QED
    BY <2>3, EmissionAdmits
<1>4. QED
  BY <1>2, <1>3

(* A host that takes a frame misses what lies between it and the last.      *)
LEMMA HostReceivesGaps ==
  ASSUME NEW frame \in Frame
  PROVE  HostReceives(frame).missing
           \in SUBSET (host.missing \cup (host.last + 1 .. frame.seq - 1))
BY DEF HostReceives

(* ucan_session_dequeue delivers the oldest of what waits after the flush,  *)
(* or hands out nothing.                                                    *)
LEMMA DequeueDelivers ==
  ASSUME TypeOK, EventOrder, NEW fits \in BOOLEAN, Dequeue(fits)
  PROVE  Admits \/ Delivers
<1>1. PICK accs \in Ascending(Occupied), slots \in Ascending(Owing) :
        LET flush    == FlushResult(accs, slots)
            critical == flush.rings.primary
        IN  /\ device_event_sequence' = flush.seq
            /\ q_critical_pending' = flush.rings.pending
            /\ \/ /\ fits /\ TakesCritical(critical)
                  /\ q_critical' = Tail(critical)
                  /\ host' = HostReceives(critical[1])
                  /\ UNCHANGED q_data
               \/ /\ fits /\ ~TakesCritical(critical) /\ q_data # <<>>
                  /\ q_data' = Tail(q_data)
                  /\ host' = HostReceives(q_data[1])
                  /\ q_critical' = critical
               \/ /\ ~fits \/ (critical = <<>> /\ q_data = <<>>)
                  /\ q_critical' = critical
                  /\ UNCHANGED <<q_data, host>>
  BY DEF Dequeue
<1> DEFINE flush   == FlushResult(accs, slots)
           primary == flush.rings.primary
           pending == flush.rings.pending
           fifo    == primary \o pending
           pool    == SequencesOf(fifo) \cup SequencesOf(q_data)
<1>2. FlushOK(flush)
  BY FlushTypes
<1> HIDE DEF flush
<1>3. device_event_sequence' = flush.seq /\ q_critical_pending' = pending
  BY <1>1 DEF flush
<1>4. \/ /\ TakesCritical(primary)
         /\ q_critical' = Tail(primary) /\ host' = HostReceives(primary[1])
         /\ q_data' = q_data
      \/ /\ q_data # <<>>
         /\ q_data' = Tail(q_data) /\ host' = HostReceives(q_data[1])
         /\ q_critical' = primary
      \/ /\ q_critical' = primary /\ q_data' = q_data /\ host' = host
  BY <1>1 DEF flush
<1>5. primary \in Seq(Frame) /\ pending \in Seq(Frame)
  BY <1>2 DEF FlushOK
<1>6. PICK g \in Seq(Frame) :
        /\ fifo = Critical \o g
        /\ flush.seq = device_event_sequence + Len(g)
        /\ \A k \in 1..Len(g) : g[k].seq = device_event_sequence + k
  BY <1>2 DEF FlushOK
<1> HIDE DEF primary, pending
<1>7. /\ device_event_sequence \in Nat /\ q_data \in Seq(Frame) /\ Len(g) \in Nat
      /\ Critical \in Seq(Frame) /\ fifo \in Seq(Frame)
  BY <1>5, ConcatProperties, LenProperties DEF TypeOK, Critical
<1>8. /\ device_event_sequence' \in Nat /\ device_event_sequence <= device_event_sequence'
      /\ SequencesOf(g) \in SUBSET (device_event_sequence + 1 .. device_event_sequence')
  <2>1. device_event_sequence' = device_event_sequence + Len(g)
    BY <1>3, <1>6
  <2>2. SequencesOf(g) \in SUBSET (device_event_sequence + 1 .. device_event_sequence + Len(g))
    BY <1>6, <1>7, SequencesFresh
  <2>3. QED
    BY <1>7, <2>1, <2>2
<1>9. pool = Queued \cup SequencesOf(g)
  BY <1>6, <1>7, SequencesConcat DEF Queued
<1>10. ASSUME NEW f \in Seq(Frame), f # <<>>
       PROVE  f[1] \in Frame /\ Tail(f) \in Seq(Frame)
  <2>1. Len(f) \in Nat \ {0}
    BY <1>10, EmptySeq, LenProperties
  <2>2. QED
    BY <1>10, <2>1, HeadTailProperties, ElementOfSeq
(* Whatever was delivered, all that is left lies above it. *)
<1>11. ASSUME NEW frame \in Frame, host' = HostReceives(frame),
              pool = {frame.seq} \cup Queued'
       PROVE  Delivers
  <2>1. host'.last = frame.seq /\ frame.seq \in Nat
    BY <1>11, HostReceivesType DEF Frame
  <2>2. TypeOK' /\ EventOrder'
    BY DequeueStep
  <2>3. \A s \in Queued' : s > frame.seq
    <3>1. \A i \in 1..Len(Critical') : host'.last < Critical'[i].seq
      BY <2>2 DEF EventOrder, Within
    <3>2. \A i \in 1..Len(q_data') : host'.last < q_data'[i].seq
      BY <2>2 DEF EventOrder, Within
    <3>3. SUFFICES ASSUME NEW s \in Queued' PROVE frame.seq < s
      BY <2>1, <2>2 DEF TypeOK, Frame
    <3>4. CASE s \in SequencesOf(Critical')
      BY <2>1, <3>1, <3>4 DEF SequencesOf
    <3>5. CASE s \in SequencesOf(q_data')
      BY <2>1, <3>2, <3>5 DEF SequencesOf
    <3>6. QED
      BY <3>3, <3>4, <3>5 DEF Queued
  <2>4. Queued' = pool \ {frame.seq}
    BY <1>11, <2>1, <2>3
  <2>5. \A other \in pool : frame.seq <= other
    <3> SUFFICES ASSUME NEW other \in {frame.seq} \cup Queued' PROVE frame.seq <= other
      BY <1>11
    <3>1. CASE other = frame.seq
      BY <2>1, <3>1
    <3>2. CASE other \in Queued'
      <4>1. other \in Nat
        BY <2>2, <3>2, ConcatProperties, SequencesTypes DEF Queued, Critical, TypeOK
      <4>2. QED
        BY <2>1, <2>3, <3>2, <4>1
    <3>3. QED
      BY <3>1, <3>2
  <2>6. host'.missing \in SUBSET (host.missing \cup (host.last + 1 .. host'.last - 1))
    BY <1>11, <2>1, HostReceivesGaps
  <2>7. QED
    BY <1>8, <1>9, <1>11, <2>1, <2>4, <2>5, <2>6 DEF Delivers
<1>12. CASE TakesCritical(primary) /\ q_critical' = Tail(primary)
            /\ host' = HostReceives(primary[1]) /\ q_data' = q_data
  <2>1. primary # <<>> /\ primary[1] \in Frame /\ Tail(primary) \in Seq(Frame)
    BY <1>5, <1>10, <1>12 DEF TakesCritical
  <2>2. Critical' = Tail(primary) \o pending
    BY <1>3, <1>12 DEF Critical
  <2>3. SequencesOf(Critical') = SequencesOf(Tail(primary)) \cup SequencesOf(pending)
    BY <1>5, <2>1, <2>2, SequencesConcat
  <2>4. SequencesOf(fifo) = SequencesOf(primary) \cup SequencesOf(pending)
    BY <1>5, SequencesConcat
  <2>5. SequencesOf(primary) = {primary[1].seq} \cup SequencesOf(Tail(primary))
    BY <1>5, <2>1, SequencesTail
  <2>6. pool = {primary[1].seq} \cup Queued'
    BY <1>12, <2>3, <2>4, <2>5 DEF Queued
  <2>7. QED
    BY <1>11, <1>12, <2>1, <2>6
<1>13. CASE q_data # <<>> /\ q_data' = Tail(q_data)
            /\ host' = HostReceives(q_data[1]) /\ q_critical' = primary
  <2>1. q_data[1] \in Frame
    BY <1>7, <1>10, <1>13
  <2>2. Critical' = fifo
    BY <1>3, <1>13 DEF Critical
  <2>3. SequencesOf(q_data) = {q_data[1].seq} \cup SequencesOf(q_data')
    BY <1>7, <1>13, SequencesTail
  <2>4. pool = {q_data[1].seq} \cup Queued'
    BY <2>2, <2>3 DEF Queued
  <2>5. QED
    BY <1>11, <1>13, <2>1, <2>4
<1>14. CASE q_critical' = primary /\ q_data' = q_data /\ host' = host
  <2>1. Queued' = pool
    BY <1>3, <1>14 DEF Queued, Critical
  <2>2. QED
    BY <1>8, <1>9, <1>14, <2>1 DEF Admits
<1>15. QED
  BY <1>4, <1>12, <1>13, <1>14
-----------------------------------------------------------------------------
(* Every step of the session is a step of the stream or none.               *)
LEMMA StepsAreTheStreams ==
  ASSUME TypeOK, EventOrder, Next
  PROVE  Admits \/ Delivers
<1>1. ASSUME NEW fits \in BOOLEAN, EmitRxBatch(fits) PROVE Admits
  BY <1>1, EmitRxBatchAdmits
<1>2. CASE NoteEventQueueLoss
  BY <1>2, NoteEventQueueLossStep, EmissionAdmits
<1>3. CASE OnRx(TRUE)
  BY <1>3, OnRxStep, EmissionAdmits
<1>4. CASE NoteRxRingLoss
  BY <1>4, OnRxStep, EmissionAdmits DEF NoteRxRingLoss
<1>5. ASSUME NEW slots \in SUBSET Quiet, FinalizeTx(slots) \/ Reconfigure(slots) PROVE Admits
  <2>1. FinalizeSlots(slots) /\ config_generation' \in Nat /\ slots \in SUBSET Slots
    BY <1>5 DEF FinalizeTx, Reconfigure, TypeOK, Quiet
  <2>2. QED
    BY <2>1, FinalizeSlotsStep, EmissionAdmits
<1>6. ASSUME NEW slots \in SUBSET Quiet, NoteChannelState(slots) PROVE Admits
  <2>1. PersistChannelState(slots) /\ config_generation' \in Nat /\ slots \in SUBSET Slots
    BY <1>6 DEF NoteChannelState, TypeOK, Quiet
  <2>2. QED
    BY <2>1, PersistChannelStateStep, EmissionAdmits
<1>7. ASSUME NEW slots \in SUBSET Quiet, ConfigChannel(slots) PROVE Admits
  <2>1. PersistChannelState(slots) /\ config_generation' \in Nat /\ slots \in SUBSET Slots
    BY <1>7 DEF ConfigChannel, TypeOK, Quiet
  <2>2. QED
    BY <2>1, PersistChannelStateStep, EmissionAdmits
<1>8. CASE PollFlowControl
  BY <1>8, PollFlowControlStep, EmissionAdmits
<1>9. ASSUME NEW fits \in BOOLEAN, Dequeue(fits) PROVE Admits \/ Delivers
  BY <1>9, DequeueDelivers
<1>10. QED
  BY <1>1, <1>2, <1>3, <1>4, <1>5, <1>6, <1>7, <1>8, <1>9, Zenon DEF Next

(* A session that has sent nothing is a stream that has.                    *)
LEMMA StreamInit == Init => Stream!Init
<1> SUFFICES ASSUME Init PROVE Stream!Init
  OBVIOUS
<1>1. Critical = <<>> /\ q_data = <<>>
  <2>1. <<>> \in Seq(Frame)
    OBVIOUS
  <2>2. <<>> \o <<>> = <<>>
    BY <2>1, ConcatEmptySeq, Zenon
  <2>3. QED
    BY <2>2 DEF Init, Critical
<1>2. SequencesOf(Critical) = {} /\ SequencesOf(q_data) = {}
  BY <1>1 DEF SequencesOf
<1>3. device_event_sequence = 0 /\ host.last = 0 /\ host.missing = {}
  BY DEF Init
<1>4. QED
  BY <1>2, <1>3 DEF Stream!Init

(* UcanEgress implements EventStream: the rings, the retry lists and the    *)
(* accumulators behind ucan_session_dequeue never lose a queued frame, hand *)
(* out the oldest of all, and leave the host no gap it did not see.         *)
THEOREM StreamImplemented == Spec => ImplementsStream
<1>1. Init => Stream!Init
  BY StreamInit
<1>2. TypeOK /\ EventOrder /\ [Next]_vars => [Stream!Next]_(Stream!vars)
  <2>1. TypeOK /\ EventOrder /\ Next => Stream!Next
    BY StepsAreTheStreams, AdmitsIsStep, DeliversIsStep
  <2>2. UNCHANGED vars => UNCHANGED Stream!vars
    BY DEF vars, Stream!vars, Critical
  <2>3. QED
    BY <2>1, <2>2
<1>3. QED
  BY <1>1, <1>2, TypeCorrect, EventsOrdered, PTL DEF Spec, ImplementsStream, Stream!Spec

-----------------------------------------------------------------------------
(* The frames that an emission appends.                                     *)

(* Frames that carry what the first of `due' carry, stamped from base on.   *)
Carries(g, due, base) ==
  /\ Len(g) <= Len(due)
  /\ \A k \in 1..Len(g) : /\ g[k].kind = due[k].kind
                          /\ g[k].first = due[k].first
                          /\ g[k].last = due[k].last
                          /\ g[k].seq = base + k

(* A stamp changes nothing but the sequence.                                *)
LEMMA FrameExceptKeeps ==
  ASSUME NEW f \in Frame, NEW n \in Nat
  PROVE  /\ [f EXCEPT !.seq = n].kind = f.kind
         /\ [f EXCEPT !.seq = n].first = f.first
         /\ [f EXCEPT !.seq = n].last = f.last
         /\ [f EXCEPT !.seq = n].seq = n
BY DEF Frame

LEMMA StampedCarries ==
  ASSUME NEW due \in Seq(Frame), NEW n \in 0..Len(due), NEW base \in Nat
  PROVE  /\ Stamped(due, n, base) \in Seq(Frame)
         /\ Len(Stamped(due, n, base)) = n
         /\ Carries(Stamped(due, n, base), due, base)
<1> DEFINE g == Stamped(due, n, base)
<1>1. Len(due) \in Nat
  BY LenProperties
<1>2. g \in Seq(Frame) /\ Len(g) = n
  BY StampedFrames
<1>3. ASSUME NEW k \in 1..n
      PROVE  /\ g[k].kind = due[k].kind /\ g[k].first = due[k].first
             /\ g[k].last = due[k].last /\ g[k].seq = base + k
  <2>1. k \in 1..Len(due) /\ base + k \in Nat
    BY <1>1
  <2>2. due[k] \in Frame
    BY <2>1, ElementOfSeq
  <2>3. g[k] = [due[k] EXCEPT !.seq = base + k]
    BY <1>3 DEF Stamped
  <2>4. QED
    BY <2>1, <2>2, <2>3, FrameExceptKeeps
<1> HIDE DEF g
<1>4. Carries(g, due, base)
  BY <1>1, <1>2, <1>3 DEF Carries
<1>5. QED
  BY <1>2, <1>4 DEF g

(* What Emit appends to the critical FIFO.                                  *)
LEMMA EmitCarries ==
  ASSUME TypeOK, NEW due \in Seq(Frame), NEW base \in Nat, Emit(due, base)
  PROVE  \E g \in Seq(Frame) :
           /\ Critical' = Critical \o g
           /\ Len(g) = Admitted(due) /\ Admitted(due) \in 0..Len(due)
           /\ device_event_sequence' = base + Admitted(due)
           /\ Carries(g, due, base)
<1>1. Admitted(due) \in 0..Len(due)
  BY AdmittedBounds
<1>2. /\ Stamped(due, Admitted(due), base) \in Seq(Frame)
      /\ Len(Stamped(due, Admitted(due), base)) = Admitted(due)
      /\ Carries(Stamped(due, Admitted(due), base), due, base)
  BY <1>1, StampedCarries
<1>3. /\ device_event_sequence' = base + Admitted(due)
      /\ Critical' = Critical \o Stamped(due, Admitted(due), base)
  BY EmitAppends
<1>4. QED
  BY <1>1, <1>2, <1>3

(* The elements of a sequence with another behind it, and of its tail.      *)
LEMMA ConcatElements ==
  ASSUME NEW f \in Seq(Frame), NEW g \in Seq(Frame)
  PROVE  /\ Len(f) \in Nat /\ Len(g) \in Nat
         /\ f \o g \in Seq(Frame) /\ Len(f \o g) = Len(f) + Len(g)
         /\ \A i \in 1..Len(f) : i \in 1..Len(f \o g) /\ (f \o g)[i] = f[i]
         /\ \A k \in 1..Len(g) : Len(f) + k \in 1..Len(f \o g) /\ (f \o g)[Len(f) + k] = g[k]
         /\ \A i \in 1..Len(f \o g) : i \in 1..Len(f) \/ \E k \in 1..Len(g) : i = Len(f) + k
<1>1. Len(f) \in Nat /\ Len(g) \in Nat
  BY LenProperties
<1>2. f \o g \in Seq(Frame) /\ Len(f \o g) = Len(f) + Len(g)
  BY ConcatProperties
<1>3. \A i \in 1..Len(f) + Len(g) :
        (f \o g)[i] = IF i <= Len(f) THEN f[i] ELSE g[i - Len(f)]
  BY ConcatProperties
<1>4. \A i \in 1..Len(f) : i \in 1..Len(f) + Len(g) /\ (f \o g)[i] = f[i]
  BY <1>1, <1>3
<1>5. \A k \in 1..Len(g) : Len(f) + k \in 1..Len(f) + Len(g) /\ (f \o g)[Len(f) + k] = g[k]
  BY <1>1, <1>3
<1>6. ASSUME NEW i \in 1..Len(f) + Len(g), i \notin 1..Len(f)
      PROVE  \E k \in 1..Len(g) : i = Len(f) + k
  <2>1. i - Len(f) \in 1..Len(g) /\ i = Len(f) + (i - Len(f))
    BY <1>1, <1>6
  <2>2. QED
    BY <2>1
<1>7. QED
  BY <1>1, <1>2, <1>4, <1>5, <1>6

LEMMA TailElements ==
  ASSUME NEW f \in Seq(Frame), f # <<>>
  PROVE  /\ Len(f) \in Nat /\ 1 \in 1..Len(f) /\ f[1] \in Frame
         /\ Tail(f) \in Seq(Frame) /\ Len(Tail(f)) = Len(f) - 1
         /\ \A i \in 1..Len(Tail(f)) : i + 1 \in 1..Len(f) /\ Tail(f)[i] = f[i + 1]
         /\ \A i \in 1..Len(f) : i # 1 => \E k \in 1..Len(Tail(f)) : i = k + 1
<1>1. Len(f) \in Nat \ {0}
  BY EmptySeq, LenProperties
<1>2. /\ Tail(f) \in Seq(Frame) /\ Len(Tail(f)) = Len(f) - 1
      /\ \A i \in 1..Len(Tail(f)) : Tail(f)[i] = f[i + 1]
  BY HeadTailProperties
<1>3. \A i \in 1..Len(Tail(f)) : i + 1 \in 1..Len(f)
  BY <1>1, <1>2
<1>4. ASSUME NEW i \in 1..Len(f), i # 1
      PROVE  \E k \in 1..Len(Tail(f)) : i = k + 1
  <2>1. i - 1 \in 1..Len(Tail(f)) /\ i = (i - 1) + 1
    BY <1>1, <1>2, <1>4
  <2>2. QED
    BY <2>1
<1>5. 1 \in 1..Len(f) /\ f[1] \in Frame
  BY <1>1, ElementOfSeq
<1>6. QED
  BY <1>1, <1>2, <1>3, <1>4, <1>5

(* A loop over indices meets none twice.                                    *)
LEMMA AscendingDistinct ==
  ASSUME NEW m \in Nat, NEW S \in SUBSET (1..m), NEW order \in Ascending(S)
  PROVE  /\ Len(order) \in Nat
         /\ \A k \in 1..Len(order) : order[k] \in S
         /\ \A j, k \in 1..Len(order) : order[j] = order[k] => j = k
<1>1. /\ order \in Seq(S) /\ Len(order) \in Nat
      /\ \A k \in 1..Len(order) : order[k] \in S
  BY AscendingSeq
<1>2. Len(order) = Cardinality(S)
  <2>1. Cardinality(S) \in Nat
    <3>1. IsFiniteSet(S)
      BY FS_Interval, FS_Subset, 1 \in Int, m \in Int
    <3>2. QED
      BY <3>1, FS_CardinalityType
  <2>2. order \in [1..Cardinality(S) -> S]
    BY DEF Ascending
  <2>3. QED
    BY <2>1, <2>2, LenProperties
<1>3. \A j, k \in 1..Len(order) : j < k => order[j] < order[k]
  BY <1>2 DEF Ascending
<1>4. \A k \in 1..Len(order) : order[k] \in Nat
  <2>1. \A x \in S : x \in Nat
    OBVIOUS
  <2>2. QED
    BY <1>1, <2>1
<1>5. ASSUME NEW j \in 1..Len(order), NEW k \in 1..Len(order), order[j] = order[k]
      PROVE  j = k
  <2>1. ~(j < k) /\ ~(k < j)
    BY <1>3, <1>4, <1>5
  <2>2. QED
    BY <1>1, <2>1
<1>6. QED
  BY <1>1, <1>5
-----------------------------------------------------------------------------
(* What flush_pending moves: the first n of what waits, notices before      *)
(* results, results before edges, edges before flow control, go behind the  *)
(* critical FIFO, and what went is no longer owed.                          *)
FlushMoves(flush, accs, slots, g) ==
  LET q == q_pending_channel_state
      A == Len(accs)
      S == Len(slots)
      n == Len(g)
  IN  /\ flush.rings.primary \o flush.rings.pending = Critical \o g
      /\ flush.seq = device_event_sequence + n
      /\ \A k \in 1..n : g[k].seq = device_event_sequence + k
      /\ \A k \in 1..n : k <= A => /\ g[k].kind = LossNotice(loss[accs[k]]).kind
                                   /\ g[k].first = LossNotice(loss[accs[k]]).first
                                   /\ g[k].last = LossNotice(loss[accs[k]]).last
      /\ \A k \in 1..n : A < k /\ k <= A + S =>
           g[k].kind = "tx_result" /\ g[k].first = delivery_pending[slots[k - A]]
      /\ \A k \in 1..n : A + S < k /\ k <= A + S + Len(q) =>
           g[k].kind = "channel_state" /\ g[k].first = q[k - A - S]
      /\ \A k \in 1..n : A + S + Len(q) < k => g[k].kind = "flow_control"
      /\ flush.loss = Freed(accs, Lesser(A, n))
      /\ flush.owed = [i \in Slots |->
                         IF \E k \in 1..Lesser(S, Greater(0, n - A)) : slots[k] = i
                         THEN 0 ELSE delivery_pending[i]]
      /\ flush.edges = SubSeq(q, Lesser(Len(q), Greater(0, n - A - S)) + 1, Len(q))

LEMMA FlushMoved ==
  ASSUME TypeOK, NEW accs \in Ascending(Occupied), NEW slots \in Ascending(Owing)
  PROVE  \E g \in Seq(Frame) : FlushMoves(FlushResult(accs, slots), accs, slots, g)
<1> DEFINE q == q_pending_channel_state
           notices == Notices(accs)
           owedFrames == [k \in 1..Len(slots) |-> TxResult(delivery_pending[slots[k]])]
           edgeFrames == [k \in 1..Len(q) |-> ChannelState(q[k])]
           flowFrames == IF flow_control_pending THEN <<FlowControl>> ELSE <<>>
           due  == notices \o owedFrames \o edgeFrames \o flowFrames
           held == Len(q_critical) + Len(q_critical_pending)
           n    == IF held >= CriticalCap THEN 0 ELSE Admitted(due)
           g    == Stamped(due, n, device_event_sequence)
           fifo == q_critical \o q_critical_pending \o g
           share(before, size) == Lesser(size, Greater(0, n - before))
           edgesIn == share(Len(accs) + Len(slots), Len(edgeFrames))
           flush == FlushResult(accs, slots)
<1>1. /\ flush.rings = Rings(fifo, Lesser(CriticalCap, Len(fifo)))
      /\ flush.seq = device_event_sequence + n
      /\ flush.loss = Freed(accs, share(0, Len(accs)))
      /\ flush.owed = [i \in Slots |->
                          IF \E k \in 1..share(Len(accs), Len(slots)) : slots[k] = i
                          THEN 0 ELSE delivery_pending[i]]
      /\ flush.edges = SubSeq(q, edgesIn + 1, Len(edgeFrames))
  BY Zenon DEF FlushResult
<1>2. notices \in Seq(Frame) /\ Len(accs) \in Nat /\ Len(notices) = Len(accs)
  <2>1. NAcc \in Nat /\ Occupied \in SUBSET (1..NAcc)
    BY EgressAssumption DEF Occupied, Acc
  <2>2. QED
    BY <2>1, NoticesFrames, AscendingSeq
<1>3. Len(slots) \in Nat /\ \A k \in 1..Len(slots) : slots[k] \in Slots
  BY ResultsFrames DEF Owing
<1>4. owedFrames \in Seq(Frame) /\ Len(owedFrames) = Len(slots)
  <2>1. \A m \in Nat : TxResult(m) \in Frame
    BY DEF TxResult, Frame, Kind
  <2>2. \A k \in 1..Len(slots) : delivery_pending[slots[k]] \in Nat
    BY <1>3 DEF TypeOK
  <2>3. owedFrames \in [1..Len(slots) -> Frame]
    BY <2>1, <2>2
  <2>4. QED
    BY <1>3, <2>3, SeqDef, LenProperties
<1>5. edgeFrames \in Seq(Frame) /\ Len(edgeFrames) = Len(q) /\ Len(q) \in Nat
  <2>1. \A m \in Nat : ChannelState(m) \in Frame
    BY DEF ChannelState, Frame, Kind
  <2>2. Len(q) \in Nat /\ \A k \in 1..Len(q) : q[k] \in Nat
    BY LenProperties, ElementOfSeq DEF TypeOK
  <2>3. edgeFrames \in [1..Len(q) -> Frame]
    BY <2>1, <2>2
  <2>4. QED
    BY <2>2, <2>3, SeqDef, LenProperties
<1>6. flowFrames \in Seq(Frame) /\ \A k \in 1..Len(flowFrames) : flowFrames[k].kind = "flow_control"
  <2>1. CASE flow_control_pending
    <3>1. flowFrames = <<FlowControl>> /\ FlowControl.kind = "flow_control"
      BY <2>1 DEF FlowControl
    <3>2. QED
      BY <3>1, FlowControlFrame
  <2>2. CASE ~flow_control_pending
    BY <2>2
  <2>3. QED
    BY <2>1, <2>2
<1>7. /\ \A k \in 1..Len(accs) : notices[k] = LossNotice(loss[accs[k]])
      /\ \A k \in 1..Len(slots) : /\ owedFrames[k].kind = "tx_result"
                                  /\ owedFrames[k].first = delivery_pending[slots[k]]
      /\ \A k \in 1..Len(q) : edgeFrames[k].kind = "channel_state" /\ edgeFrames[k].first = q[k]
  BY DEF Notices, TxResult, ChannelState
<1> HIDE DEF notices, owedFrames, edgeFrames, flowFrames
<1> DEFINE A == Len(accs)
           S == Len(slots)
           E == Len(q)
<1>8. /\ due \in Seq(Frame) /\ Len(due) \in Nat
      /\ \A k \in 1..Len(due) :
           /\ k <= A => due[k] = notices[k]
           /\ A < k /\ k <= A + S => due[k] = owedFrames[k - A]
           /\ A + S < k /\ k <= A + S + E => due[k] = edgeFrames[k - A - S]
           /\ A + S + E < k => /\ k - A - S - E \in 1..Len(flowFrames)
                               /\ due[k] = flowFrames[k - A - S - E]
  <2> DEFINE d2 == notices \o owedFrames
             d3 == d2 \o edgeFrames
  <2>1. /\ d2 \in Seq(Frame) /\ Len(d2) = A + S
        /\ \A k \in 1..A + S : d2[k] = IF k <= A THEN notices[k] ELSE owedFrames[k - A]
    <3>1. /\ d2 \in Seq(Frame) /\ Len(d2) = Len(notices) + Len(owedFrames)
          /\ \A k \in 1..Len(notices) + Len(owedFrames) :
               d2[k] = IF k <= Len(notices) THEN notices[k] ELSE owedFrames[k - Len(notices)]
      BY <1>2, <1>4, ConcatProperties, Zenon
    <3>2. Len(notices) = A /\ Len(owedFrames) = S
      BY <1>2, <1>4
    <3> HIDE DEF d2, A, S
    <3>3. QED
      BY <3>1, <3>2
  <2> HIDE DEF d2
  <2>2. /\ d3 \in Seq(Frame) /\ Len(d3) = A + S + E
        /\ \A k \in 1..A + S + E : d3[k] = IF k <= A + S THEN d2[k] ELSE edgeFrames[k - (A + S)]
    <3>0. d2 \in Seq(Frame) /\ edgeFrames \in Seq(Frame)
      BY <1>5, <2>1
    <3>1. /\ d3 \in Seq(Frame) /\ Len(d3) = Len(d2) + Len(edgeFrames)
          /\ \A k \in 1..Len(d2) + Len(edgeFrames) :
               d3[k] = IF k <= Len(d2) THEN d2[k] ELSE edgeFrames[k - Len(d2)]
      BY <3>0, ConcatProperties, Zenon
    <3>2. Len(edgeFrames) = E
      BY <1>5
    <3> HIDE DEF d3, A, S, E
    <3>3. QED
      BY <2>1, <3>1, <3>2
  <2>3. due = d3 \o flowFrames
    BY DEF d2
  <2> HIDE DEF d3
  <2>4. Len(flowFrames) \in Nat
    BY <1>6, LenProperties
  <2>5. /\ due \in Seq(Frame) /\ Len(due) = A + S + E + Len(flowFrames)
        /\ \A k \in 1..A + S + E + Len(flowFrames) :
             due[k] = IF k <= A + S + E THEN d3[k] ELSE flowFrames[k - (A + S + E)]
    BY <1>6, <2>2, <2>3, ConcatProperties
  <2> HIDE DEF due
  <2>6. A \in Nat /\ S \in Nat /\ E \in Nat
    BY <1>2, <1>3, <1>5
  <2> HIDE DEF A, S, E
  <2>7. ASSUME NEW k \in 1..Len(due)
        PROVE  /\ k <= A => due[k] = notices[k]
               /\ A < k /\ k <= A + S => due[k] = owedFrames[k - A]
               /\ A + S < k /\ k <= A + S + E => due[k] = edgeFrames[k - A - S]
               /\ A + S + E < k => /\ k - A - S - E \in 1..Len(flowFrames)
                                   /\ due[k] = flowFrames[k - A - S - E]
    <3>1. k \in 1..A + S + E + Len(flowFrames)
      BY <2>5
    <3>2. CASE k <= A
      BY <2>1, <2>2, <2>4, <2>5, <2>6, <3>1, <3>2
    <3>3. CASE A < k /\ k <= A + S
      BY <2>1, <2>2, <2>4, <2>5, <2>6, <3>1, <3>3
    <3>4. CASE A + S < k /\ k <= A + S + E
      <4>1. k - (A + S) = k - A - S
        BY <2>6, <3>1
      <4>2. QED
        BY <2>2, <2>4, <2>5, <2>6, <3>1, <3>4, <4>1
    <3>5. CASE A + S + E < k
      <4>1. k - (A + S + E) = k - A - S - E
        BY <2>6, <3>1
      <4>2. QED
        BY <2>4, <2>5, <2>6, <3>1, <3>5, <4>1
    <3>6. QED
      BY <2>6, <3>2, <3>3, <3>4, <3>5
  <2>8. Len(due) \in Nat
    BY <2>4, <2>5, <2>6
  <2>9. QED
    BY <2>5, <2>7, <2>8, Zenon
<1> HIDE DEF due
<1>9. /\ CriticalCap \in Nat /\ held \in Nat
      /\ q_critical \o q_critical_pending \in Seq(Frame)
      /\ Len(q_critical \o q_critical_pending) = held
      /\ held <= 2 * CriticalCap
      /\ device_event_sequence \in Nat
  BY EgressAssumption, LenProperties, ConcatProperties DEF TypeOK
<1>10. n \in 0..Len(due) /\ held + n <= 2 * CriticalCap
  <2>1. Admitted(due) \in 0..Len(due) /\ Admitted(due) <= CriticalRoom
    BY <1>8, AdmittedBounds
  <2>2. CriticalRoom = 2 * CriticalCap - Len(q_critical) - Len(q_critical_pending)
    BY DEF CriticalRoom
  <2>3. Len(q_critical) \in Nat /\ Len(q_critical_pending) \in Nat
    BY LenProperties DEF TypeOK
  <2>4. QED
    BY <1>8, <1>9, <2>1, <2>2, <2>3
<1> HIDE DEF n, held
<1>11. g \in Seq(Frame) /\ Len(g) = n /\ Carries(g, due, device_event_sequence)
  BY <1>8, <1>9, <1>10, StampedCarries
<1> HIDE DEF g
<1>12. fifo \in Seq(Frame) /\ Len(fifo) = held + n /\ fifo = Critical \o g
  BY <1>9, <1>11, ConcatProperties DEF Critical
<1> HIDE DEF fifo
<1>13. flush.rings.primary \o flush.rings.pending = Critical \o g
  BY <1>1, <1>9, <1>10, <1>12, RefillBounds, Zenon
<1>14. A \in Nat /\ S \in Nat /\ E \in Nat /\ n \in Nat /\ n <= Len(due)
  BY <1>2, <1>3, <1>5, <1>8, <1>10
<1>15. /\ flush.loss = Freed(accs, Lesser(A, n))
       /\ flush.owed = [i \in Slots |->
                          IF \E k \in 1..Lesser(S, Greater(0, n - A)) : slots[k] = i
                          THEN 0 ELSE delivery_pending[i]]
       /\ flush.edges = SubSeq(q, Lesser(E, Greater(0, n - A - S)) + 1, E)
  <2>1. Greater(0, n - 0) = n /\ n - (A + S) = n - A - S
    BY <1>14 DEF Greater
  <2>2. share(0, A) = Lesser(A, n) /\ edgesIn = Lesser(E, Greater(0, n - A - S))
    BY <1>5, <2>1
  <2>3. QED
    BY <1>1, <1>5, <2>2
<1>16. ASSUME NEW k \in 1..n
       PROVE  /\ g[k].seq = device_event_sequence + k
              /\ k <= A => /\ g[k].kind = LossNotice(loss[accs[k]]).kind
                           /\ g[k].first = LossNotice(loss[accs[k]]).first
                           /\ g[k].last = LossNotice(loss[accs[k]]).last
              /\ A < k /\ k <= A + S =>
                   g[k].kind = "tx_result" /\ g[k].first = delivery_pending[slots[k - A]]
              /\ A + S < k /\ k <= A + S + E =>
                   g[k].kind = "channel_state" /\ g[k].first = q[k - A - S]
              /\ A + S + E < k => g[k].kind = "flow_control"
  <2>1. k \in 1..Len(due)
    BY <1>14
  <2>2. /\ g[k].kind = due[k].kind /\ g[k].first = due[k].first
        /\ g[k].last = due[k].last /\ g[k].seq = device_event_sequence + k
    BY <1>11 DEF Carries
  <2>3. /\ k <= A => k \in 1..A
        /\ A < k /\ k <= A + S => k - A \in 1..S
        /\ A + S < k /\ k <= A + S + E => k - A - S \in 1..E
    BY <1>14
  <2>4. k <= A => /\ g[k].kind = LossNotice(loss[accs[k]]).kind
                  /\ g[k].first = LossNotice(loss[accs[k]]).first
                  /\ g[k].last = LossNotice(loss[accs[k]]).last
    BY <1>7, <1>8, <2>1, <2>2, <2>3
  <2>5. A < k /\ k <= A + S =>
          g[k].kind = "tx_result" /\ g[k].first = delivery_pending[slots[k - A]]
    BY <1>7, <1>8, <2>1, <2>2, <2>3
  <2>6. A + S < k /\ k <= A + S + E =>
          g[k].kind = "channel_state" /\ g[k].first = q[k - A - S]
    BY <1>7, <1>8, <2>1, <2>2, <2>3
  <2>7. A + S + E < k => g[k].kind = "flow_control"
    BY <1>6, <1>8, <2>1, <2>2
  <2>8. QED
    BY <2>2, <2>4, <2>5, <2>6, <2>7
<1>17. flush.seq = device_event_sequence + n
  BY <1>1
<1> HIDE DEF flush
<1>18. FlushMoves(flush, accs, slots, g)
  BY <1>11, <1>13, <1>15, <1>16, <1>17 DEF FlushMoves
<1>19. QED
  BY <1>11, <1>18 DEF flush
-----------------------------------------------------------------------------
(* Where the final results are.                                             *)

IsResult(f) == f.kind = "tx_result"

(* Each of the results 1..total is queued in c, or owed, or received by the *)
(* host (got), and is in no two places.                                     *)
Placed(c, owed, got, total) ==
  /\ \A i \in 1..Len(c) : IsResult(c[i]) => c[i].first \in 1..total
  /\ \A j \in Slots : owed[j] \in 0..total
  /\ got \in SUBSET (1..total)
  /\ \A i, j \in 1..Len(c) :
       IsResult(c[i]) /\ IsResult(c[j]) /\ c[i].first = c[j].first => i = j
  /\ \A i, j \in Slots : owed[i] # 0 /\ owed[i] = owed[j] => i = j
  /\ \A i \in 1..Len(c), j \in Slots : IsResult(c[i]) => c[i].first # owed[j]
  /\ \A i \in 1..Len(c) : IsResult(c[i]) => c[i].first \notin got
  /\ \A j \in Slots : owed[j] \notin got
  /\ \A n \in 1..total : \/ n \in got
                         \/ \E j \in Slots : owed[j] = n
                         \/ \E i \in 1..Len(c) : IsResult(c[i]) /\ c[i].first = n

(* What an emission does to the results: those in g were owed or are new,   *)
(* those that are owed afterwards were owed before or are new.              *)
ResultsMove(g, owed, after, total, new) ==
  /\ \A k \in 1..Len(g) : IsResult(g[k]) =>
       /\ g[k].first \in 1..new
       /\ g[k].first > total \/ \E j \in Slots : owed[j] = g[k].first
  /\ \A k, m \in 1..Len(g) :
       IsResult(g[k]) /\ IsResult(g[m]) /\ g[k].first = g[m].first => k = m
  /\ \A j \in Slots : /\ after[j] \in 0..new
                      /\ after[j] # 0 => after[j] = owed[j] \/ after[j] > total
                      /\ owed[j] # 0 => \/ after[j] = owed[j]
                                        \/ \E k \in 1..Len(g) :
                                             IsResult(g[k]) /\ g[k].first = owed[j]
  /\ \A i, j \in Slots : after[i] # 0 /\ after[i] = after[j] => i = j
  /\ \A k \in 1..Len(g), j \in Slots : IsResult(g[k]) => g[k].first # after[j]
  /\ \A n \in total + 1..new : \/ \E j \in Slots : after[j] = n
                               \/ \E k \in 1..Len(g) : IsResult(g[k]) /\ g[k].first = n

LEMMA PlacedAppends ==
  ASSUME NEW c \in Seq(Frame), NEW g \in Seq(Frame), NEW owed, NEW after, NEW got,
         NEW total \in Nat, NEW new \in Nat, total <= new,
         Placed(c, owed, got, total), ResultsMove(g, owed, after, total, new)
  PROVE  Placed(c \o g, after, got, new)
<1> DEFINE f == c \o g
<1>1. /\ \A i \in 1..Len(c) : i \in 1..Len(f) /\ f[i] = c[i]
      /\ \A k \in 1..Len(g) : Len(c) + k \in 1..Len(f) /\ f[Len(c) + k] = g[k]
      /\ \A i \in 1..Len(f) : i \in 1..Len(c) \/ \E k \in 1..Len(g) : i = Len(c) + k
  BY ConcatElements
<1> HIDE DEF f
<1>2. /\ \A n \in 1..total : n \in 1..new /\ n # 0 /\ ~(n > total)
      /\ \A n \in 0..total : n \in 0..new /\ ~(n > total)
      /\ \A n \in 1..new : n \in 1..total \/ n \in total + 1..new
      /\ \A n \in 1..new : n > total => n \notin 1..total
      /\ 0 \notin 1..total
  OBVIOUS
<1>3. ASSUME NEW i \in 1..Len(f), IsResult(f[i])
      PROVE  \/ i \in 1..Len(c) /\ IsResult(c[i]) /\ f[i].first = c[i].first
             \/ \E k \in 1..Len(g) : i = Len(c) + k /\ IsResult(g[k]) /\ f[i].first = g[k].first
  BY <1>1, <1>3
<1>4. \A k \in 1..Len(g) : IsResult(g[k]) =>
        /\ g[k].first \in 1..new
        /\ g[k].first \notin got
        /\ \A i \in 1..Len(c) : IsResult(c[i]) => c[i].first # g[k].first
  <2> SUFFICES ASSUME NEW k \in 1..Len(g), IsResult(g[k])
               PROVE  /\ g[k].first \in 1..new
                      /\ g[k].first \notin got
                      /\ \A i \in 1..Len(c) : IsResult(c[i]) => c[i].first # g[k].first
    OBVIOUS
  <2>1. g[k].first \in 1..new
    BY DEF ResultsMove
  <2>2. CASE g[k].first > total
    <3>1. g[k].first \notin 1..total
      BY <1>2, <2>1, <2>2
    <3>2. QED
      BY <2>1, <3>1 DEF Placed
  <2>3. CASE \E j \in Slots : owed[j] = g[k].first
    BY <2>1, <2>3 DEF Placed
  <2>4. QED
    BY <2>2, <2>3 DEF ResultsMove
<1>5. \A i \in 1..Len(f) : IsResult(f[i]) => f[i].first \in 1..new /\ f[i].first \notin got
  BY <1>2, <1>3, <1>4 DEF Placed
<1>6. \A j \in Slots : after[j] \in 0..new /\ after[j] \notin got
  <2> SUFFICES ASSUME NEW j \in Slots PROVE after[j] \in 0..new /\ after[j] \notin got
    OBVIOUS
  <2>1. after[j] \in 0..new /\ (after[j] = 0 \/ after[j] = owed[j] \/ after[j] > total)
    BY DEF ResultsMove
  <2>2. after[j] > total => after[j] \notin 1..total
    BY <2>1
  <2>3. owed[j] \notin got /\ got \in SUBSET (1..total)
    BY DEF Placed
  <2>4. QED
    BY <1>2, <2>1, <2>2, <2>3
<1>7. got \in SUBSET (1..new)
  BY <1>2 DEF Placed
<1>8. ASSUME NEW i \in 1..Len(f), NEW j \in 1..Len(f),
             IsResult(f[i]), IsResult(f[j]), f[i].first = f[j].first
      PROVE  i = j
  <2>1. CASE i \in 1..Len(c) /\ IsResult(c[i]) /\ f[i].first = c[i].first
    <3>1. CASE j \in 1..Len(c) /\ IsResult(c[j]) /\ f[j].first = c[j].first
      BY <1>8, <2>1, <3>1 DEF Placed
    <3>2. ASSUME NEW k \in 1..Len(g), IsResult(g[k]), f[j].first = g[k].first PROVE FALSE
      BY <1>4, <1>8, <2>1, <3>2
    <3>3. QED
      BY <1>3, <1>8, <3>1, <3>2
  <2>2. ASSUME NEW k \in 1..Len(g), i = Len(c) + k, IsResult(g[k]), f[i].first = g[k].first
        PROVE  i = j
    <3>1. CASE j \in 1..Len(c) /\ IsResult(c[j]) /\ f[j].first = c[j].first
      BY <1>4, <1>8, <2>2, <3>1
    <3>2. ASSUME NEW m \in 1..Len(g), j = Len(c) + m, IsResult(g[m]), f[j].first = g[m].first
          PROVE  i = j
      <4>1. k = m
        BY <1>8, <2>2, <3>2 DEF ResultsMove
      <4>2. QED
        BY <2>2, <3>2, <4>1
    <3>3. QED
      BY <1>3, <1>8, <3>1, <3>2
  <2>3. QED
    BY <1>3, <1>8, <2>1, <2>2
<1>9. \A i, j \in Slots : after[i] # 0 /\ after[i] = after[j] => i = j
  BY DEF ResultsMove
<1>10. ASSUME NEW i \in 1..Len(f), NEW j \in Slots, IsResult(f[i])
       PROVE  f[i].first # after[j]
  <2>1. CASE i \in 1..Len(c) /\ IsResult(c[i]) /\ f[i].first = c[i].first
    <3>1. f[i].first \in 1..total /\ f[i].first # owed[j]
      BY <2>1 DEF Placed
    <3>2. after[j] = 0 \/ after[j] = owed[j] \/ after[j] > total
      BY DEF ResultsMove
    <3>3. QED
      BY <1>2, <3>1, <3>2
  <2>2. ASSUME NEW k \in 1..Len(g), IsResult(g[k]), f[i].first = g[k].first
        PROVE  f[i].first # after[j]
    BY <2>2 DEF ResultsMove
  <2>3. QED
    BY <1>3, <1>10, <2>1, <2>2
<1>11. ASSUME NEW n \in 1..new
       PROVE  \/ n \in got
              \/ \E j \in Slots : after[j] = n
              \/ \E i \in 1..Len(f) : IsResult(f[i]) /\ f[i].first = n
  <2>0. \A k \in 1..Len(g) : IsResult(g[k]) /\ g[k].first = n =>
          \E i \in 1..Len(f) : IsResult(f[i]) /\ f[i].first = n
    BY <1>1
  <2>1. CASE n \in 1..total
    <3>1. CASE n \in got
      BY <3>1
    <3>2. ASSUME NEW j \in Slots, owed[j] = n
          PROVE  \/ \E i \in Slots : after[i] = n
                 \/ \E k \in 1..Len(g) : IsResult(g[k]) /\ g[k].first = n
      BY <1>2, <2>1, <3>2 DEF ResultsMove
    <3>3. ASSUME NEW i \in 1..Len(c), IsResult(c[i]), c[i].first = n
          PROVE  \E m \in 1..Len(f) : IsResult(f[m]) /\ f[m].first = n
      BY <1>1, <3>3
    <3>4. QED
      BY <2>0, <2>1, <3>1, <3>2, <3>3 DEF Placed
  <2>2. CASE n \in total + 1..new
    BY <2>0, <2>2 DEF ResultsMove
  <2>3. QED
    BY <1>2, <2>1, <2>2
<1>12. QED
  BY <1>5, <1>6, <1>7, <1>8, <1>9, <1>10, <1>11 DEF Placed, f

(* A frame taken from the head of the queue is received.                    *)
LEMMA PlacedTake ==
  ASSUME NEW c \in Seq(Frame), c # <<>>, NEW owed, NEW got, NEW total \in Nat,
         Placed(c, owed, got, total)
  PROVE  Placed(Tail(c), owed,
                IF IsResult(c[1]) THEN got \cup {c[1].first} ELSE got, total)
<1> DEFINE t == Tail(c)
           now == IF IsResult(c[1]) THEN got \cup {c[1].first} ELSE got
<1>1. /\ 1 \in 1..Len(c)
      /\ \A i \in 1..Len(t) : i + 1 \in 1..Len(c) /\ i + 1 # 1 /\ t[i] = c[i + 1]
      /\ \A i \in 1..Len(c) : i # 1 => \E k \in 1..Len(t) : i = k + 1
      /\ \A i, j \in 1..Len(t) : i + 1 = j + 1 => i = j
  <2>1. Len(t) \in Nat
    BY TailElements, LenProperties
  <2>2. QED
    BY <2>1, TailElements
<1> HIDE DEF t
<1>2. \A n : n \in now <=> n \in got \/ (IsResult(c[1]) /\ n = c[1].first)
  OBVIOUS
<1> HIDE DEF now
<1>3. \A i \in 1..Len(t) : IsResult(t[i]) => t[i].first \in 1..total /\ t[i].first \notin now
  <2> SUFFICES ASSUME NEW i \in 1..Len(t), IsResult(t[i])
               PROVE  t[i].first \in 1..total /\ t[i].first \notin now
    OBVIOUS
  <2>1. i + 1 \in 1..Len(c) /\ IsResult(c[i + 1]) /\ t[i].first = c[i + 1].first /\ i + 1 # 1
    BY <1>1
  <2>2. IsResult(c[1]) => t[i].first # c[1].first
    BY <1>1, <2>1 DEF Placed
  <2>3. t[i].first \in 1..total /\ t[i].first \notin got
    BY <2>1 DEF Placed
  <2>4. QED
    BY <1>2, <2>2, <2>3
<1>4. now \in SUBSET (1..total)
  <2>1. got \in SUBSET (1..total) /\ (IsResult(c[1]) => c[1].first \in 1..total)
    BY <1>1 DEF Placed
  <2>2. QED
    BY <1>2, <2>1
<1>5. ASSUME NEW i \in 1..Len(t), NEW j \in 1..Len(t),
             IsResult(t[i]), IsResult(t[j]), t[i].first = t[j].first
      PROVE  i = j
  <2>1. /\ i + 1 \in 1..Len(c) /\ IsResult(c[i + 1]) /\ t[i].first = c[i + 1].first
        /\ j + 1 \in 1..Len(c) /\ IsResult(c[j + 1]) /\ t[j].first = c[j + 1].first
    BY <1>1, <1>5
  <2>2. i + 1 = j + 1
    BY <1>5, <2>1, Zenon DEF Placed
  <2>3. QED
    BY <1>1, <2>2
<1>6. \A i \in 1..Len(t), j \in Slots : IsResult(t[i]) => t[i].first # owed[j]
  BY <1>1 DEF Placed
<1>7. \A j \in Slots : owed[j] \notin now
  BY <1>1, <1>2 DEF Placed
<1>8. ASSUME NEW n \in 1..total
      PROVE  \/ n \in now
             \/ \E j \in Slots : owed[j] = n
             \/ \E i \in 1..Len(t) : IsResult(t[i]) /\ t[i].first = n
  <2>1. ASSUME NEW i \in 1..Len(c), IsResult(c[i]), c[i].first = n
        PROVE  n \in now \/ \E k \in 1..Len(t) : IsResult(t[k]) /\ t[k].first = n
    BY <1>1, <1>2, <2>1
  <2>2. QED
    BY <1>2, <2>1 DEF Placed
<1>9. /\ \A j \in Slots : owed[j] \in 0..total
      /\ \A i, j \in Slots : owed[i] # 0 /\ owed[i] = owed[j] => i = j
  BY DEF Placed
<1>10. QED
  BY <1>3, <1>4, <1>5, <1>6, <1>7, <1>8, <1>9 DEF Placed, t, now

(* An emission without results moves none.                                  *)
LEMMA ResultsStay ==
  ASSUME NEW c \in Seq(Frame), NEW g \in Seq(Frame), NEW owed, NEW got, NEW total \in Nat,
         Placed(c, owed, got, total), \A k \in 1..Len(g) : ~IsResult(g[k])
  PROVE  Placed(c \o g, owed, got, total)
<1>1. ResultsMove(g, owed, owed, total, total)
  <2>1. total + 1..total = {}
    OBVIOUS
  <2>2. QED
    BY <2>1 DEF ResultsMove, Placed
<1>2. total <= total
  OBVIOUS
<1>3. QED
  BY <1>1, <1>2, PlacedAppends

(* Slots that become FINAL: the first results are sent, the rest owed.      *)
LEMMA OweMoves ==
  ASSUME TypeOK, NEW slots \in SUBSET Quiet, NEW order \in Ascending(slots),
         NEW g \in Seq(Frame), NEW m \in Nat, Len(g) = m, NEW got,
         Placed(Critical, delivery_pending, got, finals),
         \A k \in 1..m : IF k <= Len(order)
                         THEN IsResult(g[k]) /\ g[k].first = finals + k
                         ELSE ~IsResult(g[k])
  PROVE  ResultsMove(g, delivery_pending, Owe(order, m), finals, finals + Len(order))
<1> DEFINE L == Len(order)
           after == Owe(order, m)
           new == finals + L
<1>1. /\ L \in Nat /\ \A k \in 1..L : order[k] \in slots
      /\ \A j, k \in 1..L : order[j] = order[k] => j = k
  <2>1. NSlots \in Nat /\ slots \in SUBSET (1..NSlots)
    BY EgressAssumption DEF Quiet, Slots
  <2>2. QED
    BY <2>1, AscendingDistinct
<1>2. finals \in Nat /\ new \in Nat
  BY <1>1 DEF TypeOK
<1>3. \A k \in 1..L : order[k] \in Slots /\ delivery_pending[order[k]] = 0
  BY <1>1 DEF Quiet, Owing
<1>4. \A j \in Slots : delivery_pending[j] \in 0..finals
  BY DEF Placed
<1>5. ASSUME NEW k \in m + 1..L
      PROVE  after[order[k]] = finals + k
  <2>1. m + 1..L \in SUBSET (1..L) /\ k \in 1..L
    BY <1>1
  <2>2. \A h \in m + 1..L : order[h] = order[k] => h = k
    BY <1>1, <2>1
  <2>3. (CHOOSE h \in m + 1..L : order[h] = order[k]) = k
    BY <1>5, <2>2
  <2>4. order[k] \in Slots
    BY <1>3, <2>1
  <2>5. QED
    BY <1>5, <2>3, <2>4 DEF Owe
<1>6. ASSUME NEW j \in Slots, \A k \in m + 1..L : order[k] # j
      PROVE  after[j] = delivery_pending[j]
  BY <1>6 DEF Owe
<1> HIDE DEF after
<1>7. \A j \in Slots : \/ after[j] = delivery_pending[j]
                       \/ \E k \in m + 1..L : order[k] = j /\ after[j] = finals + k
  BY <1>5, <1>6
<1>8. /\ m + 1..L \in SUBSET (1..L)
      /\ \A k \in 1..L : finals + k \in 1..new /\ finals + k > finals
      /\ \A k, h \in 1..L : finals + k = finals + h => k = h
      /\ \A n \in finals + 1..new : n - finals \in 1..L /\ n = finals + (n - finals)
      /\ \A n \in 0..finals : n \in 0..new /\ ~(n > finals)
  BY <1>1, <1>2
<1> HIDE DEF new
<1>9. \A k \in 1..m : IsResult(g[k]) => k \in 1..L /\ g[k].first = finals + k
  BY <1>1
<1>10. \A k \in 1..L : k \in 1..m => IsResult(g[k]) /\ g[k].first = finals + k
  BY <1>1
<1>11. \A k \in 1..L : k \in 1..m \/ k \in m + 1..L
  BY <1>1
<1>12. \A k \in 1..Len(g) : IsResult(g[k]) =>
         /\ g[k].first \in 1..new
         /\ g[k].first > finals \/ \E j \in Slots : delivery_pending[j] = g[k].first
  BY <1>8, <1>9
<1>13. \A k, h \in 1..Len(g) :
         IsResult(g[k]) /\ IsResult(g[h]) /\ g[k].first = g[h].first => k = h
  BY <1>8, <1>9
<1>14. ASSUME NEW j \in Slots
       PROVE  /\ after[j] \in 0..new
              /\ after[j] # 0 => after[j] = delivery_pending[j] \/ after[j] > finals
              /\ delivery_pending[j] # 0 => after[j] = delivery_pending[j]
  <2>1. CASE after[j] = delivery_pending[j]
    BY <1>4, <1>8, <2>1
  <2>2. ASSUME NEW k \in m + 1..L, order[k] = j, after[j] = finals + k
        PROVE  /\ after[j] \in 1..new /\ after[j] > finals /\ delivery_pending[j] = 0
    BY <1>3, <1>8, <2>2
  <2>3. 1..new \in SUBSET (0..new)
    OBVIOUS
  <2>4. QED
    BY <1>7, <2>1, <2>2, <2>3
<1>15. ASSUME NEW i \in Slots, NEW j \in Slots, after[i] # 0, after[i] = after[j]
       PROVE  i = j
  <2>1. CASE after[i] = delivery_pending[i] /\ after[j] = delivery_pending[j]
    BY <1>15, <2>1 DEF Placed
  <2>2. ASSUME NEW k \in m + 1..L, order[k] = i, after[i] = finals + k,
               NEW h \in m + 1..L, order[h] = j, after[j] = finals + h
        PROVE  i = j
    BY <1>8, <1>15, <2>2
  <2>3. ASSUME NEW k \in m + 1..L, NEW a \in 0..finals, finals + k = a
        PROVE  FALSE
    BY <1>8, <2>3
  <2>4. QED
    BY <1>4, <1>7, <1>15, <2>1, <2>2, <2>3
<1>16. ASSUME NEW k \in 1..Len(g), NEW j \in Slots, IsResult(g[k])
       PROVE  g[k].first # after[j]
  <2>1. k \in 1..L /\ k \in 1..m /\ g[k].first = finals + k
    BY <1>9, <1>16
  <2>2. CASE after[j] = delivery_pending[j]
    BY <1>4, <1>8, <2>1, <2>2
  <2>3. ASSUME NEW h \in m + 1..L, after[j] = finals + h
        PROVE  g[k].first # after[j]
    <3>1. k # h /\ h \in 1..L
      BY <1>8, <2>1
    <3>2. QED
      BY <1>8, <2>1, <2>3, <3>1
  <2>4. QED
    BY <1>7, <2>2, <2>3
<1>17. ASSUME NEW n \in finals + 1..new
       PROVE  \/ \E j \in Slots : after[j] = n
              \/ \E k \in 1..Len(g) : IsResult(g[k]) /\ g[k].first = n
  <2>1. PICK k \in 1..L : n = finals + k
    BY <1>8
  <2>2. CASE k \in 1..m
    BY <1>10, <2>1, <2>2
  <2>3. CASE k \in m + 1..L
    BY <1>3, <1>5, <2>1, <2>3 DEF after
  <2>4. QED
    BY <1>11, <2>2, <2>3
<1>18. QED
  BY <1>12, <1>13, <1>14, <1>15, <1>16, <1>17, Zenon DEF ResultsMove, after, new

(* What flush_pending sends of the results were owed, and are not any more. *)
LEMMA FlushMovesResults ==
  ASSUME TypeOK, NEW accs \in Ascending(Occupied), NEW slots \in Ascending(Owing),
         NEW flush, NEW g \in Seq(Frame), FlushMoves(flush, accs, slots, g), NEW got,
         Placed(Critical, delivery_pending, got, finals)
  PROVE  ResultsMove(g, delivery_pending, flush.owed, finals, finals)
<1> DEFINE A == Len(accs)
           S == Len(slots)
           E == Len(q_pending_channel_state)
           n == Len(g)
           share == Lesser(S, Greater(0, n - A))
           after == flush.owed
<1>1. /\ S \in Nat
      /\ \A k \in 1..S : slots[k] \in Slots /\ delivery_pending[slots[k]] # 0
      /\ \A j, k \in 1..S : slots[j] = slots[k] => j = k
  <2>1. NSlots \in Nat /\ Owing \in SUBSET (1..NSlots)
    BY EgressAssumption DEF Owing, Slots
  <2>2. /\ S \in Nat /\ \A k \in 1..S : slots[k] \in Owing
        /\ \A j, k \in 1..S : slots[j] = slots[k] => j = k
    BY <2>1, AscendingDistinct
  <2>3. QED
    BY <2>2 DEF Owing
<1>2. A \in Nat
  <2>1. NAcc \in Nat /\ Occupied \in SUBSET (1..NAcc)
    BY EgressAssumption DEF Occupied, Acc
  <2>2. QED
    BY <2>1, AscendingSeq
<1>3. E \in Nat /\ n \in Nat /\ finals \in Nat
  BY LenProperties DEF TypeOK
<1>4. share \in Nat /\ \A k \in 1..S : k \in 1..share <=> A + k \in 1..n
  BY <1>1, <1>2, <1>3 DEF Lesser, Greater
<1>5. share <= S
  BY <1>1, <1>2, <1>3 DEF Lesser, Greater
<1>6. /\ \A k \in 1..n : k <= A => g[k].kind = LossNotice(loss[accs[k]]).kind
      /\ \A k \in 1..n : A < k /\ k <= A + S =>
           g[k].kind = "tx_result" /\ g[k].first = delivery_pending[slots[k - A]]
      /\ \A k \in 1..n : A + S < k /\ k <= A + S + E => g[k].kind = "channel_state"
      /\ \A k \in 1..n : A + S + E < k => g[k].kind = "flow_control"
      /\ after = [i \in Slots |-> IF \E k \in 1..share : slots[k] = i
                                  THEN 0 ELSE delivery_pending[i]]
  BY DEF FlushMoves
<1>7. ASSUME NEW k \in 1..n, IsResult(g[k])
      PROVE  \E h \in 1..S : k = A + h
  <2>1. ~(k <= A)
    BY <1>6, <1>7 DEF IsResult, LossNotice
  <2>2. ~(A + S < k)
    BY <1>1, <1>2, <1>3, <1>6, <1>7 DEF IsResult
  <2>3. k - A \in 1..S /\ k = A + (k - A)
    BY <1>1, <1>2, <2>1, <2>2
  <2>4. QED
    BY <2>3
<1>8. ASSUME NEW h \in 1..S, A + h \in 1..n
      PROVE  IsResult(g[A + h]) /\ g[A + h].first = delivery_pending[slots[h]]
  <2>1. A < A + h /\ A + h <= A + S /\ (A + h) - A = h
    BY <1>1, <1>2
  <2>2. QED
    BY <1>6, <1>8, <2>1 DEF IsResult
<1>9. \A j \in Slots : delivery_pending[j] \in 0..finals
  BY DEF Placed
<1>10. \A i, j \in Slots : delivery_pending[i] # 0 /\ delivery_pending[i] = delivery_pending[j] => i = j
  BY DEF Placed
<1>11. \A j \in Slots : IF \E k \in 1..share : slots[k] = j
                        THEN after[j] = 0 ELSE after[j] = delivery_pending[j]
  BY <1>6
<1> HIDE DEF share, A, S, E, n, after
<1>12. \A k \in 1..n : IsResult(g[k]) =>
         \E h \in 1..S : /\ k = A + h /\ h \in 1..share /\ slots[h] \in Slots
                         /\ g[k].first = delivery_pending[slots[h]]
                         /\ delivery_pending[slots[h]] # 0
  BY <1>1, <1>4, <1>7, <1>8
<1>13. \A k \in 1..n : IsResult(g[k]) =>
         /\ g[k].first \in 1..finals
         /\ \E j \in Slots : delivery_pending[j] = g[k].first
  <2>1. \A m \in 0..finals : m # 0 => m \in 1..finals
    BY <1>3
  <2>2. QED
    BY <1>9, <1>12, <2>1
<1>14. \A k, m \in 1..n : IsResult(g[k]) /\ IsResult(g[m]) /\ g[k].first = g[m].first => k = m
  BY <1>1, <1>10, <1>12
<1>15. ASSUME NEW j \in Slots
       PROVE  /\ after[j] \in 0..finals
              /\ after[j] # 0 => after[j] = delivery_pending[j]
              /\ delivery_pending[j] # 0 =>
                   \/ after[j] = delivery_pending[j]
                   \/ \E k \in 1..n : IsResult(g[k]) /\ g[k].first = delivery_pending[j]
  <2>1. CASE \E k \in 1..share : slots[k] = j
    <3>1. PICK h \in 1..share : slots[h] = j
      BY <2>1
    <3>2. h \in 1..S
      BY <1>1, <1>4, <1>5 DEF S
    <3>3. A + h \in 1..n
      BY <1>4, <3>2
    <3>4. IsResult(g[A + h]) /\ g[A + h].first = delivery_pending[j]
      BY <1>8, <3>1, <3>2, <3>3
    <3>5. after[j] = 0 /\ 0 \in 0..finals
      BY <1>3, <1>11, <2>1
    <3>6. QED
      BY <3>3, <3>4, <3>5
  <2>2. CASE ~\E k \in 1..share : slots[k] = j
    BY <1>9, <1>11, <2>2
  <2>3. QED
    BY <2>1, <2>2
<1>16. \A i, j \in Slots : after[i] # 0 /\ after[i] = after[j] => i = j
  BY <1>10, <1>15
<1>17. ASSUME NEW k \in 1..n, NEW j \in Slots, IsResult(g[k])
       PROVE  g[k].first # after[j]
  <2>1. PICK h \in 1..S : /\ h \in 1..share /\ slots[h] \in Slots
                          /\ g[k].first = delivery_pending[slots[h]]
                          /\ delivery_pending[slots[h]] # 0
    BY <1>12, <1>17
  <2>2. CASE slots[h] = j
    BY <1>11, <2>1, <2>2
  <2>3. CASE slots[h] # j
    BY <1>10, <1>15, <2>1, <2>3
  <2>4. QED
    BY <2>2, <2>3
<1>18. finals + 1..finals = {}
  BY <1>3
<1>19. QED
  BY <1>13, <1>14, <1>15, <1>16, <1>17, <1>18 DEF ResultsMove, n, after

(* What accumulate_loss does: it sends the first ranges of `order', all of  *)
(* its key, and frees their accumulators; then the sequence s continues a   *)
(* range that was not sent, opens one, or finds no accumulator.             *)
LossMoves(key, s, base, order, g) ==
  LET left == Freed(order, Len(g))
      new  == [key |-> key, generation |-> config_generation, first |-> s, last |-> s]
  IN  /\ Critical' = Critical \o g
      /\ device_event_sequence' = base + Len(g)
      /\ Carries(g, Notices(order), base) /\ Len(g) <= Len(order)
      /\ \/ /\ \E a \in Matching(key) :
                 /\ \A k \in 1..Len(order) : order[k] # a
                 /\ loss[a].last + 1 = s
                 /\ loss' = [left EXCEPT ![a] = [loss[a] EXCEPT !.last = s]]
            /\ unrecorded' = unrecorded
         \/ /\ \E a \in Acc : left[a] = Free /\ loss' = [left EXCEPT ![a] = new]
            /\ unrecorded' = unrecorded
         \/ /\ loss' = left
            /\ unrecorded' = IF key \in EventKey THEN unrecorded \cup {s} ELSE unrecorded

LEMMA LossMoved ==
  ASSUME TypeOK, NEW key \in Key, NEW s \in Nat, NEW base \in Nat,
         AccumulateLoss(key, s, base)
  PROVE  \E S \in SUBSET Matching(key) : \E order \in Ascending(S), g \in Seq(Frame) :
           LossMoves(key, s, base, order, g)
<1>1. \A S \in SUBSET Matching(key) : S \in SUBSET Occupied
  BY DEF Matching
<1>2. ASSUME NEW S \in SUBSET Matching(key), NEW order \in Ascending(S),
             Emit(Notices(order), base)
      PROVE  \E g \in Seq(Frame) :
               /\ Critical' = Critical \o g
               /\ device_event_sequence' = base + Len(g)
               /\ Carries(g, Notices(order), base) /\ Len(g) <= Len(order)
               /\ Len(g) = Admitted(Notices(order))
  <2>1. Notices(order) \in Seq(Frame) /\ Len(Notices(order)) = Len(order)
    BY <1>1, NoticesFrames
  <2>2. PICK g \in Seq(Frame) :
          /\ Critical' = Critical \o g
          /\ Len(g) = Admitted(Notices(order))
          /\ device_event_sequence' = base + Admitted(Notices(order))
          /\ Carries(g, Notices(order), base)
    BY <1>2, <2>1, EmitCarries
  <2>3. Len(g) <= Len(order)
    BY <2>1, <2>2 DEF Carries
  <2>4. QED
    BY <2>2, <2>3
<1>3. CASE ExtendRange(key, s, base)
  <2>1. PICK a \in Matching(key) :
          /\ loss[a].last + 1 = s
          /\ \E order \in Ascending({b \in Matching(key) : b < a}) :
               /\ Emit(Notices(order), base)
               /\ loss' = [Freed(order, Admitted(Notices(order))) EXCEPT ![a].last = s]
          /\ UNCHANGED unrecorded
    BY <1>3 DEF ExtendRange
  <2> DEFINE S == {b \in Matching(key) : b < a}
  <2>2. PICK order \in Ascending(S) :
          /\ Emit(Notices(order), base)
          /\ loss' = [Freed(order, Admitted(Notices(order))) EXCEPT ![a].last = s]
    BY <2>1
  <2>3. S \in SUBSET Matching(key)
    OBVIOUS
  <2>4. PICK g \in Seq(Frame) :
          /\ Critical' = Critical \o g
          /\ device_event_sequence' = base + Len(g)
          /\ Carries(g, Notices(order), base) /\ Len(g) <= Len(order)
          /\ Len(g) = Admitted(Notices(order))
    BY <1>2, <2>2, <2>3
  <2>5. Len(order) \in Nat /\ Len(g) \in Nat /\ \A k \in 1..Len(order) : order[k] # a
    <3>1. NAcc \in Nat /\ S \in SUBSET (1..NAcc)
      BY EgressAssumption DEF Matching, Occupied, Acc
    <3>2. Len(order) \in Nat /\ \A k \in 1..Len(order) : order[k] \in S
      BY <3>1, AscendingSeq
    <3>3. a \in Nat
      BY DEF Matching, Occupied, Acc
    <3>4. QED
      BY <3>2, <3>3, LenProperties
  <2>6. \A k \in 1..Len(g) : order[k] # a
    BY <2>4, <2>5
  <2>7. a \in Acc /\ Freed(order, Len(g))[a] = loss[a]
    BY <2>6 DEF Freed, Matching, Occupied
  <2>8. loss' = [Freed(order, Len(g)) EXCEPT ![a] = [loss[a] EXCEPT !.last = s]]
    BY <2>2, <2>4, <2>7
  <2>9. LossMoves(key, s, base, order, g)
    BY <2>1, <2>4, <2>5, <2>8 DEF LossMoves
  <2>10. QED
    BY <2>3, <2>9
<1>4. CASE OpenRange(key, s, base)
  <2> DEFINE new == [key |-> key, generation |-> config_generation, first |-> s, last |-> s]
  <2>1. PICK order \in Ascending(Matching(key)) :
          /\ Emit(Notices(order), base)
          /\ \/ \E a \in Acc :
                   /\ Freed(order, Admitted(Notices(order)))[a] = Free
                   /\ loss' = [Freed(order, Admitted(Notices(order))) EXCEPT ![a] = new]
                   /\ unrecorded' = unrecorded
             \/ /\ loss' = Freed(order, Admitted(Notices(order)))
                /\ unrecorded' = IF key \in EventKey THEN unrecorded \cup {s}
                                                     ELSE unrecorded
    BY <1>4 DEF OpenRange
  <2>2. PICK g \in Seq(Frame) :
          /\ Critical' = Critical \o g
          /\ device_event_sequence' = base + Len(g)
          /\ Carries(g, Notices(order), base) /\ Len(g) <= Len(order)
          /\ Len(g) = Admitted(Notices(order))
    BY <1>2, <2>1
  <2>3. LossMoves(key, s, base, order, g)
    BY <2>1, <2>2, Zenon DEF LossMoves
  <2>4. QED
    BY <2>3
<1>5. QED
  BY <1>3, <1>4 DEF AccumulateLoss

(* The notices that it sends are neither results nor edges.                 *)
LEMMA LossNotices ==
  ASSUME TypeOK, NEW key \in Key, NEW s \in Nat, NEW base \in Nat,
         AccumulateLoss(key, s, base)
  PROVE  \E g \in Seq(Frame) :
           /\ Critical' = Critical \o g
           /\ \A k \in 1..Len(g) : g[k].kind \in {"event_loss", "ring_loss"}
<1>0. PICK S \in SUBSET Matching(key) :
        \E order \in Ascending(S), g \in Seq(Frame) : LossMoves(key, s, base, order, g)
  BY LossMoved
<1>1. PICK order \in Ascending(S), g \in Seq(Frame) : LossMoves(key, s, base, order, g)
  BY <1>0
<1>2. Len(g) \in Nat /\ Len(order) \in Nat /\ Len(g) <= Len(order)
  <2>1. NAcc \in Nat /\ S \in SUBSET (1..NAcc)
    BY EgressAssumption DEF Matching, Occupied, Acc
  <2>2. QED
    BY <1>1, <2>1, AscendingSeq, LenProperties DEF LossMoves
<1>3. \A k \in 1..Len(g) : k \in 1..Len(order) /\ g[k].kind = Notices(order)[k].kind
  BY <1>1, <1>2 DEF LossMoves, Carries
<1>4. \A k \in 1..Len(order) : Notices(order)[k].kind \in {"event_loss", "ring_loss"}
  BY DEF Notices, LossNotice
<1>5. QED
  BY <1>1, <1>3, <1>4 DEF LossMoves

(* What ucan_session_dequeue does: after the flush, which adds g, the head  *)
(* of the critical FIFO goes, or that of the data ring, or nothing does.    *)
TakesHead(g) ==
  LET c == Critical \o g
  IN  \/ /\ c # <<>> /\ Critical' = Tail(c)
         /\ q_data # <<>> => c[1].seq < q_data[1].seq
         /\ host' = HostReceives(c[1]) /\ q_data' = q_data
      \/ /\ q_data # <<>> /\ q_data' = Tail(q_data)
         /\ host' = HostReceives(q_data[1]) /\ Critical' = c
      \/ Critical' = c /\ q_data' = q_data /\ host' = host

LEMMA DequeueMoves ==
  ASSUME TypeOK, NEW fits \in BOOLEAN, Dequeue(fits)
  PROVE  \E accs \in Ascending(Occupied), slots \in Ascending(Owing), g \in Seq(Frame) :
           \E flush :
             /\ FlushMoves(flush, accs, slots, g) /\ TakesHead(g)
             /\ device_event_sequence' = flush.seq
             /\ loss' = flush.loss /\ delivery_pending' = flush.owed
             /\ q_pending_channel_state' = flush.edges
             /\ UNCHANGED <<finals, edges, unrecorded>>
<1>1. PICK accs \in Ascending(Occupied), slots \in Ascending(Owing) :
        LET flush    == FlushResult(accs, slots)
            critical == flush.rings.primary
        IN  /\ device_event_sequence' = flush.seq
            /\ q_critical_pending' = flush.rings.pending
            /\ loss' = flush.loss
            /\ delivery_pending' = flush.owed
            /\ q_pending_channel_state' = flush.edges
            /\ \/ /\ TakesCritical(critical)
                  /\ q_critical' = Tail(critical)
                  /\ host' = HostReceives(critical[1])
                  /\ q_data' = q_data
               \/ /\ q_data # <<>>
                  /\ q_data' = Tail(q_data)
                  /\ host' = HostReceives(q_data[1])
                  /\ q_critical' = critical
               \/ /\ q_critical' = critical
                  /\ q_data' = q_data /\ host' = host
  BY DEF Dequeue
<1> DEFINE flush   == FlushResult(accs, slots)
           primary == flush.rings.primary
           pending == flush.rings.pending
<1>2. UNCHANGED <<finals, edges, unrecorded>>
  BY DEF Dequeue
<1>3. PICK g \in Seq(Frame) : FlushMoves(flush, accs, slots, g)
  BY FlushMoved
<1>4. /\ primary \in Seq(Frame) /\ pending \in Seq(Frame)
      /\ primary = <<>> => pending = <<>>
  BY FlushTypes DEF FlushOK
<1> HIDE DEF flush
<1>5. /\ device_event_sequence' = flush.seq
      /\ loss' = flush.loss /\ delivery_pending' = flush.owed
      /\ q_pending_channel_state' = flush.edges
      /\ q_critical_pending' = pending
  BY <1>1 DEF flush
<1>6. \/ /\ TakesCritical(primary)
         /\ q_critical' = Tail(primary) /\ host' = HostReceives(primary[1])
         /\ q_data' = q_data
      \/ /\ q_data # <<>>
         /\ q_data' = Tail(q_data) /\ host' = HostReceives(q_data[1])
         /\ q_critical' = primary
      \/ /\ q_critical' = primary /\ q_data' = q_data /\ host' = host
  BY <1>1 DEF flush
<1>7. primary \o pending = Critical \o g
  BY <1>3 DEF FlushMoves
<1> HIDE DEF primary, pending
<1>8. TakesHead(g)
  <2>1. CASE /\ TakesCritical(primary)
             /\ q_critical' = Tail(primary) /\ host' = HostReceives(primary[1])
             /\ q_data' = q_data
    <3>1. primary # <<>> /\ (q_data # <<>> => primary[1].seq < q_data[1].seq)
      BY <2>1 DEF TakesCritical
    <3>2. /\ primary \o pending # <<>>
          /\ Head(primary \o pending) = Head(primary)
          /\ Tail(primary \o pending) = Tail(primary) \o pending
      BY <1>4, <3>1, ConcatProperties
    <3>3. (primary \o pending)[1] = primary[1]
      BY <3>2
    <3>4. Critical' = Tail(primary \o pending)
      BY <1>5, <2>1, <3>2 DEF Critical
    <3>5. QED
      BY <1>7, <2>1, <3>1, <3>2, <3>3, <3>4 DEF TakesHead
  <2>2. CASE q_critical' = primary
    <3>1. Critical' = Critical \o g
      BY <1>5, <1>7, <2>2 DEF Critical
    <3>2. CASE q_data # <<>> /\ q_data' = Tail(q_data) /\ host' = HostReceives(q_data[1])
      BY <3>1, <3>2 DEF TakesHead
    <3>3. CASE q_data' = q_data /\ host' = host
      BY <3>1, <3>3 DEF TakesHead
    <3>4. CASE /\ TakesCritical(primary)
               /\ q_critical' = Tail(primary) /\ host' = HostReceives(primary[1])
               /\ q_data' = q_data
      BY <2>1, <3>4
    <3>5. QED
      BY <1>6, <3>2, <3>3, <3>4
  <2>3. QED
    BY <1>6, <2>1, <2>2
<1>9. QED
  BY <1>2, <1>3, <1>5, <1>8

(* The data ring holds nothing but batches.                                 *)
Batches == \A i \in 1..Len(q_data) : q_data[i].kind = "rx_batch"

(* What a step does to the data ring.                                       *)
LEMMA BatchesKept ==
  ASSUME TypeOK, Batches, [Next]_vars
  PROVE  Batches'
<1>1. CASE q_data' = q_data
  BY <1>1 DEF Batches
<1>2. ASSUME q_data # <<>>, q_data' = Tail(q_data)
      PROVE  Batches'
  BY <1>2, TailElements DEF Batches, TypeOK
<1>3. ASSUME NEW s \in Nat,
             q_data' = Append(q_data, [kind |-> "rx_batch", seq |-> s, first |-> 0, last |-> 0])
      PROVE  Batches'
  <2> DEFINE batch == [kind |-> "rx_batch", seq |-> s, first |-> 0, last |-> 0]
  <2>1. batch \in Frame /\ batch.kind = "rx_batch"
    BY DEF Frame, Kind
  <2> HIDE DEF batch
  <2>2. /\ Len(q_data) \in Nat /\ Len(q_data') = Len(q_data) + 1
        /\ \A i \in 1..Len(q_data) : q_data'[i] = q_data[i]
        /\ q_data'[Len(q_data) + 1] = batch
    BY <1>3, <2>1, AppendProperties, LenProperties DEF TypeOK, batch
  <2>3. \A i \in 1..Len(q_data) + 1 : i \in 1..Len(q_data) \/ i = Len(q_data) + 1
    BY <2>2
  <2>4. QED
    BY <2>1, <2>2, <2>3 DEF Batches
<1>4. ASSUME NEW fits \in BOOLEAN, EmitRxBatch(fits)
      PROVE  Batches'
  <2>1. device_event_sequence + 1 \in Nat
    BY DEF TypeOK
  <2>2. \/ q_data' = q_data
        \/ q_data' = Append(q_data, [kind |-> "rx_batch", seq |-> device_event_sequence + 1,
                                     first |-> 0, last |-> 0])
    BY <1>4 DEF EmitRxBatch
  <2>3. QED
    BY <1>1, <1>3, <2>1, <2>2
<1>5. ASSUME NEW fits \in BOOLEAN, Dequeue(fits)
      PROVE  Batches'
  BY <1>1, <1>2, <1>5 DEF Dequeue
<1>6. QED
  BY <1>1, <1>4, <1>5 DEF Next, vars, NoteEventQueueLoss, OnRx, NoteRxRingLoss, FinalizeTx, Reconfigure,
       FinalizeSlots, NoteChannelState, ConfigChannel, PersistChannelState, PollFlowControl

(* What making `slots' FINAL sends, alone or with an edge behind it: the    *)
(* results in order, and the edge if it follows them all and no other waits.*)
PersistMoves(order, g) ==
  LET q == q_pending_channel_state
      L == Len(order)
  IN  /\ Critical' = Critical \o g
      /\ device_event_sequence' = device_event_sequence + Len(g)
      /\ \A k \in 1..Len(g) : g[k].seq = device_event_sequence + k
      /\ \A k \in 1..Len(g) : k <= L => IsResult(g[k]) /\ g[k].first = finals + k
      /\ \A k \in 1..Len(g) : k > L =>
           k = L + 1 /\ g[k].kind = "channel_state" /\ g[k].first = edges + 1
      /\ delivery_pending' = Owe(order, Len(g)) /\ finals' = finals + L
      /\ \/ q = <<>> /\ q_pending_channel_state' = q
         \/ Len(g) <= L /\ (q_pending_channel_state' = q
                            \/ q_pending_channel_state' = Append(q, edges + 1))

LEMMA Persisted ==
  ASSUME TypeOK, NEW slots \in SUBSET Slots, PersistChannelState(slots)
  PROVE  \E order \in Ascending(slots), g \in Seq(Frame) : PersistMoves(order, g)
<1> DEFINE due(order)  == Results(order) \o EdgeToSend
           sent(order) == EdgeToSend # <<>> /\ Admitted(due(order)) = Len(due(order))
<1>1. PICK order \in Ascending(slots) :
        /\ Emit(due(order), device_event_sequence)
        /\ delivery_pending' = Owe(order, Admitted(due(order)))
        /\ finals' = finals + Len(order)
        /\ q_pending_channel_state' =
             IF sent(order) \/ Len(q_pending_channel_state) >= StateCap
             THEN q_pending_channel_state
             ELSE Append(q_pending_channel_state, edges + 1)
  BY DEF PersistChannelState
<1> DEFINE L == Len(order)
           all == due(order)
<1>2. /\ L \in Nat /\ Results(order) \in Seq(Frame) /\ Len(Results(order)) = L
      /\ EdgeToSend \in Seq(Frame)
  BY ResultsFrames, EdgeToSendFrames
<1>3. \A k \in 1..L : IsResult(Results(order)[k]) /\ Results(order)[k].first = finals + k
  BY DEF Results, TxResult, IsResult
<1>4. \/ EdgeToSend = <<>> /\ Len(EdgeToSend) = 0
      \/ /\ q_pending_channel_state = <<>> /\ Len(EdgeToSend) = 1
         /\ EdgeToSend[1].kind = "channel_state" /\ EdgeToSend[1].first = edges + 1
  BY DEF EdgeToSend, ChannelState
<1>5. /\ all \in Seq(Frame) /\ Len(all) = L + Len(EdgeToSend)
      /\ \A k \in 1..L : all[k] = Results(order)[k]
      /\ Len(EdgeToSend) = 1 => all[L + 1] = EdgeToSend[1]
  <2>1. Results(order) \in Seq(Frame) /\ EdgeToSend \in Seq(Frame)
    BY <1>2
  <2>2. /\ all \in Seq(Frame) /\ Len(all) = Len(Results(order)) + Len(EdgeToSend)
        /\ \A k \in 1..Len(Results(order)) : all[k] = Results(order)[k]
        /\ \A k \in 1..Len(EdgeToSend) : all[Len(Results(order)) + k] = EdgeToSend[k]
    BY <2>1, ConcatElements
  <2>3. 1 \in 1..1
    OBVIOUS
  <2>4. QED
    BY <1>2, <2>2, <2>3
<1> HIDE DEF all
<1>6. PICK g \in Seq(Frame) :
        /\ Critical' = Critical \o g /\ Len(g) = Admitted(all)
        /\ Admitted(all) \in 0..Len(all)
        /\ device_event_sequence' = device_event_sequence + Admitted(all)
        /\ Carries(g, all, device_event_sequence)
  <2>1. device_event_sequence \in Nat /\ Emit(all, device_event_sequence)
    BY <1>1 DEF TypeOK, all
  <2>2. QED
    BY <1>5, <2>1, EmitCarries
<1>7. Len(g) \in Nat /\ Len(g) <= Len(all) /\ Len(all) \in Nat
  BY <1>5, <1>6, LenProperties
<1>8. \A k \in 1..Len(g) : g[k].kind = all[k].kind /\ g[k].first = all[k].first
  BY <1>6 DEF Carries
<1>9. \A k \in 1..Len(g) : k <= L => IsResult(g[k]) /\ g[k].first = finals + k
  <2>1. \A k \in 1..Len(g) : k <= L => k \in 1..L
    BY <1>2
  <2>2. QED
    BY <1>3, <1>5, <1>8, <2>1 DEF IsResult
<1>10. \A k \in 1..Len(g) : k > L =>
         /\ k = L + 1 /\ Len(EdgeToSend) = 1
         /\ g[k].kind = "channel_state" /\ g[k].first = edges + 1
  <2> SUFFICES ASSUME NEW k \in 1..Len(g), k > L
               PROVE  /\ k = L + 1 /\ Len(EdgeToSend) = 1
                      /\ g[k].kind = "channel_state" /\ g[k].first = edges + 1
    OBVIOUS
  <2>0. PICK e \in {0, 1} : e = Len(EdgeToSend)
    BY <1>4, Zenon
  <2>1. Len(all) = L \/ (Len(all) = L + 1 /\ Len(EdgeToSend) = 1)
    <3>1. Len(all) = L + e /\ L \in Nat
      BY <1>2, <1>5, <2>0
    <3> HIDE DEF L
    <3>2. Len(all) = L \/ (Len(all) = L + 1 /\ e = 1)
      BY <3>1
    <3>3. QED
      BY <2>0, <3>2, Zenon
  <2>2. L \in Nat /\ Len(g) \in Nat /\ Len(g) <= Len(all)
    BY <1>2, <1>7
  <2> HIDE DEF L
  <2>3. k = L + 1 /\ Len(all) # L
    BY <2>1, <2>2
  <2>4. Len(EdgeToSend) = 1 /\ all[k] = EdgeToSend[1]
    BY <1>5, <2>1, <2>3
  <2>5. Len(EdgeToSend) # 0
    BY <2>4
  <2>6. EdgeToSend[1].kind = "channel_state" /\ EdgeToSend[1].first = edges + 1
    BY <1>4, <2>5, Zenon
  <2>7. QED
    BY <1>8, <2>3, <2>4, <2>6
<1>11. \/ q_pending_channel_state = <<>> /\ q_pending_channel_state' = q_pending_channel_state
       \/ /\ Len(g) <= L
          /\ \/ q_pending_channel_state' = q_pending_channel_state
             \/ q_pending_channel_state' = Append(q_pending_channel_state, edges + 1)
  <2>1. CASE EdgeToSend # <<>> /\ Len(g) = Len(all)
    <3>1. q_pending_channel_state = <<>>
      BY <2>1, <1>4
    <3>2. q_pending_channel_state' = q_pending_channel_state
      BY <1>1, <1>6, <2>1 DEF all
    <3>3. QED
      BY <3>1, <3>2
  <2>2. CASE ~(EdgeToSend # <<>> /\ Len(g) = Len(all))
    <3>1. EdgeToSend = <<>> => Len(all) = L
      BY <1>2, <1>5
    <3>2. EdgeToSend # <<>> => Len(all) = L + 1
      BY <1>4, <1>5
    <3>3. L \in Nat /\ Len(g) \in Nat /\ Len(g) <= Len(all)
      BY <1>2, <1>7
    <3>4. Len(g) <= L
      <4> HIDE DEF L
      <4>1. QED
        BY <2>2, <3>1, <3>2, <3>3
    <3>5. QED
      BY <1>1, <3>4
  <2>3. QED
    BY <2>1, <2>2
<1>12. delivery_pending' = Owe(order, Len(g)) /\ finals' = finals + L
  BY <1>1, <1>6 DEF all
<1>13. PersistMoves(order, g)
  <2>1. /\ device_event_sequence' = device_event_sequence + Len(g)
        /\ \A k \in 1..Len(g) : g[k].seq = device_event_sequence + k
    BY <1>6 DEF Carries
  <2>2. QED
    BY <1>6, <1>9, <1>10, <1>11, <1>12, <2>1 DEF PersistMoves
<1>14. QED
  BY <1>13

LEMMA Finalized ==
  ASSUME TypeOK, NEW slots \in SUBSET Slots, FinalizeSlots(slots)
  PROVE  \E order \in Ascending(slots), g \in Seq(Frame) :
           /\ Critical' = Critical \o g /\ Len(g) \in 0..Len(order)
           /\ device_event_sequence' = device_event_sequence + Len(g)
           /\ \A k \in 1..Len(g) : /\ IsResult(g[k]) /\ g[k].first = finals + k
                                   /\ g[k].seq = device_event_sequence + k
           /\ delivery_pending' = Owe(order, Len(g)) /\ finals' = finals + Len(order)
<1>1. PICK order \in Ascending(slots) :
        /\ Emit(Results(order), device_event_sequence)
        /\ delivery_pending' = Owe(order, Admitted(Results(order)))
        /\ finals' = finals + Len(order)
  BY DEF FinalizeSlots
<1>2. /\ Len(order) \in Nat /\ Results(order) \in Seq(Frame)
      /\ Len(Results(order)) = Len(order)
  BY ResultsFrames
<1>3. PICK g \in Seq(Frame) :
        /\ Critical' = Critical \o g /\ Len(g) = Admitted(Results(order))
        /\ Admitted(Results(order)) \in 0..Len(order)
        /\ device_event_sequence' = device_event_sequence + Admitted(Results(order))
        /\ Carries(g, Results(order), device_event_sequence)
  BY <1>1, <1>2, EmitCarries DEF TypeOK
<1>4. \A k \in 1..Len(order) : IsResult(Results(order)[k]) /\ Results(order)[k].first = finals + k
  BY DEF Results, TxResult, IsResult
<1>5. \A k \in 1..Len(g) : k \in 1..Len(order)
  BY <1>2, <1>3
<1>6. \A k \in 1..Len(g) : /\ IsResult(g[k]) /\ g[k].first = finals + k
                          /\ g[k].seq = device_event_sequence + k
  BY <1>3, <1>4, <1>5 DEF Carries, IsResult
<1>7. QED
  BY <1>1, <1>3, <1>6
-----------------------------------------------------------------------------
(* The results, step by step.                                               *)

PlacedNow == Placed(Critical, delivery_pending, host.results, finals)

LEMMA PlacedStep ==
  ASSUME TypeOK, Batches, PlacedNow, [Next]_vars
  PROVE  PlacedNow'
<1>1. Critical \in Seq(Frame) /\ finals \in Nat /\ q_data \in Seq(Frame)
  BY ConcatProperties DEF TypeOK, Critical
<1>2. ASSUME NEW g \in Seq(Frame), Critical' = Critical \o g,
             \A k \in 1..Len(g) : ~IsResult(g[k]),
             UNCHANGED <<delivery_pending, host, finals>>
      PROVE  PlacedNow'
  BY <1>1, <1>2, ResultsStay DEF PlacedNow
<1>3. CASE UNCHANGED <<Critical, delivery_pending, host, finals>>
  BY <1>3 DEF PlacedNow, Placed
<1>4. ASSUME NEW key \in Key, NEW s \in Nat, NEW base \in Nat, AccumulateLoss(key, s, base),
             UNCHANGED <<delivery_pending, host, finals>>
      PROVE  PlacedNow'
  <2>1. PICK g \in Seq(Frame) :
          /\ Critical' = Critical \o g
          /\ \A k \in 1..Len(g) : g[k].kind \in {"event_loss", "ring_loss"}
    BY <1>4, LossNotices
  <2>2. \A k \in 1..Len(g) : ~IsResult(g[k])
    BY <2>1 DEF IsResult
  <2>3. QED
    BY <1>2, <1>4, <2>1, <2>2
<1>5. /\ device_event_sequence \in Nat /\ device_event_sequence + 1 \in Nat
      /\ next_channel_sequence + 1 \in Nat
      /\ {"usb_data_overflow", "usb_data_admission", "usb_event_overflow", "can_ring"} \subseteq Key
  BY DEF TypeOK, Key, EventKey
<1>6. ASSUME NEW fits \in BOOLEAN, EmitRxBatch(fits)
      PROVE  PlacedNow'
  <2>1. \/ UNCHANGED <<q_critical, q_critical_pending>>
        \/ AccumulateLoss("usb_data_overflow", device_event_sequence + 1, device_event_sequence + 1)
        \/ AccumulateLoss("usb_data_admission", device_event_sequence + 1, device_event_sequence + 1)
    BY <1>6, Zenon DEF EmitRxBatch
  <2>2. UNCHANGED <<delivery_pending, host, finals>>
    BY <1>6 DEF EmitRxBatch
  <2>3. QED
    BY <1>3, <1>4, <1>5, <2>1, <2>2 DEF Critical
<1>7. CASE NoteEventQueueLoss
  BY <1>4, <1>5, <1>7 DEF NoteEventQueueLoss
<1>8. ASSUME NEW room \in BOOLEAN, OnRx(room)
      PROVE  PlacedNow'
  <2>1. \/ UNCHANGED <<q_critical, q_critical_pending>>
        \/ AccumulateLoss("can_ring", next_channel_sequence + 1, device_event_sequence)
    BY <1>8, Zenon DEF OnRx
  <2>2. UNCHANGED <<delivery_pending, host, finals>>
    BY <1>8 DEF OnRx
  <2>3. QED
    BY <1>3, <1>4, <1>5, <2>1, <2>2 DEF Critical
<1>9. ASSUME NEW slots \in SUBSET Quiet, NEW order \in Ascending(slots), NEW g \in Seq(Frame),
             Critical' = Critical \o g,
             \A k \in 1..Len(g) : IF k <= Len(order)
                                  THEN IsResult(g[k]) /\ g[k].first = finals + k
                                  ELSE ~IsResult(g[k]),
             delivery_pending' = Owe(order, Len(g)), finals' = finals + Len(order),
             host' = host
      PROVE  PlacedNow'
  <2>1. Len(g) \in Nat
    BY LenProperties
  <2>2. ResultsMove(g, delivery_pending, delivery_pending', finals, finals')
    BY <1>9, <2>1, OweMoves DEF PlacedNow
  <2>3. slots \in SUBSET Slots
    BY DEF Quiet
  <2>4. finals' \in Nat /\ finals <= finals'
    BY <1>1, <1>9, <2>3, ResultsFrames
  <2>5. Placed(Critical \o g, delivery_pending', host.results, finals')
    BY <1>1, <2>2, <2>4, PlacedAppends DEF PlacedNow
  <2>6. QED
    BY <1>9, <2>5 DEF PlacedNow
<1>10. ASSUME NEW slots \in SUBSET Quiet, FinalizeSlots(slots)
       PROVE  PlacedNow'
  <2>1. slots \in SUBSET Slots
    BY DEF Quiet
  <2>2. PICK order \in Ascending(slots), g \in Seq(Frame) :
          /\ Critical' = Critical \o g /\ Len(g) \in 0..Len(order)
          /\ \A k \in 1..Len(g) : IsResult(g[k]) /\ g[k].first = finals + k
          /\ delivery_pending' = Owe(order, Len(g)) /\ finals' = finals + Len(order)
    BY <1>10, <2>1, Finalized
  <2>3. Len(order) \in Nat
    BY <2>1, ResultsFrames
  <2>4. \A k \in 1..Len(g) : k <= Len(order)
    BY <2>2, <2>3
  <2>5. host' = host
    BY <1>10 DEF FinalizeSlots
  <2>6. QED
    BY <1>9, <2>2, <2>4, <2>5
<1>11. ASSUME NEW slots \in SUBSET Quiet, PersistChannelState(slots)
       PROVE  PlacedNow'
  <2>1. slots \in SUBSET Slots
    BY DEF Quiet
  <2>2. PICK order \in Ascending(slots), g \in Seq(Frame) : PersistMoves(order, g)
    BY <1>11, <2>1, Persisted
  <2>3. Len(order) \in Nat /\ Len(g) \in Nat
    BY <2>1, ResultsFrames, LenProperties
  <2>4. \A k \in 1..Len(g) : k <= Len(order) \/ k > Len(order)
    BY <2>3
  <2>5. \A k \in 1..Len(g) : IF k <= Len(order)
                             THEN IsResult(g[k]) /\ g[k].first = finals + k
                             ELSE ~IsResult(g[k])
    BY <2>2, <2>4 DEF PersistMoves, IsResult
  <2>6. host' = host
    BY <1>11 DEF PersistChannelState
  <2>7. QED
    BY <1>9, <2>2, <2>5, <2>6 DEF PersistMoves
<1>12. CASE PollFlowControl
  <2>1. <<FlowControl>> \in Seq(Frame) /\ Len(<<FlowControl>>) = 1
        /\ <<FlowControl>>[1].kind = "flow_control"
    BY FlowControlFrame DEF FlowControl
  <2>2. PICK g \in Seq(Frame) :
          /\ Critical' = Critical \o g
          /\ Carries(g, <<FlowControl>>, device_event_sequence)
    BY <1>5, <1>12, <2>1, EmitCarries DEF PollFlowControl
  <2>3. \A k \in 1..Len(g) : g[k].kind = "flow_control"
    <3>1. Len(g) \in Nat /\ Len(g) <= 1
      BY <2>1, <2>2, LenProperties DEF Carries
    <3>2. \A k \in 1..Len(g) : k = 1
      BY <3>1
    <3>3. QED
      BY <2>1, <2>2, <3>2 DEF Carries
  <2>4. \A k \in 1..Len(g) : ~IsResult(g[k])
    BY <2>3 DEF IsResult
  <2>5. QED
    BY <1>2, <1>12, <2>2, <2>4 DEF PollFlowControl
<1>13. ASSUME NEW fits \in BOOLEAN, Dequeue(fits)
       PROVE  PlacedNow'
  <2>1. PICK accs \in Ascending(Occupied), slots \in Ascending(Owing), g \in Seq(Frame) :
          \E flush :
            /\ FlushMoves(flush, accs, slots, g) /\ TakesHead(g)
            /\ delivery_pending' = flush.owed /\ finals' = finals
    BY <1>13, DequeueMoves
  <2>2. PICK flush :
          /\ FlushMoves(flush, accs, slots, g) /\ TakesHead(g)
          /\ delivery_pending' = flush.owed /\ finals' = finals
    BY <2>1
  <2> DEFINE c == Critical \o g
  <2>3. ResultsMove(g, delivery_pending, delivery_pending', finals, finals')
    BY <2>2, FlushMovesResults DEF PlacedNow
  <2>4. c \in Seq(Frame) /\ finals <= finals'
    BY <1>1, <2>2, ConcatElements
  <2>5. Placed(c, delivery_pending', host.results, finals')
    BY <1>1, <2>2, <2>3, <2>4, PlacedAppends DEF PlacedNow
  <2> HIDE DEF c
  <2>6. CASE c # <<>> /\ Critical' = Tail(c) /\ host' = HostReceives(c[1])
    <3>1. host'.results = IF IsResult(c[1]) THEN host.results \cup {c[1].first}
                                            ELSE host.results
      BY <2>6 DEF HostReceives, IsResult
    <3>2. c \in Seq(Frame) /\ c # <<>> /\ finals' \in Nat
      BY <1>1, <2>2, <2>4, <2>6
    <3>3. Placed(Tail(c), delivery_pending',
                 IF IsResult(c[1]) THEN host.results \cup {c[1].first} ELSE host.results,
                 finals')
      BY <2>5, <3>2, PlacedTake
    <3>4. Placed(Tail(c), delivery_pending', host'.results, finals')
      BY <3>1, <3>3, Zenon
    <3>5. QED
      BY <2>6, <3>4 DEF PlacedNow
  <2>7. CASE q_data # <<>> /\ host' = HostReceives(q_data[1]) /\ Critical' = c
    <3>1. q_data[1].kind = "rx_batch"
      BY <1>1, <2>7, TailElements DEF Batches
    <3>2. host'.results = host.results
      BY <2>7, <3>1 DEF HostReceives
    <3>3. QED
      BY <2>5, <2>7, <3>2 DEF PlacedNow
  <2>8. CASE Critical' = c /\ host' = host
    BY <2>5, <2>8 DEF PlacedNow
  <2>9. QED
    BY <2>2, <2>6, <2>7, <2>8 DEF TakesHead, c
<1>14. CASE UNCHANGED vars
  BY <1>3, <1>14 DEF vars, Critical
<1>15. Next => PlacedNow'
  BY <1>6, <1>7, <1>8, <1>10, <1>11, <1>12, <1>13, Zenon
     DEF Next, NoteRxRingLoss, FinalizeTx, Reconfigure, NoteChannelState, ConfigChannel
<1>16. QED
  BY <1>14, <1>15

(* A set without two members.                                               *)
LEMMA AtMostOne ==
  ASSUME NEW S, \A i, j \in S : i = j
  PROVE  Cardinality(S) = IF S = {} THEN 0 ELSE 1
<1>1. CASE S = {}
  BY <1>1, FS_EmptySet
<1>2. CASE S # {}
  <2>1. PICK x : S = {x}
    BY <1>2
  <2>2. QED
    BY <1>2, <2>1, FS_Singleton
<1>3. QED
  BY <1>1, <1>2

(* Placed says what ResultExactlyOnce counts. *)
LEMMA PlacedOnce ==
  ASSUME TypeOK, PlacedNow
  PROVE  ResultExactlyOnce
<1> SUFFICES ASSUME NEW n \in 1..finals
             PROVE  Cardinality({i \in Slots : delivery_pending[i] = n})
                      + Cardinality({i \in 1..Len(Critical) : /\ Critical[i].kind = "tx_result"
                                                              /\ Critical[i].first = n})
                      + Cardinality({n} \cap host.results) = 1
  BY DEF ResultExactlyOnce
<1> DEFINE owing  == {i \in Slots : delivery_pending[i] = n}
           queued == {i \in 1..Len(Critical) : /\ Critical[i].kind = "tx_result"
                                               /\ Critical[i].first = n}
           known  == {n} \cap host.results
<1>1. n # 0
  BY DEF TypeOK
<1>2. /\ \A i, j \in owing : i = j
      /\ \A i, j \in queued : i = j
      /\ \A i, j \in known : i = j
      /\ owing # {} => queued = {} /\ known = {}
      /\ queued # {} => known = {}
      /\ owing # {} \/ queued # {} \/ known # {}
  <2>1. \A i, j \in owing : i = j
    BY <1>1 DEF PlacedNow, Placed
  <2>2. \A i, j \in queued : i = j
    BY DEF PlacedNow, Placed, IsResult
  <2>3. owing # {} => queued = {} /\ known = {}
    BY DEF PlacedNow, Placed, IsResult
  <2>4. queued # {} => known = {}
    BY DEF PlacedNow, Placed, IsResult
  <2>5. owing # {} \/ queued # {} \/ known # {}
    BY DEF PlacedNow, Placed, IsResult
  <2>6. QED
    BY <2>1, <2>2, <2>3, <2>4, <2>5
<1> HIDE DEF owing, queued, known
<1>4. /\ Cardinality(owing) = IF owing = {} THEN 0 ELSE 1
      /\ Cardinality(queued) = IF queued = {} THEN 0 ELSE 1
      /\ Cardinality(known) = IF known = {} THEN 0 ELSE 1
  BY <1>2, AtMostOne
<1>5. Cardinality(owing) + Cardinality(queued) + Cardinality(known) = 1
  BY <1>2, <1>4
<1>6. QED
  BY <1>5 DEF owing, queued, known

LEMMA InitPlaced == Init => Batches /\ PlacedNow
<1> SUFFICES ASSUME Init PROVE Batches /\ PlacedNow
  OBVIOUS
<1>1. /\ Critical = <<>> /\ q_data = <<>> /\ finals = 0
      /\ delivery_pending = [i \in Slots |-> 0] /\ host.results = {}
  <2>1. <<>> \in Seq(Frame)
    OBVIOUS
  <2>2. <<>> \o <<>> = <<>>
    BY <2>1, ConcatEmptySeq, Zenon
  <2>3. QED
    BY <2>2 DEF Init, Critical
<1>2. Batches
  BY <1>1 DEF Batches
<1>3. PlacedNow
  BY <1>1 DEF PlacedNow, Placed
<1>4. QED
  BY <1>2, <1>3

(* emit_can_tx_result and the retries of flush_pending: every final result  *)
(* is owed by one slot, or queued once, or received, and never twice.       *)
THEOREM ResultsOnce == Spec => []ResultExactlyOnce
<1> DEFINE IInv == TypeOK /\ Batches /\ PlacedNow
<1>1. Init => IInv
  BY InitTypes, InitPlaced
<1>2. IInv /\ [Next]_vars => IInv'
  BY NextStep, BatchesKept, PlacedStep DEF Preserved
<1>3. IInv => ResultExactlyOnce
  BY PlacedOnce
<1> HIDE DEF IInv
<1>4. QED
  BY <1>1, <1>2, <1>3, PTL DEF Spec
-----------------------------------------------------------------------------
(* The order of channel-state edges.                                        *)

IsEdge(f) == f.kind = "channel_state"

(* The edges in c, then those in q, are in order, after the one that the    *)
(* host has seen and up to the last one reported.                           *)
EdgesOrdered(c, q, seen, total) ==
  /\ \A i, j \in 1..Len(c) : IsEdge(c[i]) /\ IsEdge(c[j]) /\ i < j => c[i].first < c[j].first
  /\ \A i, j \in 1..Len(q) : i < j => q[i] < q[j]
  /\ \A i \in 1..Len(c), j \in 1..Len(q) : IsEdge(c[i]) => c[i].first < q[j]
  /\ \A i \in 1..Len(c) : IsEdge(c[i]) => seen < c[i].first /\ c[i].first <= total
  /\ \A j \in 1..Len(q) : seen < q[j] /\ q[j] <= total
  /\ seen <= total

(* What an emission does to the edges: those in g and those that wait after *)
(* it waited before, or are new, and keep their order.                      *)
EdgesMove(g, q, after, total, new) ==
  /\ \A k \in 1..Len(g) : IsEdge(g[k]) =>
       g[k].first <= new /\ (g[k].first > total \/ \E i \in 1..Len(q) : g[k].first = q[i])
  /\ \A k, m \in 1..Len(g) : IsEdge(g[k]) /\ IsEdge(g[m]) /\ k < m => g[k].first < g[m].first
  /\ \A j \in 1..Len(after) :
       after[j] <= new /\ (after[j] > total \/ \E i \in 1..Len(q) : after[j] = q[i])
  /\ \A i, j \in 1..Len(after) : i < j => after[i] < after[j]
  /\ \A k \in 1..Len(g), j \in 1..Len(after) : IsEdge(g[k]) => g[k].first < after[j]

LEMMA EdgesAppend ==
  ASSUME NEW c \in Seq(Frame), NEW g \in Seq(Frame), NEW q \in Seq(Nat), NEW after \in Seq(Nat),
         NEW seen \in Nat, NEW total \in Nat, NEW new \in Nat, total <= new,
         EdgesOrdered(c, q, seen, total), EdgesMove(g, q, after, total, new)
  PROVE  EdgesOrdered(c \o g, after, seen, new)
<1> DEFINE f == c \o g
<1>1. /\ Len(c) \in Nat /\ Len(g) \in Nat /\ Len(f) \in Nat
      /\ \A i \in 1..Len(c) : i \in 1..Len(f) /\ f[i] = c[i]
      /\ \A k \in 1..Len(g) : Len(c) + k \in 1..Len(f) /\ f[Len(c) + k] = g[k]
      /\ \A i \in 1..Len(f) : i \in 1..Len(c) \/ \E k \in 1..Len(g) : i = Len(c) + k
  BY ConcatElements, LenProperties
<1> HIDE DEF f
<1>2. /\ \A i \in 1..Len(c) : c[i].first \in Nat
      /\ \A k \in 1..Len(g) : g[k].first \in Nat
  <2>1. /\ \A i \in 1..Len(c) : c[i] \in Frame
        /\ \A k \in 1..Len(g) : g[k] \in Frame
    BY ElementOfSeq
  <2>2. QED
    BY <2>1 DEF Frame
<1>3. /\ \A i \in 1..Len(q) : q[i] \in Nat
      /\ \A j \in 1..Len(after) : after[j] \in Nat
  BY ElementOfSeq
<1>4. seen <= total
  BY DEF EdgesOrdered
<1>5. \A i \in 1..Len(c) : IsEdge(c[i]) => seen < c[i].first /\ c[i].first <= total
  BY DEF EdgesOrdered
<1>6. \A i \in 1..Len(q) : seen < q[i] /\ q[i] <= total
  BY DEF EdgesOrdered
<1>7. ASSUME NEW x \in Nat, x > total \/ \E i \in 1..Len(q) : x = q[i]
      PROVE  seen < x /\ \A i \in 1..Len(c) : IsEdge(c[i]) => c[i].first < x
  <2>1. CASE x > total
    BY <1>2, <1>4, <1>5, <2>1
  <2>2. CASE \E i \in 1..Len(q) : x = q[i]
    BY <1>6, <2>2 DEF EdgesOrdered
  <2>3. QED
    BY <1>7, <2>1, <2>2
<1>8. \A k \in 1..Len(g) : IsEdge(g[k]) =>
        /\ seen < g[k].first /\ g[k].first <= new
        /\ \A i \in 1..Len(c) : IsEdge(c[i]) => c[i].first < g[k].first
  BY <1>2, <1>7 DEF EdgesMove
<1>9. \A j \in 1..Len(after) :
        /\ seen < after[j] /\ after[j] <= new
        /\ \A i \in 1..Len(c) : IsEdge(c[i]) => c[i].first < after[j]
  BY <1>3, <1>7 DEF EdgesMove
<1>10. ASSUME NEW i \in 1..Len(f), IsEdge(f[i])
       PROVE  \/ i \in 1..Len(c) /\ IsEdge(c[i]) /\ f[i].first = c[i].first
              \/ \E k \in 1..Len(g) : i = Len(c) + k /\ IsEdge(g[k]) /\ f[i].first = g[k].first
  BY <1>1, <1>10
<1>11. ASSUME NEW i \in 1..Len(f), NEW j \in 1..Len(f), IsEdge(f[i]), IsEdge(f[j]), i < j
       PROVE  f[i].first < f[j].first
  <2>1. CASE i \in 1..Len(c) /\ IsEdge(c[i]) /\ f[i].first = c[i].first
    <3>1. CASE j \in 1..Len(c) /\ IsEdge(c[j]) /\ f[j].first = c[j].first
      BY <1>11, <2>1, <3>1 DEF EdgesOrdered
    <3>2. ASSUME NEW k \in 1..Len(g), IsEdge(g[k]), f[j].first = g[k].first
          PROVE  f[i].first < f[j].first
      BY <1>8, <2>1, <3>2
    <3>3. QED
      BY <1>10, <1>11, <3>1, <3>2
  <2>2. ASSUME NEW k \in 1..Len(g), i = Len(c) + k, IsEdge(g[k]), f[i].first = g[k].first
        PROVE  f[i].first < f[j].first
    <3>1. ~(j \in 1..Len(c))
      BY <1>1, <1>11, <2>2
    <3>2. PICK m \in 1..Len(g) : j = Len(c) + m /\ IsEdge(g[m]) /\ f[j].first = g[m].first
      BY <1>10, <1>11, <3>1
    <3>3. k < m
      BY <1>1, <1>11, <2>2, <3>2
    <3>4. QED
      BY <2>2, <3>2, <3>3 DEF EdgesMove
  <2>3. QED
    BY <1>10, <1>11, <2>1, <2>2
<1>12. ASSUME NEW i \in 1..Len(f), IsEdge(f[i])
       PROVE  /\ seen < f[i].first /\ f[i].first <= new
              /\ \A j \in 1..Len(after) : f[i].first < after[j]
  <2>1. CASE i \in 1..Len(c) /\ IsEdge(c[i]) /\ f[i].first = c[i].first
    <3>1. c[i].first \in Nat /\ seen < c[i].first /\ c[i].first <= total
      BY <1>2, <1>5, <2>1
    <3>2. c[i].first <= new
      BY <3>1
    <3>3. QED
      BY <1>9, <2>1, <3>1, <3>2
  <2>2. ASSUME NEW k \in 1..Len(g), IsEdge(g[k]), f[i].first = g[k].first
        PROVE  /\ seen < f[i].first /\ f[i].first <= new
               /\ \A j \in 1..Len(after) : f[i].first < after[j]
    BY <1>8, <2>2 DEF EdgesMove
  <2>3. QED
    BY <1>10, <1>12, <2>1, <2>2
<1>13. seen <= new /\ \A i, j \in 1..Len(after) : i < j => after[i] < after[j]
  BY <1>4 DEF EdgesMove
<1>14. QED
  BY <1>9, <1>11, <1>12, <1>13 DEF EdgesOrdered, f

(* A frame taken from the head of the queue is seen.                        *)
LEMMA EdgesTake ==
  ASSUME NEW c \in Seq(Frame), c # <<>>, NEW q, NEW seen \in Nat, NEW total \in Nat,
         EdgesOrdered(c, q, seen, total)
  PROVE  EdgesOrdered(Tail(c), q, IF IsEdge(c[1]) THEN c[1].first ELSE seen, total)
<1> DEFINE t == Tail(c)
           now == IF IsEdge(c[1]) THEN c[1].first ELSE seen
<1>1. /\ Len(c) \in Nat /\ 1 \in 1..Len(c)
      /\ \A i \in 1..Len(t) : i + 1 \in 1..Len(c) /\ t[i] = c[i + 1]
  BY TailElements
<1>2. \A i, j \in 1..Len(t) : 1 < i + 1 /\ (i < j => i + 1 < j + 1)
  OBVIOUS
<1> HIDE DEF t
<1>3. \A i, j \in 1..Len(t) : IsEdge(t[i]) /\ IsEdge(t[j]) /\ i < j => t[i].first < t[j].first
  BY <1>1, <1>2 DEF EdgesOrdered
<1>4. \A i \in 1..Len(t), j \in 1..Len(q) : IsEdge(t[i]) => t[i].first < q[j]
  BY <1>1 DEF EdgesOrdered
<1>5. \A i \in 1..Len(t) : IsEdge(t[i]) => now < t[i].first /\ t[i].first <= total
  BY <1>1, <1>2 DEF EdgesOrdered
<1>6. \A j \in 1..Len(q) : now < q[j] /\ q[j] <= total
  BY <1>1 DEF EdgesOrdered
<1>7. now <= total
  BY <1>1 DEF EdgesOrdered
<1>8. \A i, j \in 1..Len(q) : i < j => q[i] < q[j]
  BY DEF EdgesOrdered
<1> HIDE DEF now
<1>9. EdgesOrdered(t, q, now, total)
  BY <1>3, <1>4, <1>5, <1>6, <1>7, <1>8 DEF EdgesOrdered
<1>10. QED
  BY <1>9 DEF t, now

(* An emission without edges changes nothing.                               *)
LEMMA EdgesStay ==
  ASSUME NEW c \in Seq(Frame), NEW g \in Seq(Frame), NEW q \in Seq(Nat), NEW seen \in Nat,
         NEW total \in Nat, EdgesOrdered(c, q, seen, total),
         \A k \in 1..Len(g) : ~IsEdge(g[k])
  PROVE  EdgesOrdered(c \o g, q, seen, total)
<1>1. EdgesMove(g, q, q, total, total)
  BY DEF EdgesMove, EdgesOrdered
<1>2. total <= total
  OBVIOUS
<1>3. QED
  BY <1>1, <1>2, EdgesAppend

(* flush_pending sends the first of the edges that wait.                    *)
LEMMA FlushMovesEdges ==
  ASSUME TypeOK, NEW accs \in Ascending(Occupied), NEW slots \in Ascending(Owing),
         NEW flush, NEW g \in Seq(Frame), FlushMoves(flush, accs, slots, g), NEW seen,
         EdgesOrdered(Critical, q_pending_channel_state, seen, edges)
  PROVE  /\ flush.edges \in Seq(Nat)
         /\ EdgesMove(g, q_pending_channel_state, flush.edges, edges, edges)
<1> DEFINE q == q_pending_channel_state
           A == Len(accs)
           S == Len(slots)
           E == Len(q)
           n == Len(g)
           e == Lesser(E, Greater(0, n - A - S))
           after == flush.edges
<1>1. A \in Nat /\ S \in Nat
  <2>1. /\ NAcc \in Nat /\ Occupied \in SUBSET (1..NAcc)
        /\ NSlots \in Nat /\ Owing \in SUBSET (1..NSlots)
    BY EgressAssumption DEF Occupied, Acc, Owing, Slots
  <2>2. QED
    BY <2>1, AscendingSeq
<1>2. E \in Nat /\ n \in Nat /\ q \in Seq(Nat) /\ \A i \in 1..E : q[i] \in Nat
  BY LenProperties, ElementOfSeq DEF TypeOK
<1>3. /\ \A k \in 1..n : k <= A => g[k].kind = LossNotice(loss[accs[k]]).kind
      /\ \A k \in 1..n : A < k /\ k <= A + S => g[k].kind = "tx_result"
      /\ \A k \in 1..n : A + S < k /\ k <= A + S + E => g[k].first = q[k - A - S]
      /\ \A k \in 1..n : A + S + E < k => g[k].kind = "flow_control"
      /\ after = SubSeq(q, e + 1, E)
  BY DEF FlushMoves
<1>4. e \in 0..E /\ \A k \in 1..n : k - A - S <= E => k - A - S <= e
  BY <1>1, <1>2 DEF Lesser, Greater
<1>5. /\ after \in Seq(Nat) /\ Len(after) = E - e
      /\ \A j \in 1..E - e : after[j] = q[e + j]
  <2> HIDE DEF e, E, q, after
  <2>1. e + 1 \in Int /\ E \in Int /\ \A i \in e + 1..E : q[i] \in Nat
    BY <1>2, <1>4
  <2>2. /\ SubSeq(q, e + 1, E) \in Seq(Nat)
        /\ Len(SubSeq(q, e + 1, E)) = IF e + 1 <= E THEN E - (e + 1) + 1 ELSE 0
        /\ \A i \in 1..E - (e + 1) + 1 : SubSeq(q, e + 1, E)[i] = q[e + 1 + i - 1]
    BY <2>1, SubSeqProperties
  <2>3. /\ (IF e + 1 <= E THEN E - (e + 1) + 1 ELSE 0) = E - e
        /\ E - (e + 1) + 1 = E - e
        /\ \A i \in 1..E - e : e + 1 + i - 1 = e + i
    BY <1>2, <1>4
  <2>4. QED
    BY <1>3, <2>2, <2>3
<1> HIDE DEF e, after
<1>6. ASSUME NEW k \in 1..n, IsEdge(g[k])
      PROVE  k - A - S \in 1..e /\ g[k].first = q[k - A - S]
  <2>1. ~(k <= A)
    BY <1>3, <1>6 DEF IsEdge, LossNotice
  <2>2. ~(A < k /\ k <= A + S)
    BY <1>3, <1>6 DEF IsEdge
  <2>3. ~(A + S + E < k)
    BY <1>3, <1>6 DEF IsEdge
  <2> HIDE DEF A, S, E, n
  <2>4. A + S < k /\ k <= A + S + E
    BY <1>1, <1>2, <2>1, <2>2, <2>3
  <2>5. k - A - S \in Nat /\ 1 <= k - A - S /\ k - A - S <= E
    BY <1>1, <1>2, <2>4
  <2>6. QED
    BY <1>3, <1>4, <2>4, <2>5
<1>7. /\ \A i, j \in 1..E : i < j => q[i] < q[j]
      /\ \A i \in 1..E : q[i] <= edges
  BY DEF EdgesOrdered
<1> HIDE DEF A, S, E, n, q
<1>8. \A i \in 1..e : i \in 1..E
  BY <1>2, <1>4
<1>9. \A j \in 1..E - e : e + j \in 1..E /\ \A i \in 1..e : i < e + j
  BY <1>2, <1>4
<1>10. \A k \in 1..n : IsEdge(g[k]) =>
         g[k].first <= edges /\ \E i \in 1..E : g[k].first = q[i]
  BY <1>6, <1>7, <1>8
<1>11. \A k, m \in 1..n : IsEdge(g[k]) /\ IsEdge(g[m]) /\ k < m => g[k].first < g[m].first
  <2>1. \A k, m \in 1..n : k < m => k - A - S < m - A - S
    BY <1>1, <1>2
  <2>2. QED
    BY <1>6, <1>7, <1>8, <2>1
<1>12. \A j \in 1..E - e : after[j] <= edges /\ \E i \in 1..E : after[j] = q[i]
  BY <1>5, <1>7, <1>9
<1>13. \A i, j \in 1..E - e : i < j => after[i] < after[j]
  <2>1. \A i, j \in 1..E - e : i < j => e + i < e + j
    BY <1>2, <1>4
  <2>2. QED
    BY <1>5, <1>7, <1>9, <2>1
<1>14. \A k \in 1..n, j \in 1..E - e : IsEdge(g[k]) => g[k].first < after[j]
  BY <1>5, <1>6, <1>7, <1>8, <1>9
<1>15. QED
  BY <1>5, <1>10, <1>11, <1>12, <1>13, <1>14 DEF EdgesMove, n, q, E, after
-----------------------------------------------------------------------------
(* The edges, step by step.                                                 *)

EdgesNow == EdgesOrdered(Critical, q_pending_channel_state, host.edge, edges)

LEMMA EdgesStep ==
  ASSUME TypeOK, Batches, EdgesNow, [Next]_vars
  PROVE  EdgesNow'
<1>1. /\ Critical \in Seq(Frame) /\ edges \in Nat /\ q_data \in Seq(Frame)
      /\ q_pending_channel_state \in Seq(Nat) /\ host.edge \in Nat
  BY ConcatProperties DEF TypeOK, Critical, Host
<1>2. ASSUME NEW g \in Seq(Frame), Critical' = Critical \o g,
             \A k \in 1..Len(g) : ~IsEdge(g[k]),
             UNCHANGED <<q_pending_channel_state, host, edges>>
      PROVE  EdgesNow'
  BY <1>1, <1>2, EdgesStay DEF EdgesNow
<1>3. CASE UNCHANGED <<Critical, q_pending_channel_state, host, edges>>
  BY <1>3 DEF EdgesNow
<1>4. ASSUME NEW key \in Key, NEW s \in Nat, NEW base \in Nat, AccumulateLoss(key, s, base),
             UNCHANGED <<q_pending_channel_state, host, edges>>
      PROVE  EdgesNow'
  <2>1. PICK g \in Seq(Frame) :
          /\ Critical' = Critical \o g
          /\ \A k \in 1..Len(g) : g[k].kind \in {"event_loss", "ring_loss"}
    BY <1>4, LossNotices
  <2>2. \A k \in 1..Len(g) : ~IsEdge(g[k])
    BY <2>1 DEF IsEdge
  <2>3. QED
    BY <1>2, <1>4, <2>1, <2>2
<1>5. /\ device_event_sequence \in Nat /\ device_event_sequence + 1 \in Nat
      /\ next_channel_sequence + 1 \in Nat
      /\ {"usb_data_overflow", "usb_data_admission", "usb_event_overflow", "can_ring"} \subseteq Key
  BY DEF TypeOK, Key, EventKey
<1>6. ASSUME NEW fits \in BOOLEAN, EmitRxBatch(fits)
      PROVE  EdgesNow'
  <2>1. \/ UNCHANGED <<q_critical, q_critical_pending>>
        \/ AccumulateLoss("usb_data_overflow", device_event_sequence + 1, device_event_sequence + 1)
        \/ AccumulateLoss("usb_data_admission", device_event_sequence + 1, device_event_sequence + 1)
    BY <1>6, Zenon DEF EmitRxBatch
  <2>2. UNCHANGED <<q_pending_channel_state, host, edges>>
    BY <1>6 DEF EmitRxBatch
  <2>3. QED
    BY <1>3, <1>4, <1>5, <2>1, <2>2 DEF Critical
<1>7. CASE NoteEventQueueLoss
  BY <1>4, <1>5, <1>7 DEF NoteEventQueueLoss
<1>8. ASSUME NEW room \in BOOLEAN, OnRx(room)
      PROVE  EdgesNow'
  <2>1. \/ UNCHANGED <<q_critical, q_critical_pending>>
        \/ AccumulateLoss("can_ring", next_channel_sequence + 1, device_event_sequence)
    BY <1>8, Zenon DEF OnRx
  <2>2. UNCHANGED <<q_pending_channel_state, host, edges>>
    BY <1>8 DEF OnRx
  <2>3. QED
    BY <1>3, <1>4, <1>5, <2>1, <2>2 DEF Critical
<1>9. ASSUME NEW slots \in SUBSET Quiet, FinalizeSlots(slots)
      PROVE  EdgesNow'
  <2>1. slots \in SUBSET Slots
    BY DEF Quiet
  <2>2. PICK order \in Ascending(slots), g \in Seq(Frame) :
          /\ Critical' = Critical \o g
          /\ \A k \in 1..Len(g) : IsResult(g[k])
    BY <1>9, <2>1, Finalized
  <2>3. \A k \in 1..Len(g) : ~IsEdge(g[k])
    BY <2>2 DEF IsResult, IsEdge
  <2>4. QED
    BY <1>2, <1>9, <2>2, <2>3 DEF FinalizeSlots
<1>10. ASSUME NEW slots \in SUBSET Quiet, PersistChannelState(slots)
       PROVE  EdgesNow'
  <2> DEFINE q == q_pending_channel_state
  <2>1. slots \in SUBSET Slots
    BY DEF Quiet
  <2>2. PICK order \in Ascending(slots), g \in Seq(Frame) : PersistMoves(order, g)
    BY <1>10, <2>1, Persisted
  <2>3. Len(order) \in Nat /\ Len(g) \in Nat
    BY <2>1, ResultsFrames, LenProperties
  <2>4. edges' = edges + 1 /\ edges + 1 \in Nat /\ edges <= edges + 1 /\ host' = host
    BY <1>1, <1>10 DEF PersistChannelState
  <2>5. \A k \in 1..Len(g) : IsEdge(g[k]) => /\ k = Len(order) + 1 /\ k > Len(order)
                                             /\ g[k].first = edges + 1
    <3>1. \A k \in 1..Len(g) : k <= Len(order) \/ k > Len(order)
      BY <2>3
    <3>2. \A k \in 1..Len(g) : IsEdge(g[k]) => k > Len(order)
      BY <2>2, <3>1 DEF PersistMoves, IsResult, IsEdge
    <3>3. QED
      BY <2>2, <3>2 DEF PersistMoves
  <2>6. /\ \A i \in 1..Len(q) : q[i] \in Nat /\ q[i] <= edges
        /\ \A i, j \in 1..Len(q) : i < j => q[i] < q[j]
        /\ Len(q) \in Nat
    BY <1>1, ElementOfSeq, LenProperties DEF EdgesNow, EdgesOrdered
  <2>7. \A k, m \in 1..Len(g) : IsEdge(g[k]) /\ IsEdge(g[m]) => ~(k < m)
    BY <2>3, <2>5
  <2>8. ASSUME NEW after \in Seq(Nat),
               \A j \in 1..Len(after) : after[j] = edges + 1 \/ \E i \in 1..Len(q) : after[j] = q[i],
               \A i, j \in 1..Len(after) : i < j => after[i] < after[j],
               after = <<>> \/ Len(g) <= Len(order)
        PROVE  EdgesMove(g, q, after, edges, edges + 1)
    <3>1. \A j \in 1..Len(after) :
            after[j] <= edges + 1 /\ (after[j] > edges \/ \E i \in 1..Len(q) : after[j] = q[i])
      <4> SUFFICES ASSUME NEW j \in 1..Len(after)
                   PROVE  /\ after[j] <= edges + 1
                          /\ after[j] > edges \/ \E i \in 1..Len(q) : after[j] = q[i]
        OBVIOUS
      <4>1. CASE after[j] = edges + 1
        BY <1>1, <4>1
      <4>2. ASSUME NEW i \in 1..Len(q), after[j] = q[i]
            PROVE  after[j] <= edges + 1
        <5>1. q[i] \in Nat /\ q[i] <= edges /\ edges \in Nat
          BY <1>1, <2>6
        <5>2. q[i] <= edges + 1
          BY <5>1
        <5>3. QED
          BY <4>2, <5>2, Zenon
      <4>3. QED
        BY <2>8, <4>1, <4>2
    <3>2. \A k \in 1..Len(g) : IsEdge(g[k]) => g[k].first <= edges + 1 /\ g[k].first > edges
      BY <1>1, <2>5
    <3>3. \A k \in 1..Len(g), j \in 1..Len(after) : ~IsEdge(g[k])
      <4>1. CASE after = <<>>
        BY <4>1
      <4>2. CASE Len(g) <= Len(order)
        <5>1. \A k \in 1..Len(g) : ~(k > Len(order))
          BY <2>3, <4>2
        <5>2. QED
          BY <2>5, <5>1
      <4>3. QED
        BY <2>8, <4>1, <4>2
    <3>4. QED
      BY <2>7, <2>8, <3>1, <3>2, <3>3 DEF EdgesMove
  <2>9. q' \in Seq(Nat) /\ EdgesMove(g, q, q', edges, edges + 1)
    <3>1. CASE q' = q /\ (q = <<>> \/ Len(g) <= Len(order))
      BY <1>1, <2>6, <2>8, <3>1
    <3>2. CASE q' = Append(q, edges + 1) /\ Len(g) <= Len(order)
      <4>1. /\ q' \in Seq(Nat) /\ Len(q') = Len(q) + 1
            /\ \A i \in 1..Len(q) : q'[i] = q[i]
            /\ q'[Len(q) + 1] = edges + 1
        BY <1>1, <2>4, <3>2, AppendProperties
      <4>2. \A j \in 1..Len(q) + 1 : j \in 1..Len(q) \/ j = Len(q) + 1
        BY <2>6
      <4>3. \A j \in 1..Len(q) + 1 : q'[j] = edges + 1 \/ \E i \in 1..Len(q) : q'[j] = q[i]
        BY <4>1, <4>2
      <4>4. ASSUME NEW i \in 1..Len(q) + 1, NEW j \in 1..Len(q) + 1, i < j
            PROVE  q'[i] < q'[j]
        <5>1. i \in 1..Len(q) /\ q'[i] = q[i]
          BY <2>6, <4>1, <4>4
        <5>2. CASE j \in 1..Len(q)
          BY <2>6, <4>1, <4>4, <5>1, <5>2
        <5>3. CASE j = Len(q) + 1
          BY <1>1, <2>6, <4>1, <5>1, <5>3
        <5>4. QED
          BY <4>2, <5>2, <5>3
      <4>5. QED
        BY <2>8, <3>2, <4>1, <4>3, <4>4
    <3>3. QED
      BY <2>2, <3>1, <3>2 DEF PersistMoves
  <2>10. EdgesOrdered(Critical \o g, q', host.edge, edges + 1)
    BY <1>1, <2>4, <2>9, EdgesAppend DEF EdgesNow
  <2>11. QED
    BY <2>2, <2>4, <2>10 DEF EdgesNow, PersistMoves
<1>11. CASE PollFlowControl
  <2>1. <<FlowControl>> \in Seq(Frame) /\ Len(<<FlowControl>>) = 1
        /\ <<FlowControl>>[1].kind = "flow_control"
    BY FlowControlFrame DEF FlowControl
  <2>2. PICK g \in Seq(Frame) :
          /\ Critical' = Critical \o g
          /\ Carries(g, <<FlowControl>>, device_event_sequence)
    BY <1>5, <1>11, <2>1, EmitCarries DEF PollFlowControl
  <2>3. \A k \in 1..Len(g) : g[k].kind = "flow_control"
    <3>1. Len(g) \in Nat /\ Len(g) <= 1
      BY <2>1, <2>2, LenProperties DEF Carries
    <3>2. \A k \in 1..Len(g) : k = 1
      BY <3>1
    <3>3. QED
      BY <2>1, <2>2, <3>2 DEF Carries
  <2>4. \A k \in 1..Len(g) : ~IsEdge(g[k])
    BY <2>3 DEF IsEdge
  <2>5. QED
    BY <1>2, <1>11, <2>2, <2>4 DEF PollFlowControl
<1>12. ASSUME NEW fits \in BOOLEAN, Dequeue(fits)
       PROVE  EdgesNow'
  <2>1. PICK accs \in Ascending(Occupied), slots \in Ascending(Owing), g \in Seq(Frame) :
          \E flush :
            /\ FlushMoves(flush, accs, slots, g) /\ TakesHead(g)
            /\ q_pending_channel_state' = flush.edges /\ edges' = edges
    BY <1>12, DequeueMoves
  <2>2. PICK flush :
          /\ FlushMoves(flush, accs, slots, g) /\ TakesHead(g)
          /\ q_pending_channel_state' = flush.edges /\ edges' = edges
    BY <2>1
  <2> DEFINE c == Critical \o g
             q == q_pending_channel_state
  <2>3. q' \in Seq(Nat) /\ EdgesMove(g, q, q', edges, edges)
    BY <2>2, FlushMovesEdges DEF EdgesNow
  <2>4. c \in Seq(Frame) /\ edges <= edges
    BY <1>1, ConcatElements
  <2>5. EdgesOrdered(c, q', host.edge, edges)
    BY <1>1, <2>3, <2>4, EdgesAppend DEF EdgesNow
  <2> HIDE DEF c
  <2>6. CASE c # <<>> /\ Critical' = Tail(c) /\ host' = HostReceives(c[1])
    <3>1. host'.edge = IF IsEdge(c[1]) THEN c[1].first ELSE host.edge
      BY <2>6 DEF HostReceives, IsEdge
    <3>2. EdgesOrdered(Tail(c), q', IF IsEdge(c[1]) THEN c[1].first ELSE host.edge, edges)
      BY <1>1, <2>4, <2>5, <2>6, EdgesTake
    <3>3. EdgesOrdered(Tail(c), q', host'.edge, edges)
      BY <3>1, <3>2, Zenon
    <3>4. QED
      BY <2>2, <2>6, <3>3 DEF EdgesNow
  <2>7. CASE q_data # <<>> /\ host' = HostReceives(q_data[1]) /\ Critical' = c
    <3>1. q_data[1].kind = "rx_batch"
      BY <1>1, <2>7, TailElements DEF Batches
    <3>2. host'.edge = host.edge
      BY <2>7, <3>1 DEF HostReceives
    <3>3. QED
      BY <2>2, <2>5, <2>7, <3>2 DEF EdgesNow
  <2>8. CASE Critical' = c /\ host' = host
    BY <2>2, <2>5, <2>8 DEF EdgesNow
  <2>9. QED
    BY <2>2, <2>6, <2>7, <2>8 DEF TakesHead, c
<1>13. CASE UNCHANGED vars
  BY <1>3, <1>13 DEF vars, Critical
<1>14. Next => EdgesNow'
  BY <1>6, <1>7, <1>8, <1>9, <1>10, <1>11, <1>12, Zenon
     DEF Next, NoteRxRingLoss, FinalizeTx, Reconfigure, NoteChannelState, ConfigChannel
<1>15. QED
  BY <1>13, <1>14

LEMMA InitEdges == Init => EdgesNow
<1> SUFFICES ASSUME Init PROVE EdgesNow
  OBVIOUS
<1>1. /\ Critical = <<>> /\ q_pending_channel_state = <<>>
      /\ host.edge = 0 /\ edges = 0
  <2>1. <<>> \in Seq(Frame)
    OBVIOUS
  <2>2. <<>> \o <<>> = <<>>
    BY <2>1, ConcatEmptySeq, Zenon
  <2>3. QED
    BY <2>2 DEF Init, Critical
<1>2. QED
  BY <1>1 DEF EdgesNow, EdgesOrdered

(* persist_channel_state: no edge overtakes an earlier one, neither in the  *)
(* rings nor on the way through the pending FIFO, however many wait.        *)
THEOREM EdgesInOrder == Spec => []EdgeOrder
<1> DEFINE IInv == TypeOK /\ Batches /\ EdgesNow
<1>1. Init => IInv
  BY InitTypes, InitPlaced, InitEdges
<1>2. IInv /\ [Next]_vars => IInv'
  BY NextStep, BatchesKept, EdgesStep DEF Preserved
<1>3. IInv => EdgeOrder
  BY DEF EdgesNow, EdgesOrdered, EdgeOrder, IsEdge
<1> HIDE DEF IInv
<1>4. QED
  BY <1>1, <1>2, <1>3, PTL DEF Spec
-----------------------------------------------------------------------------
(* The gaps.                                                                *)

(* The event sequences that a frame, and an accumulator, accounts for.      *)
Told(f)      == IF f.kind = "event_loss" THEN f.first..f.last ELSE {}
Covers(f)    == {f.seq} \cup Told(f)
RangeOf(acc) == IF acc.key \in EventKey THEN acc.first..acc.last ELSE {}

Holds(c, s)     == \E i \in 1..Len(c) : s \in Covers(c[i])
HoldsOnce(c, s) == \A i, j \in 1..Len(c) : s \in Covers(c[i]) /\ s \in Covers(c[j]) => i = j
Keeps(l, s)     == \E a \in Acc : s \in RangeOf(l[a])
KeepsOnce(l, s) == \A a, b \in Acc : s \in RangeOf(l[a]) /\ s \in RangeOf(l[b]) => a = b

ExactlyOne(p, q, r, t, v) ==
  /\ p \/ q \/ r \/ t \/ v
  /\ p => ~q /\ ~r /\ ~t /\ ~v
  /\ q => ~r /\ ~t /\ ~v
  /\ r => ~t /\ ~v
  /\ t => ~v

(* Sequence s is in one place: a frame of c or of d, an accumulator, the    *)
(* unrecorded ones u, or what the host knows.                               *)
Located(c, d, l, u, last, missing, s) ==
  /\ HoldsOnce(c, s) /\ HoldsOnce(d, s) /\ KeepsOnce(l, s)
  /\ ExactlyOne(Holds(c, s), Holds(d, s), Keeps(l, s), s \in u, s <= last /\ s \notin missing)

(* Nothing speaks of a sequence after hi, and no notice of its own.         *)
InBounds(c, hi) ==
  \A i \in 1..Len(c) : c[i].seq <= hi /\ (c[i].kind = "event_loss" => c[i].last < c[i].seq)

RangesInBounds(l, hi) ==
  \A a \in Acc : l[a].key \in EventKey => l[a].first <= l[a].last /\ l[a].last <= hi

Explained(c, d, l, u, last, missing, hi) ==
  /\ InBounds(c, hi) /\ InBounds(d, hi) /\ RangesInBounds(l, hi)
  /\ \A s \in u : s <= hi
  /\ last <= hi
  /\ \A s \in missing : s <= last
  /\ \A s \in 1..hi : Located(c, d, l, u, last, missing, s)

(* A queue with another behind it holds what both hold.                     *)
LEMMA HoldsConcat ==
  ASSUME NEW c \in Seq(Frame), NEW g \in Seq(Frame), NEW s
  PROVE  /\ Holds(c \o g, s) <=> Holds(c, s) \/ Holds(g, s)
         /\ HoldsOnce(c, s) /\ HoldsOnce(g, s) /\ ~(Holds(c, s) /\ Holds(g, s))
              => HoldsOnce(c \o g, s)
<1> DEFINE f == c \o g
<1>1. /\ \A i \in 1..Len(c) : i \in 1..Len(f) /\ f[i] = c[i]
      /\ \A k \in 1..Len(g) : Len(c) + k \in 1..Len(f) /\ f[Len(c) + k] = g[k]
      /\ \A i \in 1..Len(f) : i \in 1..Len(c) \/ \E k \in 1..Len(g) : i = Len(c) + k
  BY ConcatElements
<1> HIDE DEF f
<1>2. Holds(f, s) <=> Holds(c, s) \/ Holds(g, s)
  BY <1>1 DEF Holds
<1>3. ASSUME HoldsOnce(c, s), HoldsOnce(g, s), ~(Holds(c, s) /\ Holds(g, s)),
             NEW i \in 1..Len(f), NEW j \in 1..Len(f), s \in Covers(f[i]), s \in Covers(f[j])
      PROVE  i = j
  <2>1. CASE i \in 1..Len(c) /\ j \in 1..Len(c)
    BY <1>1, <1>3, <2>1 DEF HoldsOnce
  <2>2. ASSUME NEW k \in 1..Len(g), i = Len(c) + k, NEW m \in 1..Len(g), j = Len(c) + m
        PROVE  i = j
    BY <1>1, <1>3, <2>2 DEF HoldsOnce
  <2>3. ASSUME NEW m \in 1..Len(c), NEW k \in 1..Len(g),
               s \in Covers(f[m]), s \in Covers(f[Len(c) + k])
        PROVE  FALSE
    BY <1>1, <1>3, <2>3 DEF Holds
  <2>4. QED
    BY <1>1, <1>3, <2>1, <2>2, <2>3
<1>4. QED
  BY <1>2, <1>3 DEF HoldsOnce, f

(* The tail holds what the head does not.                                   *)
LEMMA HoldsTail ==
  ASSUME NEW c \in Seq(Frame), c # <<>>, NEW s, HoldsOnce(c, s)
  PROVE  /\ Holds(Tail(c), s) <=> Holds(c, s) /\ s \notin Covers(c[1])
         /\ s \in Covers(c[1]) => Holds(c, s)
         /\ HoldsOnce(Tail(c), s)
<1> DEFINE t == Tail(c)
<1>1. /\ 1 \in 1..Len(c)
      /\ \A i \in 1..Len(t) : i + 1 \in 1..Len(c) /\ i + 1 # 1 /\ t[i] = c[i + 1]
      /\ \A i \in 1..Len(c) : i # 1 => \E k \in 1..Len(t) : i = k + 1
      /\ \A i, j \in 1..Len(t) : i + 1 = j + 1 => i = j
  <2>1. Len(t) \in Nat
    BY TailElements, LenProperties
  <2>2. QED
    BY <2>1, TailElements
<1> HIDE DEF t
<1>2. Holds(t, s) => Holds(c, s) /\ s \notin Covers(c[1])
  BY <1>1 DEF Holds, HoldsOnce
<1>3. Holds(c, s) /\ s \notin Covers(c[1]) => Holds(t, s)
  <2> SUFFICES ASSUME NEW i \in 1..Len(c), s \in Covers(c[i]), s \notin Covers(c[1])
               PROVE  Holds(t, s)
    BY DEF Holds
  <2>1. i # 1
    OBVIOUS
  <2>2. PICK k \in 1..Len(t) : i = k + 1
    BY <1>1, <2>1
  <2>3. QED
    BY <1>1, <2>2 DEF Holds
<1>4. HoldsOnce(t, s)
  BY <1>1 DEF HoldsOnce
<1>5. s \in Covers(c[1]) => Holds(c, s)
  BY <1>1 DEF Holds
<1>6. QED
  BY <1>2, <1>3, <1>4, <1>5 DEF t

(* A queue within bounds does not hold a later sequence.                    *)
LEMMA BeyondBounds ==
  ASSUME NEW c \in Seq(Frame), NEW hi \in Nat, InBounds(c, hi), NEW s \in Nat, hi < s
  PROVE  ~Holds(c, s) /\ HoldsOnce(c, s)
<1>1. ASSUME NEW i \in 1..Len(c) PROVE s \notin Covers(c[i])
  <2>1. c[i].seq \in Nat /\ c[i].first \in Nat /\ c[i].last \in Nat
    <3>1. c[i] \in Frame
      BY ElementOfSeq
    <3>2. QED
      BY <3>1 DEF Frame
  <2>2. c[i].seq <= hi /\ (c[i].kind = "event_loss" => c[i].last < c[i].seq)
    BY DEF InBounds
  <2>3. s # c[i].seq
    BY <2>1, <2>2
  <2>4. c[i].kind = "event_loss" => s \notin c[i].first..c[i].last
    BY <2>1, <2>2
  <2>5. QED
    BY <2>3, <2>4 DEF Covers, Told
<1>2. QED
  BY <1>1 DEF Holds, HoldsOnce

(* Nor does an accumulator.                                                 *)
LEMMA BeyondRanges ==
  ASSUME NEW l \in [Acc -> LossAcc \cup {Free}], NEW hi \in Nat, RangesInBounds(l, hi),
         NEW s \in Nat, hi < s
  PROVE  ~Keeps(l, s) /\ KeepsOnce(l, s)
<1>1. ASSUME NEW a \in Acc, l[a].key \in EventKey
      PROVE  s \notin l[a].first..l[a].last
  <2>1. l[a] \in LossAcc
    BY <1>1 DEF EventKey, Free
  <2>2. l[a].first \in Nat /\ l[a].last \in Nat /\ l[a].last <= hi
    BY <1>1, <2>1 DEF LossAcc, RangesInBounds
  <2>3. QED
    BY <2>2
<1>2. QED
  BY <1>1 DEF Keeps, KeepsOnce, RangeOf

(* The two queues play the same part.                                       *)
LEMMA LocatedSymmetric ==
  ASSUME NEW c, NEW d, NEW l, NEW u, NEW last, NEW missing, NEW s,
         Located(c, d, l, u, last, missing, s)
  PROVE  Located(d, c, l, u, last, missing, s)
BY DEF Located, ExactlyOne

LEMMA ExplainedSymmetric ==
  ASSUME NEW c, NEW d, NEW l, NEW u, NEW last, NEW missing, NEW hi,
         Explained(c, d, l, u, last, missing, hi)
  PROVE  Explained(d, c, l, u, last, missing, hi)
BY LocatedSymmetric, Zenon DEF Explained

(* A new sequence that nothing records, yet.                                *)
LEMMA ExplainedDrop ==
  ASSUME NEW c \in Seq(Frame), NEW d \in Seq(Frame), NEW l \in [Acc -> LossAcc \cup {Free}],
         NEW u \in SUBSET Nat, NEW last \in Nat, NEW missing \in SUBSET Nat, NEW hi \in Nat,
         Explained(c, d, l, u, last, missing, hi)
  PROVE  Explained(c, d, l, u \cup {hi + 1}, last, missing, hi + 1) /\ hi + 1 \notin u
<1> DEFINE v == u \cup {hi + 1}
<1>1. /\ InBounds(c, hi) /\ InBounds(d, hi) /\ RangesInBounds(l, hi)
      /\ \A s \in u : s <= hi
      /\ last <= hi
      /\ \A s \in missing : s <= last
      /\ \A s \in 1..hi : Located(c, d, l, u, last, missing, s)
  BY DEF Explained
<1>2. hi + 1 \in Nat /\ hi < hi + 1
  OBVIOUS
<1>3. InBounds(c, hi + 1) /\ InBounds(d, hi + 1)
  <2>1. ASSUME NEW f \in Seq(Frame), InBounds(f, hi)
        PROVE  InBounds(f, hi + 1)
    <3>1. \A i \in 1..Len(f) : f[i].seq \in Nat
      <4>1. \A i \in 1..Len(f) : f[i] \in Frame
        BY ElementOfSeq
      <4>2. QED
        BY <4>1 DEF Frame
    <3>2. \A n \in Nat : n <= hi => n <= hi + 1
      OBVIOUS
    <3>3. QED
      BY <2>1, <3>1, <3>2 DEF InBounds
  <2>2. QED
    BY <1>1, <2>1
<1>4. RangesInBounds(l, hi + 1)
  <2> SUFFICES ASSUME NEW a \in Acc, l[a].key \in EventKey
               PROVE  l[a].first <= l[a].last /\ l[a].last <= hi + 1
    BY DEF RangesInBounds
  <2>1. l[a] \in LossAcc
    BY DEF EventKey, Free
  <2>2. l[a].last \in Nat /\ l[a].first <= l[a].last /\ l[a].last <= hi
    BY <1>1, <2>1 DEF LossAcc, RangesInBounds
  <2>3. QED
    BY <2>2
<1>5. \A s \in v : s <= hi + 1
  BY <1>1
<1>6. last <= hi + 1
  BY <1>1
<1>7. hi + 1 \notin u /\ ~(hi + 1 <= last)
  BY <1>1
<1>8. ASSUME NEW s \in 1..hi + 1
      PROVE  Located(c, d, l, v, last, missing, s)
  <2>1. CASE s = hi + 1
    <3>1. /\ ~Holds(c, s) /\ HoldsOnce(c, s)
          /\ ~Holds(d, s) /\ HoldsOnce(d, s)
          /\ ~Keeps(l, s) /\ KeepsOnce(l, s)
      BY <1>1, <1>2, <2>1, BeyondBounds, BeyondRanges
    <3>2. s \in v /\ ~(s <= last)
      BY <1>7, <2>1
    <3>3. QED
      BY <3>1, <3>2 DEF Located, ExactlyOne
  <2>2. CASE s # hi + 1
    <3>1. s \in 1..hi /\ (s \in v <=> s \in u)
      BY <2>2
    <3>2. QED
      BY <1>1, <3>1 DEF Located
  <2>3. QED
    BY <2>1, <2>2
<1> HIDE DEF v
<1>9. Explained(c, d, l, v, last, missing, hi + 1)
  BY <1>1, <1>3, <1>4, <1>5, <1>6, <1>8 DEF Explained
<1>10. QED
  BY <1>7, <1>9 DEF v

(* Accumulators that account for the same sequences, except for s, which    *)
(* one of them takes over from the unrecorded.                              *)
LEMMA ExplainedRecords ==
  ASSUME NEW c, NEW d, NEW l, NEW r, NEW u, NEW last, NEW missing, NEW hi, NEW a \in Acc, NEW new,
         new \notin u, Explained(c, d, l, u \cup {new}, last, missing, hi),
         RangesInBounds(r, hi),
         \A b \in Acc : b # a => RangeOf(r[b]) = RangeOf(l[b]),
         RangeOf(r[a]) = RangeOf(l[a]) \cup {new}
  PROVE  Explained(c, d, r, u, last, missing, hi)
<1>1. /\ InBounds(c, hi) /\ InBounds(d, hi)
      /\ \A s \in u : s <= hi
      /\ last <= hi
      /\ \A s \in missing : s <= last
      /\ \A s \in 1..hi : Located(c, d, l, u \cup {new}, last, missing, s)
  BY DEF Explained
<1>2. ASSUME NEW s \in 1..hi
      PROVE  Located(c, d, r, u, last, missing, s)
  <2>1. Located(c, d, l, u \cup {new}, last, missing, s)
    BY <1>1
  <2>2. CASE s = new
    <3>1. ~Keeps(l, s) /\ ~Holds(c, s) /\ ~Holds(d, s) /\ ~(s <= last /\ s \notin missing)
      BY <2>1, <2>2 DEF Located, ExactlyOne
    <3>2. \A b \in Acc : s \in RangeOf(r[b]) <=> b = a
      BY <2>2, <3>1 DEF Keeps
    <3>3. KeepsOnce(r, s) /\ Keeps(r, s)
      BY <3>2 DEF Keeps, KeepsOnce
    <3>4. QED
      BY <2>1, <2>2, <3>1, <3>3 DEF Located, ExactlyOne
  <2>3. CASE s # new
    <3>1. \A b \in Acc : s \in RangeOf(r[b]) <=> s \in RangeOf(l[b])
      BY <2>3
    <3>2. (KeepsOnce(r, s) <=> KeepsOnce(l, s)) /\ (Keeps(r, s) <=> Keeps(l, s))
      BY <3>1 DEF Keeps, KeepsOnce
    <3>3. s \in u \cup {new} <=> s \in u
      BY <2>3
    <3>4. QED
      BY <2>1, <3>2, <3>3 DEF Located, ExactlyOne
  <2>4. QED
    BY <2>2, <2>3
<1>3. QED
  BY <1>1, <1>2 DEF Explained

LEMMA ExplainedSame ==
  ASSUME NEW c, NEW d, NEW l, NEW r, NEW u, NEW last, NEW missing, NEW hi,
         Explained(c, d, l, u, last, missing, hi),
         RangesInBounds(r, hi), \A b \in Acc : RangeOf(r[b]) = RangeOf(l[b])
  PROVE  Explained(c, d, r, u, last, missing, hi)
<1>1. \A s : (KeepsOnce(r, s) <=> KeepsOnce(l, s)) /\ (Keeps(r, s) <=> Keeps(l, s))
  BY DEF Keeps, KeepsOnce
<1>2. \A s \in 1..hi : Located(c, d, r, u, last, missing, s)
  <2> SUFFICES ASSUME NEW s \in 1..hi PROVE Located(c, d, r, u, last, missing, s)
    OBVIOUS
  <2>1. Located(c, d, l, u, last, missing, s)
    BY DEF Explained
  <2>2. QED
    BY <1>1, <2>1 DEF Located, ExactlyOne
<1>3. QED
  BY <1>2 DEF Explained

(* Frames that go behind one queue: first the notices of some accumulators, *)
(* which are freed, then frames that are no notices, all of new sequences.  *)
LEMMA ExplainedSends ==
  ASSUME TypeOK, NEW c \in Seq(Frame), NEW d \in Seq(Frame), NEW g \in Seq(Frame),
         NEW u \in SUBSET Nat, NEW last \in Nat, NEW missing \in SUBSET Nat, NEW hi \in Nat,
         NEW order, NEW m \in Nat, m <= Len(g),
         \A k \in 1..m : order[k] \in Occupied,
         \A j, k \in 1..m : order[j] = order[k] => j = k,
         \A k \in 1..Len(g) : g[k].seq = hi + k,
         \A k \in 1..Len(g) : k <= m => /\ g[k].kind = LossNotice(loss[order[k]]).kind
                                        /\ g[k].first = LossNotice(loss[order[k]]).first
                                        /\ g[k].last = LossNotice(loss[order[k]]).last,
         \A k \in 1..Len(g) : k > m => g[k].kind # "event_loss",
         Explained(c, d, loss, u, last, missing, hi)
  PROVE  Explained(c \o g, d, Freed(order, m), u, last, missing, hi + Len(g))
<1> DEFINE n == Len(g)
           left == Freed(order, m)
<1>1. /\ InBounds(c, hi) /\ InBounds(d, hi) /\ RangesInBounds(loss, hi)
      /\ \A s \in u : s <= hi
      /\ last <= hi
      /\ \A s \in missing : s <= last
      /\ \A s \in 1..hi : Located(c, d, loss, u, last, missing, s)
  BY DEF Explained
<1>2. /\ n \in Nat /\ hi + n \in Nat /\ hi <= hi + n
      /\ \A k \in 1..n : k <= m \/ k > m
      /\ \A k \in 1..m : k \in 1..n
      /\ loss \in [Acc -> LossAcc \cup {Free}]
  BY LenProperties DEF TypeOK
<1>3. ASSUME NEW f \in Seq(Frame), InBounds(f, hi)
      PROVE  InBounds(f, hi + n)
  <2>1. \A i \in 1..Len(f) : f[i].seq \in Nat
    <3>1. \A i \in 1..Len(f) : f[i] \in Frame
      BY ElementOfSeq
    <3>2. QED
      BY <3>1 DEF Frame
  <2>2. \A x \in Nat : x <= hi => x <= hi + n
    BY <1>2
  <2>3. QED
    BY <1>3, <2>1, <2>2 DEF InBounds
<1>4. ASSUME NEW k \in 1..n
      PROVE  Told(g[k]) = IF k <= m THEN RangeOf(loss[order[k]]) ELSE {}
  BY <1>2 DEF Told, RangeOf, LossNotice
<1>5. ASSUME NEW a \in Acc, loss[a].key \in EventKey
      PROVE  /\ loss[a].first \in Nat /\ loss[a].last \in Nat
             /\ loss[a].first <= loss[a].last /\ loss[a].last <= hi
  <2>1. loss[a] \in LossAcc
    BY <1>2, <1>5 DEF EventKey, Free
  <2>2. QED
    BY <1>1, <1>5, <2>1 DEF LossAcc, RangesInBounds
<1>6. /\ \A a \in Acc : left[a] = IF \E k \in 1..m : order[k] = a THEN Free ELSE loss[a]
      /\ RangeOf(Free) = {} /\ Free.key \notin EventKey
  BY DEF Freed, RangeOf, Free, EventKey
<1>7. \A k \in 1..m : order[k] \in Acc
  BY DEF Occupied
<1> HIDE DEF left, n
<1>8. InBounds(c \o g, hi + n)
  <2>1. InBounds(c, hi + n)
    BY <1>1, <1>3
  <2>2. ASSUME NEW k \in 1..n
        PROVE  g[k].seq <= hi + n /\ (g[k].kind = "event_loss" => g[k].last < g[k].seq)
    <3>1. g[k].seq = hi + k /\ hi + k <= hi + n
      BY <1>2 DEF n
    <3>2. ASSUME g[k].kind = "event_loss"
          PROVE  g[k].last < hi + k
      <4>1. k \in 1..m
        BY <1>2, <3>2 DEF n
      <4>2. g[k].last = loss[order[k]].last /\ loss[order[k]].key \in EventKey
        BY <3>2, <4>1 DEF LossNotice, n
      <4>3. g[k].last \in Nat /\ g[k].last <= hi
        BY <1>5, <1>7, <4>1, <4>2
      <4>4. QED
        BY <4>3
    <3>3. QED
      BY <3>1, <3>2
  <2>3. /\ \A i \in 1..Len(c) : i \in 1..Len(c \o g) /\ (c \o g)[i] = c[i]
        /\ \A k \in 1..n : Len(c) + k \in 1..Len(c \o g) /\ (c \o g)[Len(c) + k] = g[k]
        /\ \A i \in 1..Len(c \o g) : i \in 1..Len(c) \/ \E k \in 1..n : i = Len(c) + k
    BY ConcatElements DEF n
  <2>4. ASSUME NEW i \in 1..Len(c \o g)
        PROVE  /\ (c \o g)[i].seq <= hi + n
               /\ (c \o g)[i].kind = "event_loss" => (c \o g)[i].last < (c \o g)[i].seq
    <3>1. CASE i \in 1..Len(c)
      BY <2>1, <2>3, <3>1 DEF InBounds
    <3>2. ASSUME NEW k \in 1..n, i = Len(c) + k
          PROVE  /\ (c \o g)[i].seq <= hi + n
                 /\ (c \o g)[i].kind = "event_loss" => (c \o g)[i].last < (c \o g)[i].seq
      <4>1. (c \o g)[i] = g[k]
        BY <2>3, <3>2
      <4>2. QED
        BY <2>2, <4>1
    <3>3. QED
      BY <2>3, <3>1, <3>2
  <2>5. QED
    BY <2>4 DEF InBounds
<1>9. RangesInBounds(left, hi + n)
  <2> SUFFICES ASSUME NEW a \in Acc, left[a].key \in EventKey
               PROVE  left[a].first <= left[a].last /\ left[a].last <= hi + n
    BY DEF RangesInBounds
  <2>1. left[a] = loss[a]
    BY <1>6
  <2>2. /\ loss[a].first \in Nat /\ loss[a].last \in Nat
        /\ loss[a].first <= loss[a].last /\ loss[a].last <= hi
    BY <1>5, <2>1
  <2>3. loss[a].last <= hi + n
    BY <1>2, <2>2
  <2>4. QED
    BY <2>1, <2>2, <2>3
<1>10. \A a \in Acc : RangeOf(left[a]) = IF \E k \in 1..m : order[k] = a
                                        THEN {} ELSE RangeOf(loss[a])
  BY <1>6
<1>11. (\A s \in u : s <= hi + n) /\ last <= hi + n
  <2>1. \A x \in Nat : x <= hi => x <= hi + n
    BY <1>2
  <2>2. QED
    BY <1>1, <2>1
<1>12. ASSUME NEW s \in 1..hi
       PROVE  Located(c \o g, d, left, u, last, missing, s)
  <2>1. Located(c, d, loss, u, last, missing, s)
    BY <1>1
  <2>2. \A k \in 1..n : s \in Covers(g[k]) <=> k \in 1..m /\ s \in RangeOf(loss[order[k]])
    <3>1. \A k \in 1..n : s # g[k].seq /\ (k <= m <=> k \in 1..m)
      BY <1>2 DEF n
    <3>2. QED
      BY <1>4, <3>1 DEF Covers
  <2>3. KeepsOnce(loss, s)
    BY <2>1 DEF Located
  <2>4. HoldsOnce(g, s)
    <3>1. ASSUME NEW i \in 1..n, NEW j \in 1..n, s \in Covers(g[i]), s \in Covers(g[j])
          PROVE  i = j
      <4>1. /\ i \in 1..m /\ s \in RangeOf(loss[order[i]])
            /\ j \in 1..m /\ s \in RangeOf(loss[order[j]])
        BY <2>2, <3>1
      <4>2. order[i] = order[j]
        BY <1>7, <2>3, <4>1 DEF KeepsOnce
      <4>3. QED
        BY <4>1, <4>2
    <3>2. QED
      BY <3>1 DEF HoldsOnce, n
  <2>5. Holds(g, s) => Keeps(loss, s) /\ ~Keeps(left, s)
    <3>1. ASSUME NEW k \in 1..n, s \in Covers(g[k])
          PROVE  Keeps(loss, s) /\ ~Keeps(left, s)
      <4>1. k \in 1..m /\ order[k] \in Acc /\ s \in RangeOf(loss[order[k]])
        BY <1>7, <2>2, <3>1
      <4>2. \A a \in Acc : s \in RangeOf(loss[a]) => a = order[k]
        BY <2>3, <4>1 DEF KeepsOnce
      <4>3. \A a \in Acc : s \notin RangeOf(left[a])
        BY <1>10, <4>1, <4>2
      <4>4. QED
        BY <4>1, <4>3 DEF Keeps
    <3>2. QED
      BY <3>1 DEF Holds, n
  <2>6. (Keeps(left, s) => Keeps(loss, s)) /\ KeepsOnce(left, s)
    <3>1. \A a \in Acc : s \in RangeOf(left[a]) => s \in RangeOf(loss[a])
      BY <1>10
    <3>2. QED
      BY <2>3, <3>1 DEF Keeps, KeepsOnce
  <2>7. Keeps(loss, s) => Keeps(left, s) \/ Holds(g, s)
    <3>1. ASSUME NEW a \in Acc, s \in RangeOf(loss[a])
          PROVE  Keeps(left, s) \/ Holds(g, s)
      <4>1. CASE \E k \in 1..m : order[k] = a
        BY <1>2, <2>2, <3>1, <4>1 DEF Holds, n
      <4>2. CASE ~\E k \in 1..m : order[k] = a
        BY <1>10, <3>1, <4>2 DEF Keeps
      <4>3. QED
        BY <4>1, <4>2
    <3>2. QED
      BY <3>1 DEF Keeps
  <2>8. /\ Holds(c \o g, s) <=> Holds(c, s) \/ Holds(g, s)
        /\ ~(Holds(c, s) /\ Holds(g, s)) => HoldsOnce(c \o g, s)
    BY <2>1, <2>4, HoldsConcat DEF Located
  <2>9. QED
    BY <2>1, <2>5, <2>6, <2>7, <2>8 DEF Located, ExactlyOne
<1>13. ASSUME NEW s \in hi + 1..hi + n
       PROVE  Located(c \o g, d, left, u, last, missing, s)
  <2>1. s \in Nat /\ hi < s /\ s - hi \in 1..n /\ hi + (s - hi) = s
    BY <1>2
  <2>2. /\ ~Holds(c, s) /\ HoldsOnce(c, s)
        /\ ~Holds(d, s) /\ HoldsOnce(d, s)
        /\ ~Keeps(loss, s) /\ KeepsOnce(loss, s)
    BY <1>1, <1>2, <2>1, BeyondBounds, BeyondRanges
  <2>3. s \notin u /\ ~(s <= last)
    BY <1>1, <2>1
  <2>4. ~Keeps(left, s) /\ KeepsOnce(left, s)
    <3>1. \A a \in Acc : s \notin RangeOf(left[a])
      BY <1>10, <2>2 DEF Keeps
    <3>2. QED
      BY <3>1 DEF Keeps, KeepsOnce
  <2>5. \A k \in 1..n : s \in Covers(g[k]) <=> k = s - hi
    <3>1. ASSUME NEW k \in 1..n
          PROVE  s \notin Told(g[k])
      <4>1. CASE k <= m
        <5>1. s \notin RangeOf(loss[order[k]])
          <6>1. k \in 1..m /\ order[k] \in Acc
            BY <1>7, <4>1
          <6>2. QED
            BY <2>2, <6>1 DEF Keeps
        <5>2. QED
          BY <1>4, <4>1, <5>1 DEF n
      <4>2. CASE ~(k <= m)
        BY <1>4, <4>2 DEF n
      <4>3. QED
        BY <4>1, <4>2
    <3>2. \A k \in 1..n : s = g[k].seq <=> k = s - hi
      <4> SUFFICES ASSUME NEW k \in 1..n PROVE s = g[k].seq <=> k = s - hi
        OBVIOUS
      <4>1. g[k].seq = hi + k
        BY DEF n
      <4>2. s = hi + k <=> k = s - hi
        BY <2>1
      <4>3. QED
        BY <4>1, <4>2
    <3>3. QED
      BY <3>1, <3>2 DEF Covers
  <2>6. HoldsOnce(g, s) /\ Holds(g, s)
    BY <2>1, <2>5 DEF Holds, HoldsOnce, n
  <2>7. Holds(c \o g, s) /\ HoldsOnce(c \o g, s)
    BY <2>2, <2>6, HoldsConcat
  <2>8. QED
    BY <2>2, <2>3, <2>4, <2>7 DEF Located, ExactlyOne
<1>14. \A s \in 1..hi + n : Located(c \o g, d, left, u, last, missing, s)
  <2>1. \A s \in 1..hi + n : s \in 1..hi \/ s \in hi + 1..hi + n
    BY <1>2
  <2>2. QED
    BY <1>12, <1>13, <2>1
<1>15. InBounds(d, hi + n)
  BY <1>1, <1>3
<1>16. Explained(c \o g, d, left, u, last, missing, hi + n)
  BY <1>1, <1>8, <1>9, <1>11, <1>14, <1>15 DEF Explained
<1>17. QED
  BY <1>16 DEF left, n

(* The host takes the head of a queue: it learns what the head accounts for *)
(* and sees the gap before it.                                              *)
LEMMA ExplainedTake ==
  ASSUME NEW c \in Seq(Frame), c # <<>>, NEW d, NEW l, NEW u,
         NEW last \in Nat, NEW missing \in SUBSET Nat, NEW hi \in Nat,
         Explained(c, d, l, u, last, missing, hi), last < c[1].seq
  PROVE  Explained(Tail(c), d, l, u, c[1].seq,
                   (missing \cup (last + 1 .. c[1].seq - 1)) \ Told(c[1]), hi)
<1> DEFINE t == Tail(c)
           now == (missing \cup (last + 1 .. c[1].seq - 1)) \ Told(c[1])
<1>1. /\ InBounds(c, hi) /\ InBounds(d, hi) /\ RangesInBounds(l, hi)
      /\ \A s \in u : s <= hi
      /\ last <= hi
      /\ \A s \in missing : s <= last
      /\ \A s \in 1..hi : Located(c, d, l, u, last, missing, s)
  BY DEF Explained
<1>2. /\ 1 \in 1..Len(c) /\ c[1] \in Frame
      /\ \A i \in 1..Len(t) : i + 1 \in 1..Len(c) /\ t[i] = c[i + 1]
  BY TailElements
<1>3. c[1].seq \in Nat /\ c[1].first \in Nat /\ c[1].last \in Nat
  BY <1>2 DEF Frame
<1>4. c[1].seq <= hi /\ (c[1].kind = "event_loss" => c[1].last < c[1].seq)
  BY <1>1, <1>2 DEF InBounds
<1>5. \A s \in Told(c[1]) : s \in Nat /\ s < c[1].seq
  BY <1>3, <1>4 DEF Told
<1> HIDE DEF t
<1>6. InBounds(t, hi)
  BY <1>1, <1>2 DEF InBounds
<1>7. \A s \in now : s <= c[1].seq
  <2>1. ASSUME NEW s \in missing PROVE s <= c[1].seq
    BY <1>1, <1>3
  <2>2. \A s \in last + 1 .. c[1].seq - 1 : s <= c[1].seq
    BY <1>3
  <2>3. QED
    BY <2>1, <2>2
<1>8. ASSUME NEW s \in 1..hi
      PROVE  Located(t, d, l, u, c[1].seq, now, s)
  <2>1. Located(c, d, l, u, last, missing, s)
    BY <1>1
  <2>2. /\ Holds(t, s) <=> Holds(c, s) /\ s \notin Covers(c[1])
        /\ s \in Covers(c[1]) => Holds(c, s)
        /\ HoldsOnce(t, s)
    BY <2>1, HoldsTail DEF Located, t
  <2>3. s \in now <=> (s \in missing \/ (last < s /\ s < c[1].seq)) /\ s \notin Told(c[1])
    BY <1>3
  <2>4. s \in missing => s <= last
    BY <1>1
  <2>5. s \in Covers(c[1]) <=> s = c[1].seq \/ s \in Told(c[1])
    BY DEF Covers
  <2> HIDE DEF now
  <2>6. s \in Covers(c[1]) => s <= c[1].seq /\ s \notin now
    BY <1>3, <1>5, <2>3, <2>4, <2>5
  <2>7. s \notin Covers(c[1]) =>
          ((s <= last /\ s \notin missing) <=> (s <= c[1].seq /\ s \notin now))
    BY <1>3, <2>3, <2>4, <2>5
  <2>8. QED
    BY <2>1, <2>2, <2>6, <2>7 DEF Located, ExactlyOne
<1> HIDE DEF now
<1>9. Explained(t, d, l, u, c[1].seq, now, hi)
  BY <1>1, <1>4, <1>6, <1>7, <1>8 DEF Explained
<1>10. QED
  BY <1>9 DEF t, now
-----------------------------------------------------------------------------
(* The gaps, step by step.                                                  *)

ExplainedNow ==
  Explained(Critical, q_data, loss, unrecorded, host.last, host.missing, device_event_sequence)

LEMMA ExplainedTypes ==
  ASSUME TypeOK
  PROVE  /\ Critical \in Seq(Frame) /\ q_data \in Seq(Frame)
         /\ loss \in [Acc -> LossAcc \cup {Free}]
         /\ unrecorded \in SUBSET Nat
         /\ host.last \in Nat /\ host.missing \in SUBSET Nat
         /\ device_event_sequence \in Nat
BY ConcatProperties DEF TypeOK, Critical, Host

(* Without a freed accumulator the loss array is as it was.                 *)
LEMMA FreedNone ==
  ASSUME TypeOK, NEW order
  PROVE  Freed(order, 0) = loss
<1>1. Freed(order, 0) = [a \in Acc |-> loss[a]]
  BY DEF Freed
<1>2. QED
  BY <1>1 DEF TypeOK

(* Frames that are no notices, behind the critical FIFO.                    *)
LEMMA ExplainedQuiet ==
  ASSUME TypeOK, ExplainedNow, NEW g \in Seq(Frame),
         Critical' = Critical \o g,
         device_event_sequence' = device_event_sequence + Len(g),
         \A k \in 1..Len(g) : g[k].seq = device_event_sequence + k,
         \A k \in 1..Len(g) : g[k].kind # "event_loss",
         UNCHANGED <<q_data, loss, unrecorded, host>>
  PROVE  ExplainedNow'
<1>1. 0 \in Nat /\ 0 <= Len(g) /\ 1..0 = {} /\ \A k \in 1..Len(g) : ~(k <= 0)
  BY LenProperties
<1>2. Explained(Critical \o g, q_data, Freed(<<>>, 0), unrecorded, host.last, host.missing,
                device_event_sequence + Len(g))
  BY <1>1, ExplainedTypes, ExplainedSends DEF ExplainedNow
<1>3. QED
  BY <1>2, FreedNone DEF ExplainedNow

(* A lost batch, event or channel sequence.                                 *)
LEMMA LossExplained ==
  ASSUME TypeOK, ExplainedNow, NEW key \in Key, NEW s \in Nat, NEW base \in Nat,
         AccumulateLoss(key, s, base), UNCHANGED <<q_data, host>>,
         \/ key \in EventKey /\ s = device_event_sequence + 1 /\ base = s
         \/ key \notin EventKey /\ base = device_event_sequence
  PROVE  ExplainedNow'
<1> DEFINE last == host.last
           missing == host.missing
<1>0. PICK S \in SUBSET Matching(key) :
        \E order \in Ascending(S), g \in Seq(Frame) : LossMoves(key, s, base, order, g)
  BY LossMoved
<1>1. PICK order \in Ascending(S), g \in Seq(Frame) : LossMoves(key, s, base, order, g)
  BY <1>0
<1> DEFINE left == Freed(order, Len(g))
           new  == [key |-> key, generation |-> config_generation, first |-> s, last |-> s]
<1>2. /\ Len(order) \in Nat
      /\ \A k \in 1..Len(order) : order[k] \in Occupied
      /\ \A j, k \in 1..Len(order) : order[j] = order[k] => j = k
  <2>1. NAcc \in Nat /\ S \in SUBSET (1..NAcc) /\ S \subseteq Occupied
    BY EgressAssumption DEF Matching, Occupied, Acc
  <2>2. QED
    BY <2>1, AscendingDistinct
<1>3. Len(g) \in Nat /\ Len(g) <= Len(order) /\ \A k \in 1..Len(g) : k \in 1..Len(order)
  BY <1>1, <1>2, LenProperties DEF LossMoves
<1>4. \A k \in 1..Len(g) : /\ g[k].kind = LossNotice(loss[order[k]]).kind
                          /\ g[k].first = LossNotice(loss[order[k]]).first
                          /\ g[k].last = LossNotice(loss[order[k]]).last
                          /\ g[k].seq = base + k
  <2>1. \A k \in 1..Len(order) : Notices(order)[k] = LossNotice(loss[order[k]])
    BY DEF Notices
  <2>2. QED
    BY <1>1, <1>3, <2>1 DEF LossMoves, Carries
<1>5. /\ Critical' = Critical \o g /\ device_event_sequence' = base + Len(g)
      /\ \/ /\ \E a \in Matching(key) :
                 /\ \A k \in 1..Len(order) : order[k] # a
                 /\ loss[a].last + 1 = s
                 /\ loss' = [left EXCEPT ![a] = [loss[a] EXCEPT !.last = s]]
            /\ unrecorded' = unrecorded
         \/ /\ \E a \in Acc : left[a] = Free /\ loss' = [left EXCEPT ![a] = new]
            /\ unrecorded' = unrecorded
         \/ /\ loss' = left
            /\ unrecorded' = IF key \in EventKey THEN unrecorded \cup {s} ELSE unrecorded
  BY <1>1 DEF LossMoves
<1>6. ASSUME NEW u \in SUBSET Nat, Explained(Critical, q_data, loss, u, last, missing, base)
      PROVE  Explained(Critical', q_data, left, u, last, missing, base + Len(g))
  <2>1. /\ \A k \in 1..Len(g) : order[k] \in Occupied
        /\ \A j, k \in 1..Len(g) : order[j] = order[k] => j = k
    BY <1>2, <1>3
  <2>2. Len(g) <= Len(g) /\ \A k \in 1..Len(g) : ~(k > Len(g))
    BY <1>3
  <2> HIDE DEF left
  <2>3. Explained(Critical \o g, q_data, Freed(order, Len(g)), u, last, missing, base + Len(g))
    BY <1>3, <1>4, <1>6, <2>1, <2>2, ExplainedTypes, ExplainedSends
  <2>4. QED
    BY <1>5, <2>3 DEF left
<1>7. left \in [Acc -> LossAcc \cup {Free}]
  BY FreedType
<1>8. \A a \in Acc : (\A k \in 1..Len(order) : order[k] # a) => left[a] = loss[a]
  BY <1>3 DEF Freed
<1>9. RangeOf(Free) = {} /\ Free.key \notin EventKey
  BY DEF RangeOf, Free, EventKey
<1>10. \A a \in Matching(key) : a \in Acc /\ loss[a] \in LossAcc /\ loss[a].key = key
  BY DEF Matching, Occupied, TypeOK
<1> DEFINE hi == base + Len(g)
<1>11. base <= hi /\ hi \in Nat
  BY <1>3
<1> HIDE DEF left, hi, last, missing
<1>12. CASE key \in EventKey /\ s = device_event_sequence + 1 /\ base = s
  <2>1. Explained(Critical, q_data, loss, unrecorded \cup {s}, last, missing, s) /\ s \notin unrecorded
    BY <1>12, ExplainedTypes, ExplainedDrop DEF ExplainedNow, last, missing
  <2>2. unrecorded \cup {s} \in SUBSET Nat
    BY ExplainedTypes
  <2>3. Explained(Critical', q_data, left, unrecorded \cup {s}, last, missing, hi)
    BY <1>6, <1>12, <2>1, <2>2 DEF hi
  <2>4. RangesInBounds(left, hi) /\ RangesInBounds(loss, s)
    BY <2>1, <2>3 DEF Explained
  <2>5. ASSUME NEW a \in Matching(key), \A k \in 1..Len(order) : order[k] # a,
               loss[a].last + 1 = s,
               loss' = [left EXCEPT ![a] = [loss[a] EXCEPT !.last = s]],
               unrecorded' = unrecorded
        PROVE  Explained(Critical', q_data, loss', unrecorded', last, missing, hi)
    <3> DEFINE acc == [loss[a] EXCEPT !.last = s]
    <3>1. a \in Acc /\ left[a] = loss[a]
      BY <1>8, <1>10, <2>5
    <3>2. /\ loss[a].first \in Nat /\ loss[a].last \in Nat /\ loss[a].key = key
          /\ acc.key = key /\ acc.first = loss[a].first /\ acc.last = s
      BY <1>10 DEF LossAcc
    <3>3. loss[a].first <= loss[a].last
      BY <1>12, <2>4, <3>1, <3>2 DEF RangesInBounds
    <3>4. loss[a].first..s = (loss[a].first..loss[a].last) \cup {s}
      BY <2>5, <3>2, <3>3
    <3> HIDE DEF acc
    <3>5. RangeOf(acc) = RangeOf(left[a]) \cup {s}
      BY <1>12, <3>1, <3>2, <3>4 DEF RangeOf
    <3>6. /\ loss'[a] = acc /\ \A b \in Acc : b # a => loss'[b] = left[b]
      BY <1>7, <2>5, <3>1 DEF acc
    <3>7. acc.first <= acc.last /\ acc.last <= hi
      BY <1>11, <1>12, <2>5, <3>2, <3>3
    <3>8. RangesInBounds(loss', hi)
      BY <2>4, <3>6, <3>7 DEF RangesInBounds
    <3>9. /\ \A b \in Acc : b # a => RangeOf(loss'[b]) = RangeOf(left[b])
          /\ RangeOf(loss'[a]) = RangeOf(left[a]) \cup {s}
      BY <3>5, <3>6
    <3>10. Explained(Critical', q_data, loss', unrecorded, last, missing, hi)
      BY <2>1, <2>3, <3>1, <3>8, <3>9, ExplainedRecords
    <3>11. QED
      BY <2>5, <3>10, Zenon
  <2>6. ASSUME NEW a \in Acc, left[a] = Free, loss' = [left EXCEPT ![a] = new],
               unrecorded' = unrecorded
        PROVE  Explained(Critical', q_data, loss', unrecorded', last, missing, hi)
    <3>1. new.key = key /\ new.first = s /\ new.last = s /\ s..s = {s}
      OBVIOUS
    <3> HIDE DEF new
    <3>2. RangeOf(new) = RangeOf(left[a]) \cup {s}
      BY <1>9, <1>12, <2>6, <3>1 DEF RangeOf
    <3>3. loss'[a] = new /\ \A b \in Acc : b # a => loss'[b] = left[b]
      BY <1>7, <2>6
    <3>4. new.first <= new.last /\ new.last <= hi
      BY <1>11, <1>12, <3>1
    <3>5. RangesInBounds(loss', hi)
      BY <2>4, <3>3, <3>4 DEF RangesInBounds
    <3>6. QED
      BY <2>1, <2>3, <2>6, <3>2, <3>3, <3>5, ExplainedRecords
  <2>7. ASSUME loss' = left, unrecorded' = unrecorded \cup {s}
        PROVE  Explained(Critical', q_data, loss', unrecorded', last, missing, hi)
    BY <2>3, <2>7, Zenon
  <2>8. Explained(Critical', q_data, loss', unrecorded', last, missing, hi)
    <3>1. CASE unrecorded' = unrecorded /\ \E a \in Matching(key) :
                 /\ \A k \in 1..Len(order) : order[k] # a
                 /\ loss[a].last + 1 = s
                 /\ loss' = [left EXCEPT ![a] = [loss[a] EXCEPT !.last = s]]
      BY <2>5, <3>1, Zenon
    <3>2. CASE unrecorded' = unrecorded /\ \E a \in Acc :
                 left[a] = Free /\ loss' = [left EXCEPT ![a] = new]
      BY <2>6, <3>2, Zenon
    <3>3. CASE loss' = left /\ unrecorded' = unrecorded \cup {s}
      BY <2>7, <3>3, Zenon
    <3>4. (IF key \in EventKey THEN unrecorded \cup {s} ELSE unrecorded)
            = unrecorded \cup {s}
      BY <1>12
    <3>5. QED
      BY <1>5, <3>1, <3>2, <3>3, <3>4
  <2>9. QED
    BY <1>5, <2>8 DEF ExplainedNow, hi, last, missing
<1>13. CASE key \notin EventKey /\ base = device_event_sequence
  <2>1. Explained(Critical', q_data, left, unrecorded, last, missing, hi)
    BY <1>6, <1>13, ExplainedTypes DEF ExplainedNow, hi, last, missing
  <2>2. RangesInBounds(left, hi)
    BY <2>1 DEF Explained
  <2>3. ASSUME NEW a \in Acc, NEW acc, left[a].key \notin EventKey, acc.key \notin EventKey,
               loss' = [left EXCEPT ![a] = acc]
        PROVE  Explained(Critical', q_data, loss', unrecorded, last, missing, hi)
    <3>1. loss'[a] = acc /\ \A b \in Acc : b # a => loss'[b] = left[b]
      BY <1>7, <2>3
    <3>2. RangesInBounds(loss', hi)
      BY <2>2, <2>3, <3>1 DEF RangesInBounds
    <3>3. \A b \in Acc : RangeOf(loss'[b]) = RangeOf(left[b])
      BY <2>3, <3>1 DEF RangeOf
    <3>4. QED
      BY <2>1, <3>2, <3>3, ExplainedSame
  <2>4. ASSUME NEW a \in Matching(key), \A k \in 1..Len(order) : order[k] # a,
               loss' = [left EXCEPT ![a] = [loss[a] EXCEPT !.last = s]]
        PROVE  Explained(Critical', q_data, loss', unrecorded, last, missing, hi)
    <3>1. a \in Acc /\ left[a].key = key /\ [loss[a] EXCEPT !.last = s].key = key
      BY <1>8, <1>10, <2>4 DEF LossAcc
    <3>2. QED
      BY <1>13, <2>3, <2>4, <3>1
  <2>5. ASSUME NEW a \in Acc, left[a] = Free, loss' = [left EXCEPT ![a] = new]
        PROVE  Explained(Critical', q_data, loss', unrecorded, last, missing, hi)
    <3>1. new.key = key /\ left[a].key \notin EventKey
      BY <1>9, <2>5
    <3> HIDE DEF new
    <3>2. QED
      BY <1>13, <2>3, <2>5, <3>1, Zenon
  <2>6. Explained(Critical', q_data, loss', unrecorded, last, missing, hi)
    BY <1>5, <2>1, <2>4, <2>5
  <2>7. unrecorded' = unrecorded
    BY <1>5, <1>13
  <2>8. QED
    BY <1>5, <2>6, <2>7 DEF ExplainedNow, hi, last, missing
<1>14. QED
  BY <1>12, <1>13

(* ucan_session_dequeue: the flush turns accumulators into notices, and the *)
(* host learns of the gap before the frame, and of what the frame tells.    *)
LEMMA DequeueExplained ==
  ASSUME TypeOK, EventOrder, Batches, ExplainedNow, NEW fits \in BOOLEAN, Dequeue(fits)
  PROVE  ExplainedNow'
<1>1. PICK accs \in Ascending(Occupied), slots \in Ascending(Owing), g \in Seq(Frame) :
        \E flush :
          /\ FlushMoves(flush, accs, slots, g) /\ TakesHead(g)
          /\ device_event_sequence' = flush.seq
          /\ loss' = flush.loss /\ unrecorded' = unrecorded
  BY DequeueMoves
<1>2. PICK flush :
        /\ FlushMoves(flush, accs, slots, g) /\ TakesHead(g)
        /\ device_event_sequence' = flush.seq
        /\ loss' = flush.loss /\ unrecorded' = unrecorded
  BY <1>1
<1> DEFINE A  == Len(accs)
           m  == Lesser(A, Len(g))
           c  == Critical \o g
           hi == device_event_sequence + Len(g)
<1>3. /\ A \in Nat
      /\ \A k \in 1..A : accs[k] \in Occupied
      /\ \A j, k \in 1..A : accs[j] = accs[k] => j = k
  <2>1. NAcc \in Nat /\ Occupied \in SUBSET (1..NAcc)
    BY EgressAssumption DEF Occupied, Acc
  <2>2. QED
    BY <2>1, AscendingDistinct
<1>4. /\ Len(slots) \in Nat /\ Len(q_pending_channel_state) \in Nat /\ Len(g) \in Nat
  <2>1. NSlots \in Nat /\ Owing \in SUBSET (1..NSlots)
    BY EgressAssumption DEF Owing, Slots
  <2>2. QED
    BY <2>1, AscendingSeq, LenProperties DEF TypeOK
<1>5. /\ m \in Nat /\ m <= Len(g)
      /\ \A k \in 1..m : k \in 1..A
      /\ \A k \in 1..Len(g) : k <= m => k <= A
      /\ \A k \in 1..Len(g) : k > m => A < k
  <2> HIDE DEF A
  <2>1. QED
    BY <1>3, <1>4 DEF Lesser
<1>6. \A k \in 1..Len(g) : A < k => g[k].kind # "event_loss"
  <2> DEFINE S == Len(slots)
             Q == Len(q_pending_channel_state)
  <2>1. \A k \in 1..Len(g) : A < k => \/ A < k /\ k <= A + S
                                      \/ A + S < k /\ k <= A + S + Q
                                      \/ A + S + Q < k
    <3> HIDE DEF A, S, Q
    <3>1. A \in Nat /\ S \in Nat /\ Q \in Nat
      BY <1>3, <1>4 DEF S, Q
    <3>2. QED
      BY <3>1
  <2>2. /\ \A k \in 1..Len(g) : A < k /\ k <= A + S => g[k].kind = "tx_result"
        /\ \A k \in 1..Len(g) : A + S < k /\ k <= A + S + Q => g[k].kind = "channel_state"
        /\ \A k \in 1..Len(g) : A + S + Q < k => g[k].kind = "flow_control"
    BY <1>2, Zenon DEF FlushMoves
  <2> HIDE DEF A, S, Q
  <2>3. QED
    BY <2>1, <2>2
<1>7. /\ \A k \in 1..Len(g) : k <= m => /\ g[k].kind = LossNotice(loss[accs[k]]).kind
                                        /\ g[k].first = LossNotice(loss[accs[k]]).first
                                        /\ g[k].last = LossNotice(loss[accs[k]]).last
      /\ \A k \in 1..Len(g) : k > m => g[k].kind # "event_loss"
      /\ \A k \in 1..Len(g) : g[k].seq = device_event_sequence + k
      /\ loss' = Freed(accs, m) /\ device_event_sequence' = hi
  <2>1. /\ \A k \in 1..Len(g) : k <= A => /\ g[k].kind = LossNotice(loss[accs[k]]).kind
                                          /\ g[k].first = LossNotice(loss[accs[k]]).first
                                          /\ g[k].last = LossNotice(loss[accs[k]]).last
        /\ \A k \in 1..Len(g) : g[k].seq = device_event_sequence + k
        /\ loss' = Freed(accs, m) /\ device_event_sequence' = hi
    BY <1>2 DEF FlushMoves
  <2> HIDE DEF A, m, hi
  <2>2. QED
    BY <1>5, <1>6, <2>1
<1>8. /\ \A k \in 1..m : accs[k] \in Occupied
      /\ \A j, k \in 1..m : accs[j] = accs[k] => j = k
  BY <1>3, <1>5
<1>9. /\ c \in Seq(Frame) /\ hi \in Nat /\ q_data \in Seq(Frame)
      /\ host.last \in Nat /\ host.missing \in SUBSET Nat
  BY <1>4, ExplainedTypes, ConcatElements
<1> HIDE DEF m, A
<1>10. Explained(c, q_data, loss', unrecorded', host.last, host.missing, hi)
  <2>1. Explained(c, q_data, Freed(accs, m), unrecorded, host.last, host.missing, hi)
    BY <1>5, <1>7, <1>8, ExplainedTypes, ExplainedSends DEF ExplainedNow
  <2>2. QED
    BY <1>2, <1>7, <2>1
<1>11. Ordered(c, q_data, host.last, hi)
  <2>1. Ordered(Critical, q_data, host.last, device_event_sequence)
    BY DEF EventOrder, Ordered
  <2>2. device_event_sequence <= device_event_sequence
    BY ExplainedTypes
  <2>3. QED
    BY <1>7, <2>1, <2>2, ExplainedTypes, OrderedAppends
<1>12. /\ c # <<>> => host.last < c[1].seq
       /\ q_data # <<>> => host.last < q_data[1].seq
  <2>1. /\ c # <<>> => 1 \in 1..Len(c)
        /\ q_data # <<>> => 1 \in 1..Len(q_data)
    BY <1>9, TailElements
  <2>2. QED
    BY <1>11, <2>1 DEF Ordered, Within
<1>13. device_event_sequence' = hi
  BY <1>7
<1>14. ASSUME NEW f, host' = HostReceives(f)
       PROVE  /\ host'.last = f.seq
              /\ host'.missing = (host.missing \cup (host.last + 1 .. f.seq - 1)) \ Told(f)
  BY <1>14 DEF HostReceives, Told
<1> HIDE DEF c, hi
<1>15. CASE c # <<>> /\ Critical' = Tail(c) /\ host' = HostReceives(c[1]) /\ q_data' = q_data
  <2>1. Explained(Tail(c), q_data, loss', unrecorded', c[1].seq,
                  (host.missing \cup (host.last + 1 .. c[1].seq - 1)) \ Told(c[1]), hi)
    BY <1>9, <1>10, <1>12, <1>15, ExplainedTake
  <2>2. /\ host'.last = c[1].seq
        /\ host'.missing = (host.missing \cup (host.last + 1 .. c[1].seq - 1)) \ Told(c[1])
    BY <1>14, <1>15
  <2>3. Explained(Critical', q_data', loss', unrecorded', host'.last, host'.missing,
                  device_event_sequence')
    BY <1>13, <1>15, <2>1, <2>2
  <2>4. QED
    BY <2>3, Zenon DEF ExplainedNow
<1>16. CASE q_data # <<>> /\ q_data' = Tail(q_data) /\ host' = HostReceives(q_data[1])
            /\ Critical' = c
  <2>1. Explained(q_data, c, loss', unrecorded', host.last, host.missing, hi)
    BY <1>10, ExplainedSymmetric
  <2>2. Explained(Tail(q_data), c, loss', unrecorded', q_data[1].seq,
                  (host.missing \cup (host.last + 1 .. q_data[1].seq - 1)) \ Told(q_data[1]), hi)
    BY <1>9, <1>12, <1>16, <2>1, ExplainedTake
  <2>3. /\ host'.last = q_data[1].seq
        /\ host'.missing = (host.missing \cup (host.last + 1 .. q_data[1].seq - 1))
                             \ Told(q_data[1])
    BY <1>14, <1>16
  <2>4. Explained(q_data', Critical', loss', unrecorded', host'.last, host'.missing,
                  device_event_sequence')
    BY <1>13, <1>16, <2>2, <2>3
  <2>5. Explained(Critical', q_data', loss', unrecorded', host'.last, host'.missing,
                  device_event_sequence')
    BY <2>4, ExplainedSymmetric
  <2>6. QED
    BY <2>5, Zenon DEF ExplainedNow
<1>17. CASE Critical' = c /\ q_data' = q_data /\ host' = host
  <2>1. Explained(Critical', q_data', loss', unrecorded', host'.last, host'.missing,
                  device_event_sequence')
    BY <1>10, <1>13, <1>17
  <2>2. QED
    BY <2>1, Zenon DEF ExplainedNow
<1>18. QED
  BY <1>2, <1>15, <1>16, <1>17 DEF TakesHead, c

(* An accepted batch.                                                       *)
LEMMA BatchExplained ==
  ASSUME TypeOK, ExplainedNow,
         q_data' = Append(q_data, [kind |-> "rx_batch", seq |-> device_event_sequence + 1,
                                   first |-> 0, last |-> 0]),
         device_event_sequence' = device_event_sequence + 1,
         UNCHANGED <<Critical, loss, unrecorded, host>>
  PROVE  ExplainedNow'
<1> DEFINE batch == [kind |-> "rx_batch", seq |-> device_event_sequence + 1,
                     first |-> 0, last |-> 0]
           g == <<batch>>
<1>1. batch \in Frame /\ batch.kind # "event_loss" /\ batch.seq = device_event_sequence + 1
  BY ExplainedTypes DEF Frame, Kind
<1> HIDE DEF batch
<1>2. /\ g \in Seq(Frame) /\ Len(g) = 1 /\ g[1] = batch
      /\ q_data \o g = Append(q_data, batch)
  BY <1>1, ExplainedTypes, AppendIsConcat
<1> HIDE DEF g
<1>3. /\ 0 \in Nat /\ 0 <= Len(g) /\ 1..0 = {}
      /\ \A k \in 1..Len(g) : ~(k <= 0)
      /\ \A k \in 1..Len(g) : k = 1
  BY <1>2
<1>4. /\ \A k \in 1..Len(g) : g[k].seq = device_event_sequence + k
      /\ \A k \in 1..Len(g) : g[k].kind # "event_loss"
  BY <1>1, <1>2, <1>3
<1>5. Explained(q_data, Critical, loss, unrecorded, host.last, host.missing,
                device_event_sequence)
  BY ExplainedSymmetric DEF ExplainedNow
<1>6. Explained(q_data \o g, Critical, Freed(<<>>, 0), unrecorded, host.last, host.missing,
                device_event_sequence + Len(g))
  <2>1. /\ q_data \in Seq(Frame) /\ Critical \in Seq(Frame) /\ unrecorded \in SUBSET Nat
        /\ host.last \in Nat /\ host.missing \in SUBSET Nat /\ device_event_sequence \in Nat
    BY ExplainedTypes
  <2>2. QED
    BY <1>2, <1>3, <1>4, <1>5, <2>1, ExplainedSends
<1>7. q_data' = q_data \o g
  BY <1>2 DEF batch
<1>8. Explained(q_data', Critical', loss', unrecorded', host'.last, host'.missing,
                device_event_sequence')
  BY <1>2, <1>6, <1>7, FreedNone
<1>9. Explained(Critical', q_data', loss', unrecorded', host'.last, host'.missing,
                device_event_sequence')
  BY <1>8, ExplainedSymmetric
<1>10. QED
  BY <1>9, Zenon DEF ExplainedNow

(* Every step keeps each sequence in one place.                             *)
LEMMA ExplainedStep ==
  ASSUME TypeOK, EventOrder, Batches, ExplainedNow, [Next]_vars
  PROVE  ExplainedNow'
<1>1. CASE UNCHANGED <<Critical, q_data, loss, unrecorded, host, device_event_sequence>>
  BY <1>1 DEF ExplainedNow
<1>2. /\ device_event_sequence \in Nat /\ device_event_sequence + 1 \in Nat
      /\ next_channel_sequence + 1 \in Nat
      /\ {"usb_data_overflow", "usb_data_admission", "usb_event_overflow", "can_ring"} \subseteq Key
      /\ {"usb_data_overflow", "usb_data_admission", "usb_event_overflow"} \subseteq EventKey
      /\ "can_ring" \notin EventKey
  BY DEF TypeOK, Key, EventKey
<1>3. ASSUME NEW key \in EventKey,
             AccumulateLoss(key, device_event_sequence + 1, device_event_sequence + 1),
             UNCHANGED <<q_data, host>>
      PROVE  ExplainedNow'
  <2>1. key \in Key
    BY DEF Key
  <2>2. QED
    BY <1>2, <1>3, <2>1, LossExplained
<1>4. ASSUME NEW fits \in BOOLEAN, EmitRxBatch(fits)
      PROVE  ExplainedNow'
  <2> DEFINE s == device_event_sequence + 1
  <2>1. \/ /\ q_data' = Append(q_data, [kind |-> "rx_batch", seq |-> s, first |-> 0, last |-> 0])
           /\ device_event_sequence' = s
           /\ UNCHANGED <<q_critical, q_critical_pending, loss, unrecorded>>
        \/ /\ \/ AccumulateLoss("usb_data_overflow", s, s)
              \/ AccumulateLoss("usb_data_admission", s, s)
           /\ q_data' = q_data
    BY <1>4, Zenon DEF EmitRxBatch
  <2>2. host' = host
    BY <1>4 DEF EmitRxBatch
  <2>3. CASE /\ q_data' = Append(q_data, [kind |-> "rx_batch", seq |-> s, first |-> 0, last |-> 0])
             /\ device_event_sequence' = s
             /\ UNCHANGED <<q_critical, q_critical_pending, loss, unrecorded>>
    BY <2>2, <2>3, BatchExplained DEF Critical
  <2>4. CASE /\ \/ AccumulateLoss("usb_data_overflow", s, s)
                \/ AccumulateLoss("usb_data_admission", s, s)
             /\ q_data' = q_data
    BY <1>2, <1>3, <2>2, <2>4
  <2>5. QED
    BY <2>1, <2>3, <2>4
<1>5. CASE NoteEventQueueLoss
  BY <1>2, <1>3, <1>5 DEF NoteEventQueueLoss
<1>6. ASSUME NEW room \in BOOLEAN, OnRx(room)
      PROVE  ExplainedNow'
  <2>1. \/ UNCHANGED <<q_critical, q_critical_pending, device_event_sequence, loss, unrecorded>>
        \/ AccumulateLoss("can_ring", next_channel_sequence + 1, device_event_sequence)
    BY <1>6, Zenon DEF OnRx
  <2>2. UNCHANGED <<q_data, host>>
    BY <1>6 DEF OnRx
  <2>3. CASE UNCHANGED <<q_critical, q_critical_pending, device_event_sequence, loss, unrecorded>>
    BY <1>1, <2>2, <2>3 DEF Critical
  <2>4. CASE AccumulateLoss("can_ring", next_channel_sequence + 1, device_event_sequence)
    BY <1>2, <2>2, <2>4, LossExplained
  <2>5. QED
    BY <2>1, <2>3, <2>4
<1>7. ASSUME NEW slots \in SUBSET Quiet, FinalizeSlots(slots)
      PROVE  ExplainedNow'
  <2>1. slots \in SUBSET Slots
    BY DEF Quiet
  <2>2. PICK order \in Ascending(slots), g \in Seq(Frame) :
          /\ Critical' = Critical \o g
          /\ device_event_sequence' = device_event_sequence + Len(g)
          /\ \A k \in 1..Len(g) : IsResult(g[k]) /\ g[k].seq = device_event_sequence + k
    BY <1>7, <2>1, Finalized
  <2>3. \A k \in 1..Len(g) : g[k].kind # "event_loss"
    BY <2>2 DEF IsResult
  <2>4. UNCHANGED <<q_data, loss, unrecorded, host>>
    BY <1>7 DEF FinalizeSlots
  <2>5. QED
    BY <2>2, <2>3, <2>4, ExplainedQuiet
<1>8. ASSUME NEW slots \in SUBSET Quiet, PersistChannelState(slots)
      PROVE  ExplainedNow'
  <2>1. slots \in SUBSET Slots
    BY DEF Quiet
  <2>2. PICK order \in Ascending(slots), g \in Seq(Frame) : PersistMoves(order, g)
    BY <1>8, <2>1, Persisted
  <2>3. \A k \in 1..Len(g) : g[k].kind # "event_loss"
    <3>1. Len(order) \in Nat
      BY <2>1, ResultsFrames
    <3>2. \A k \in 1..Len(g) : k <= Len(order) \/ k > Len(order)
      BY <3>1
    <3>3. QED
      BY <2>2, <3>2 DEF PersistMoves, IsResult
  <2>4. UNCHANGED <<q_data, loss, unrecorded, host>>
    BY <1>8 DEF PersistChannelState
  <2>5. QED
    BY <2>2, <2>3, <2>4, ExplainedQuiet DEF PersistMoves
<1>9. CASE PollFlowControl
  <2>1. <<FlowControl>> \in Seq(Frame) /\ Len(<<FlowControl>>) = 1
        /\ <<FlowControl>>[1].kind = "flow_control"
    BY FlowControlFrame DEF FlowControl
  <2>2. PICK g \in Seq(Frame) :
          /\ Critical' = Critical \o g
          /\ device_event_sequence' = device_event_sequence + Len(g)
          /\ Carries(g, <<FlowControl>>, device_event_sequence)
    BY <1>2, <1>9, <2>1, EmitCarries DEF PollFlowControl
  <2>3. \A k \in 1..Len(g) : g[k].kind # "event_loss"
    <3>1. Len(g) \in Nat /\ Len(g) <= 1
      BY <2>1, <2>2, LenProperties DEF Carries
    <3>2. \A k \in 1..Len(g) : k = 1
      BY <3>1
    <3>3. QED
      BY <2>1, <2>2, <3>2 DEF Carries
  <2>4. \A k \in 1..Len(g) : g[k].seq = device_event_sequence + k
    BY <2>2 DEF Carries
  <2>5. UNCHANGED <<q_data, loss, unrecorded, host>>
    BY <1>9 DEF PollFlowControl
  <2>6. QED
    BY <2>2, <2>3, <2>4, <2>5, ExplainedQuiet
<1>10. ASSUME NEW fits \in BOOLEAN, Dequeue(fits)
       PROVE  ExplainedNow'
  BY <1>10, DequeueExplained
<1>11. CASE UNCHANGED vars
  BY <1>1, <1>11 DEF vars, Critical
<1>12. Next => ExplainedNow'
  BY <1>4, <1>5, <1>6, <1>7, <1>8, <1>9, <1>10, Zenon
     DEF Next, NoteRxRingLoss, FinalizeTx, Reconfigure, NoteChannelState, ConfigChannel
<1>13. QED
  BY <1>11, <1>12

LEMMA InitExplained == Init => ExplainedNow
<1> SUFFICES ASSUME Init PROVE ExplainedNow
  OBVIOUS
<1>1. /\ Critical = <<>> /\ q_data = <<>> /\ device_event_sequence = 0
      /\ unrecorded = {} /\ host.last = 0 /\ host.missing = {}
  <2>1. <<>> \in Seq(Frame)
    OBVIOUS
  <2>2. <<>> \o <<>> = <<>>
    BY <2>1, ConcatEmptySeq, Zenon
  <2>3. QED
    BY <2>2 DEF Init, Critical
<1>2. \A a \in Acc : loss[a].key \notin EventKey
  BY DEF Init, Free, EventKey
<1>3. 1..0 = {} /\ 0 <= 0
  OBVIOUS
<1>4. QED
  BY <1>1, <1>2, <1>3 DEF ExplainedNow, Explained, InBounds, RangesInBounds

(* In one place, counted.                                                   *)
LEMMA ExplainedOnce ==
  ASSUME TypeOK, Batches, ExplainedNow
  PROVE  EveryGapExplained
<1> SUFFICES ASSUME NEW s \in 1..device_event_sequence
             PROVE
      Cardinality({<<"critical", i>> : i \in {i \in 1..Len(Critical) : Critical[i].seq = s}}
                    \cup {<<"data", i>> : i \in {i \in 1..Len(q_data) : q_data[i].seq = s}})
        + Cardinality({i \in 1..Len(Critical) : /\ Critical[i].kind = "event_loss"
                                                /\ s \in Critical[i].first..Critical[i].last})
        + Cardinality({a \in Occupied : /\ loss[a].key \in EventKey
                                        /\ s \in loss[a].first..loss[a].last})
        + Cardinality({s} \cap unrecorded)
        = IF s > host.last \/ s \in host.missing THEN 1 ELSE 0
  BY DEF EveryGapExplained
<1> DEFINE own     == {i \in 1..Len(Critical) : Critical[i].seq = s}
           batch   == {i \in 1..Len(q_data) : q_data[i].seq = s}
           queued  == {<<"critical", i>> : i \in own} \cup {<<"data", i>> : i \in batch}
           notices == {i \in 1..Len(Critical) : /\ Critical[i].kind = "event_loss"
                                                /\ s \in Critical[i].first..Critical[i].last}
           ranges  == {a \in Occupied : /\ loss[a].key \in EventKey
                                        /\ s \in loss[a].first..loss[a].last}
           shed    == {s} \cap unrecorded
<1>1. /\ Located(Critical, q_data, loss, unrecorded, host.last, host.missing, s)
      /\ InBounds(Critical, device_event_sequence)
  BY DEF ExplainedNow, Explained
<1>2. \A i \in 1..Len(Critical) : s \in Covers(Critical[i]) <=> i \in own \/ i \in notices
  BY DEF Covers, Told
<1>3. \A i \in 1..Len(q_data) : s \in Covers(q_data[i]) <=> i \in batch
  BY DEF Covers, Told, Batches
<1>4. \A a \in Acc : s \in RangeOf(loss[a]) <=> a \in ranges
  <2>1. Free.key \notin EventKey
    BY DEF Free, EventKey
  <2>2. QED
    BY <2>1 DEF RangeOf, Occupied
<1>5. ranges \subseteq Acc
  BY DEF Occupied
<1>6. \A i \in own : i \notin notices
  <2> SUFFICES ASSUME NEW i \in 1..Len(Critical), Critical[i].seq = s,
                      Critical[i].kind = "event_loss",
                      s \in Critical[i].first..Critical[i].last
               PROVE  FALSE
    OBVIOUS
  <2>1. Critical[i] \in Frame
    BY ExplainedTypes, ElementOfSeq
  <2>2. Critical[i].first \in Nat /\ Critical[i].last \in Nat
    BY <2>1 DEF Frame
  <2>3. Critical[i].last < s
    BY <1>1 DEF InBounds
  <2>4. QED
    BY <2>2, <2>3
<1>7. (s > host.last \/ s \in host.missing) <=> ~(s <= host.last /\ s \notin host.missing)
  BY ExplainedTypes
<1>8. own \subseteq 1..Len(Critical) /\ notices \subseteq 1..Len(Critical)
      /\ batch \subseteq 1..Len(q_data)
  OBVIOUS
<1> HIDE DEF own, batch, notices, ranges
<1>9. /\ Holds(Critical, s) <=> own # {} \/ notices # {}
      /\ Holds(q_data, s) <=> batch # {}
      /\ Keeps(loss, s) <=> ranges # {}
      /\ s \in unrecorded <=> shed # {}
  <2>1. Holds(Critical, s) <=> own # {} \/ notices # {}
    BY <1>2, <1>8 DEF Holds
  <2>2. Holds(q_data, s) <=> batch # {}
    BY <1>3, <1>8 DEF Holds
  <2>3. Keeps(loss, s) <=> ranges # {}
    BY <1>4, <1>5 DEF Keeps
  <2>4. s \in unrecorded <=> shed # {}
    OBVIOUS
  <2>5. QED
    BY <2>1, <2>2, <2>3, <2>4
<1>10. /\ \A i, j \in own \cup notices : i = j
       /\ \A i, j \in batch : i = j
       /\ \A a, b \in ranges : a = b
       /\ \A x, y \in shed : x = y
  <2>1. \A i, j \in own \cup notices : i = j
    BY <1>1, <1>2, <1>8 DEF Located, HoldsOnce
  <2>2. \A i, j \in batch : i = j
    BY <1>1, <1>3, <1>8 DEF Located, HoldsOnce
  <2>3. \A a, b \in ranges : a = b
    BY <1>1, <1>4, <1>5 DEF Located, KeepsOnce
  <2>4. QED
    BY <2>1, <2>2, <2>3
<1>11. own # {} => notices = {}
  BY <1>6, <1>10
<1>12. queued = {} <=> own = {} /\ batch = {}
  OBVIOUS
<1>13. own = {} \/ batch = {}
  BY <1>1, <1>9 DEF Located, ExactlyOne
<1>14. \A x, y \in queued : x = y
  BY <1>10, <1>13
<1> HIDE DEF queued, shed
<1>15. /\ Cardinality(queued) = IF queued = {} THEN 0 ELSE 1
       /\ Cardinality(notices) = IF notices = {} THEN 0 ELSE 1
       /\ Cardinality(ranges) = IF ranges = {} THEN 0 ELSE 1
       /\ Cardinality(shed) = IF shed = {} THEN 0 ELSE 1
  BY <1>10, <1>14, AtMostOne
<1>16. ExactlyOne(own # {} \/ notices # {}, batch # {}, ranges # {}, shed # {},
                  ~(s > host.last \/ s \in host.missing))
  BY <1>1, <1>7, <1>9, Zenon DEF Located, ExactlyOne
<1>17. Cardinality(queued) + Cardinality(notices) + Cardinality(ranges) + Cardinality(shed)
         = IF s > host.last \/ s \in host.missing THEN 1 ELSE 0
  BY <1>11, <1>12, <1>15, <1>16 DEF ExactlyOne
<1>18. QED
  BY <1>17 DEF queued, own, batch, notices, ranges, shed

(* accumulate_loss, flush_loss_notice and the queues: an event sequence that*)
(* the host will not receive as a frame is told exactly once, by one notice,*)
(* for any number of accumulators and of losses; the one that finds every   *)
(* accumulator taken is the only one told by none.                          *)
THEOREM GapsExplained == Spec => []EveryGapExplained
<1> DEFINE IInv == TypeOK /\ EventOrder /\ Batches /\ ExplainedNow
<1>1. Init => IInv
  BY InitTypes, InitOrder, InitPlaced, InitExplained
<1>2. IInv /\ [Next]_vars => IInv'
  BY NextStep, BatchesKept, ExplainedStep DEF Preserved
<1>3. IInv => EveryGapExplained
  BY ExplainedOnce
<1> HIDE DEF IInv
<1>4. QED
  BY <1>1, <1>2, <1>3, PTL DEF Spec
=============================================================================
