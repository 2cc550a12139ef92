---------------------------- MODULE UcanTxProofs ----------------------------
(***************************************************************************)
(* Proofs about UcanTx for every number of slots, every guard, deadline    *)
(* and rate: its types, that frames wait for the bus only while armed,     *)
(* that each accepted frame is answered once and for good, and that        *)
(* admission keeps to the rates.  Then about UcanControl, the gate that a  *)
(* request passes before: for every cache size, retention and set of       *)
(* requests its types, and that the replay cache with its BUSY gate lets   *)
(* no sequence execute twice within the retention.                         *)
(***************************************************************************)
EXTENDS UcanTx, UcanControl, FiniteSetTheorems, SequenceTheorems, WellFoundedInduction, TLAPS

(* A frame in the ledger whose result the host has not got.                 *)
Waits(slot) == slot.state = "PENDING" \/ slot.delivery_pending

(* An arm has a deadline, the session does not outlive it, and renewals     *)
(* only raise its epoch.                                                    *)
Armed == tx_armed => tick < arm_expiry_tick /\ armed_from <= arm_epoch

(* The frames of the ledger have numbers of their own, a frame waits as long*)
(* as its number is not announced, and none that left is unannounced.       *)
Numbered ==
  /\ announced \subseteq 1..accepted
  /\ \A i \in Occupied :
       /\ tx_ledger[i].number \in 1..accepted
       /\ Waits(tx_ledger[i]) <=> tx_ledger[i].number \notin announced
       /\ tx_ledger[i].state = "PENDING" => ~tx_ledger[i].delivery_pending
  /\ \A i, j \in Occupied : i # j => tx_ledger[i].number # tx_ledger[j].number
  /\ \A n \in 1..accepted : n \in announced \/ \E i \in Occupied : tx_ledger[i].number = n

(* What the fill rate has earned between two ticks.                         *)
Earned(b, from, to) == (Fill[b] * (to - from)) \div TickHz

(* A bucket never holds tokens for more frames than the rate leaves over    *)
(* since any acceptance of this arm.                                        *)
Budget ==
  \A b \in Bucket :
    /\ last_tick[b] <= tick
    /\ \A k \in 1..Len(accept_ticks) :
         /\ accept_ticks[k] <= last_tick[b]
         /\ Len(accept_ticks) - k + 1 + tokens[b]
              <= Capacity[b] + Earned(b, accept_ticks[k], last_tick[b])

(* The inductive invariant.                                                 *)
IInv ==
  /\ TypeOK /\ Armed /\ PendingAuthorised
  /\ Numbered /\ LedgerKeyUnique
  /\ Budget /\ RateBound
-----------------------------------------------------------------------------
(* Numbers.                                                                 *)

(* A set of naturals has a least element.                                   *)
LEMMA LeastExists ==
  ASSUME NEW S \in SUBSET Nat, S # {}
  PROVE  \E i \in S : \A j \in S : i <= j
<1>1. PICK i \in S : \A j \in S : ~(<<j, i>> \in OpToRel(<, Nat))
  BY NatLessThanWellFounded, WFMin
<1>2. \A j \in S : ~(j < i)
  BY <1>1 DEF OpToRel
<1>3. QED
  BY <1>2

(* The loops of the code that take the first match find one if there is one.*)
LEMMA LeastSlot ==
  ASSUME NEW S \in SUBSET Slots, S # {}
  PROVE  Least(S) \in S
<1>1. S \subseteq Nat
  BY TxAssumption DEF Slots
<1>2. \E i \in S : \A j \in S : i <= j
  BY <1>1, LeastExists
<1>3. QED
  BY <1>2 DEF Least

(* Integer division rounds down.                                            *)
LEMMA DivBounds ==
  ASSUME NEW a \in Nat, NEW d \in Nat \ {0}
  PROVE  a \div d \in Nat /\ d * (a \div d) <= a /\ a < d * (a \div d) + d
OBVIOUS

LEMMA DivLargest ==
  ASSUME NEW q \in Nat, NEW r \in Nat, NEW d \in Nat \ {0}, NEW c \in Nat,
         d * q <= c, c < d * r + d
  PROVE  q <= r
<1>1. SUFFICES ASSUME q >= r + 1 PROVE FALSE
  OBVIOUS
<1>2. d * q >= d * (r + 1)
  BY <1>1
<1>3. QED
  BY <1>2

(* What two intervals earn apart, they earn together.                       *)
LEMMA DivAdd ==
  ASSUME NEW x \in Nat, NEW y \in Nat, NEW d \in Nat \ {0}
  PROVE  (x \div d) + (y \div d) <= (x + y) \div d
<1>1. PICK q \in Nat : q = x \div d /\ d * q <= x
  BY DivBounds
<1>2. PICK r \in Nat : r = y \div d /\ d * r <= y
  BY DivBounds
<1>3. PICK s \in Nat : s = (x + y) \div d /\ x + y < d * s + d
  BY DivBounds, x + y \in Nat
<1>4. d * (q + r) <= x + y
  BY <1>1, <1>2
<1>5. QED
  BY <1>1, <1>2, <1>3, <1>4, DivLargest, q + r \in Nat, x + y \in Nat

(* Earning is additive, up to rounding, and at least the capacity a second. *)
LEMMA EarnedAdds ==
  ASSUME NEW b \in Bucket, NEW from \in Nat, NEW via \in Nat, NEW to \in Nat,
         from <= via, via <= to
  PROVE  /\ Earned(b, from, via) \in Nat /\ Earned(b, via, to) \in Nat
         /\ Earned(b, from, via) + Earned(b, via, to) <= Earned(b, from, to)
         /\ to - via >= TickHz => Earned(b, via, to) >= Capacity[b]
<1>1. PICK f \in Nat : f = Fill[b]
  BY TxAssumption
<1>2. PICK d \in Nat \ {0} : d = TickHz
  BY TxAssumption
<1>3. f >= Capacity[b] /\ Capacity[b] \in Nat
  BY <1>1, TxAssumption
<1>4. PICK x \in Nat : x = f * (via - from)
  OBVIOUS
<1>5. PICK y \in Nat : y = f * (to - via)
  OBVIOUS
<1>6. f * (to - from) = x + y
  BY <1>4, <1>5
<1>7. x \div d \in Nat /\ y \div d \in Nat /\ (x \div d) + (y \div d) <= (x + y) \div d
  BY DivBounds, DivAdd
<1>8. ASSUME to - via >= d PROVE y \div d >= f
  <2>1. y >= f * d
    BY <1>5, <1>8
  <2>2. d * f <= y /\ y < d * (y \div d) + d
    BY <2>1, DivBounds
  <2>3. QED
    BY <2>2, <1>7, DivLargest
<1>9. QED
  BY <1>1, <1>2, <1>3, <1>4, <1>5, <1>6, <1>7, <1>8 DEF Earned

(* refill_rule_tokens and refill_agg_tokens keep the bucket within its      *)
(* capacity and add no more than the rate has earned.                       *)
LEMMA RefillBounds ==
  ASSUME TypeOK, NEW b \in Bucket, last_tick[b] <= tick
  PROVE  /\ Refilled(b) \in 0..Capacity[b]
         /\ Refilled(b) <= tokens[b] + Earned(b, last_tick[b], tick)
<1>1. /\ tick \in Nat /\ last_tick[b] \in Nat /\ tokens[b] \in Nat /\ tokens[b] <= Capacity[b]
      /\ Capacity[b] \in Nat /\ TickHz \in Nat
  BY TxAssumption DEF TypeOK
<1>2. PICK e \in Nat : e = Earned(b, last_tick[b], tick)
  <2>1. last_tick[b] <= last_tick[b]
    BY <1>1
  <2>2. QED
    BY <1>1, <2>1, EarnedAdds
<1>3. tick - last_tick[b] >= TickHz => e >= Capacity[b]
  <2>1. last_tick[b] <= last_tick[b]
    BY <1>1
  <2>2. QED
    BY <1>1, <1>2, <2>1, EarnedAdds
<1>4. Refilled(b) = IF tick - last_tick[b] >= TickHz THEN Capacity[b]
                    ELSE Lesser(Capacity[b], tokens[b] + e)
  BY <1>2 DEF Refilled, Earned
<1>5. QED
  BY <1>1, <1>2, <1>3, <1>4 DEF Lesser
-----------------------------------------------------------------------------
(* The ledger.                                                              *)

(* A slot is free or holds a frame.                                         *)
LEMMA SlotKinds ==
  ASSUME TypeOK
  PROVE  /\ \A i \in Occupied : i \in Slots /\ tx_ledger[i] \in Slot
         /\ \A i \in Slots \ Occupied : tx_ledger[i] = Free
         /\ \A slot \in Slot : slot # Free
         /\ Pending \subseteq Occupied /\ Owing \subseteq Occupied /\ Occupied \subseteq Slots
BY DEF TypeOK, Occupied, Pending, Owing, Slot, Free

(* What may become of the frame in slot i when the ledger becomes `ledger'  *)
(* and the announced numbers `told': it leaves once it is announced, or     *)
(* stays the same frame and waits as long as it is not.                     *)
Leaves(i, ledger, told) == ledger[i] = Free /\ tx_ledger[i].number \in told
Stays(i, ledger, told) ==
  /\ ledger[i] \in Slot
  /\ ledger[i].tag = tx_ledger[i].tag /\ ledger[i].epoch = tx_ledger[i].epoch
  /\ ledger[i].number = tx_ledger[i].number
  /\ Waits(ledger[i]) <=> tx_ledger[i].number \notin told
  /\ ledger[i].state = "PENDING" =>
       tx_ledger[i].state = "PENDING" /\ ~ledger[i].delivery_pending

Evolution(ledger, told) ==
  /\ ledger \in [Slots -> Slot \cup {Free}]
  /\ announced \subseteq told
  /\ \A n \in told \ announced : \E i \in Occupied : tx_ledger[i].number = n
  /\ \A i \in Slots \ Occupied : ledger[i] = Free
  /\ \A i \in Occupied : Leaves(i, ledger, told) \/ Stays(i, ledger, told)

(* A ledger that evolves keeps its numbers and its keys.                    *)
LEMMA EvolutionKeeps ==
  ASSUME TypeOK, Numbered, LedgerKeyUnique, accepted' = accepted,
         Evolution(tx_ledger', announced')
  PROVE  /\ Numbered' /\ LedgerKeyUnique'
         /\ tx_ledger' \in [Slots -> Slot \cup {Free}]
         /\ announced' \in SUBSET (1..MaxAccept)
         /\ Pending' \subseteq Pending
         /\ \A i \in Pending' : tx_ledger'[i].epoch = tx_ledger[i].epoch
<1>1. \A i \in Occupied' : i \in Occupied /\ Stays(i, tx_ledger', announced')
  BY DEF Evolution, Leaves, Occupied, Slots
<1>2. announced' \subseteq 1..accepted
  <2>1. \A i \in Occupied : tx_ledger[i].number \in 1..accepted
    BY DEF Numbered
  <2>2. \A n \in announced' \ announced : \E i \in Occupied : tx_ledger[i].number = n
    BY DEF Evolution
  <2>3. announced \subseteq 1..accepted
    BY DEF Numbered
  <2>4. QED
    BY <2>1, <2>2, <2>3
<1>3. \A i \in Occupied :
        i \in Occupied' \/ tx_ledger[i].number \in announced'
  <2> SUFFICES ASSUME NEW i \in Occupied, ~Leaves(i, tx_ledger', announced')
               PROVE  i \in Occupied'
    BY DEF Leaves
  <2>1. tx_ledger'[i] \in Slot
    BY DEF Evolution, Stays
  <2>2. QED
    BY <2>1, SlotKinds DEF Occupied, Slots
<1>4. \A n \in 1..accepted : n \in announced' \/ \E i \in Occupied' : tx_ledger'[i].number = n
  <2> SUFFICES ASSUME NEW n \in 1..accepted, n \notin announced'
               PROVE  \E i \in Occupied' : tx_ledger'[i].number = n
    OBVIOUS
  <2>1. PICK i \in Occupied : tx_ledger[i].number = n
    BY DEF Numbered, Evolution
  <2>2. QED
    BY <1>1, <1>3, <2>1 DEF Stays
<1>5. Numbered'
  BY <1>1, <1>2, <1>4 DEF Numbered, Stays
<1>6. LedgerKeyUnique'
  BY <1>1 DEF LedgerKeyUnique, Stays
<1>7. announced' \in SUBSET (1..MaxAccept)
  BY <1>2, TxAssumption DEF TypeOK
<1>8. \A i \in Pending' : i \in Pending /\ tx_ledger'[i].epoch = tx_ledger[i].epoch
  BY <1>1 DEF Pending, Stays
<1>9. QED
  BY <1>5, <1>6, <1>7, <1>8 DEF Evolution

(* A frame whose result is final keeps it, and leaves only when the guard   *)
(* has run and the result is queued.                                        *)
Stable(i, ledger, now) ==
  tx_ledger[i] # Free /\ tx_ledger[i].state = "FINAL" =>
    \/ /\ ledger[i] # Free
       /\ [ledger[i] EXCEPT !.delivery_pending = FALSE]
            = [tx_ledger[i] EXCEPT !.delivery_pending = FALSE]
    \/ /\ ledger[i] = Free
       /\ ~tx_ledger[i].delivery_pending
       /\ now - tx_ledger[i].completed >= Guard

AllStable(ledger, now) == \A i \in Slots : Stable(i, ledger, now)

(* A frame that changes in its submission only.                             *)
SlotSubmitted(i) == [tx_ledger[i] EXCEPT !.submitted = TRUE]

(* A frame that gets its result, which it may owe to the host.              *)
FinalSlot(slot, result, now, owes) ==
  [slot EXCEPT !.state = "FINAL", !.result = result, !.completed = now,
               !.delivery_pending = owes]

IsFinal(new, slot, now, owes) ==
  /\ new \in Slot
  /\ new.tag = slot.tag /\ new.epoch = slot.epoch /\ new.number = slot.number
  /\ new.state = "FINAL" /\ new.completed = now
  /\ new.delivery_pending <=> owes
  /\ Waits(new) <=> owes

LEMMA FinalSlotFields ==
  ASSUME NEW slot \in Slot, NEW result \in Result, NEW now \in Nat, NEW owes \in BOOLEAN
  PROVE  IsFinal(FinalSlot(slot, result, now, owes), slot, now, owes)
BY DEF Slot, Waits, FinalSlot, IsFinal

(* The numbers of the frames in `slots'.                                    *)
NumbersOf(slots) == {tx_ledger[i].number : i \in slots}

(* If every frame changes as one of these, the ledger evolves: nothing, its *)
(* submission, its result, the delivery of its result.                      *)
LEMMA Evolves ==
  ASSUME TypeOK, Numbered, LedgerKeyUnique,
         NEW ledger \in [Slots -> Slot \cup {Free}],
         NEW done \in SUBSET Occupied,
         \A i \in Slots \ Occupied : ledger[i] = Free,
         \A i \in Occupied \ done : Stays(i, ledger, announced) \/ Leaves(i, ledger, announced),
         \A i \in done : \/ ledger[i] = Free
                        \/ /\ ledger[i] \in Slot
                           /\ ledger[i].tag = tx_ledger[i].tag
                           /\ ledger[i].epoch = tx_ledger[i].epoch
                           /\ ledger[i].number = tx_ledger[i].number
                           /\ ledger[i].state = "FINAL" /\ ~ledger[i].delivery_pending
  PROVE  Evolution(ledger, announced \cup NumbersOf(done))
<1> DEFINE told == announced \cup NumbersOf(done)
<1>1. announced \subseteq told
  OBVIOUS
<1>2. \A n \in told \ announced : \E i \in Occupied : tx_ledger[i].number = n
  BY DEF NumbersOf
<1>3. \A i \in Occupied \ done : tx_ledger[i].number \in told <=> tx_ledger[i].number \in announced
  BY DEF NumbersOf, Numbered
<1>4. \A i \in done : tx_ledger[i].number \in told
  BY DEF NumbersOf
<1> HIDE DEF told
<1>5. ASSUME NEW i \in Occupied \ done
      PROVE  Leaves(i, ledger, told) \/ Stays(i, ledger, told)
  BY <1>3, <1>5 DEF Leaves, Stays
<1>6. ASSUME NEW i \in done
      PROVE  Leaves(i, ledger, told) \/ Stays(i, ledger, told)
  BY <1>4, <1>6 DEF Leaves, Stays, Waits
<1>7. Evolution(ledger, told)
  BY <1>1, <1>2, <1>5, <1>6 DEF Evolution
<1>8. QED
  BY <1>7 DEF told

(* A frame that keeps its record stays.                                     *)
LEMMA UnchangedStays ==
  ASSUME TypeOK, Numbered, NEW ledger, NEW i \in Occupied, ledger[i] = tx_ledger[i]
  PROVE  Stays(i, ledger, announced)
BY SlotKinds DEF Stays, Numbered

(* The ledger after the frames in `done' got their result.                  *)
LEMMA FinalisedLedger ==
  ASSUME TypeOK, NEW done \in SUBSET Pending, NEW result \in Result,
         NEW now \in Nat, NEW last \in Int,
         NEW ledger, ledger = Finalised(done, result, now, last)
  PROVE  /\ ledger \in [Slots -> Slot \cup {Free}]
         /\ \A i \in Slots \ done : ledger[i] = tx_ledger[i]
         /\ \A i \in done : IsFinal(ledger[i], tx_ledger[i], now, i > last)
<1> DEFINE final(i) == FinalSlot(tx_ledger[i], result, now, i > last)
<1>1. /\ tx_ledger \in [Slots -> Slot \cup {Free}]
      /\ done \subseteq Slots /\ \A i \in done : tx_ledger[i] \in Slot
  BY SlotKinds DEF TypeOK
<1>2. ledger = [i \in Slots |-> IF i \in done THEN final(i) ELSE tx_ledger[i]]
  BY DEF Finalised, FinalSlot
<1>3. \A i \in done : IsFinal(final(i), tx_ledger[i], now, i > last)
  <2> SUFFICES ASSUME NEW i \in done PROVE IsFinal(final(i), tx_ledger[i], now, i > last)
    OBVIOUS
  <2>1. tx_ledger[i] \in Slot /\ (i > last) \in BOOLEAN
    BY <1>1
  <2>2. QED
    BY <2>1, FinalSlotFields, Zenon
<1> HIDE DEF final
<1>4. \A i \in done : ledger[i] = final(i)
  BY <1>1, <1>2
<1>5. \A i \in Slots \ done : ledger[i] = tx_ledger[i]
  BY <1>2
<1>6. \A i \in done : final(i) \in Slot
  BY <1>3 DEF IsFinal
<1>7. ledger \in [Slots -> Slot \cup {Free}]
  BY <1>1, <1>2, <1>6
<1>8. QED
  BY <1>3, <1>4, <1>5, <1>7

(* Finalising frames that wait lets the ledger evolve.                      *)
LEMMA FinaliseEvolves ==
  ASSUME TypeOK, Numbered, LedgerKeyUnique, NEW done \in SUBSET Pending,
         NEW result \in Result, NEW last \in Int, Finalise(done, result, last)
  PROVE  /\ Evolution(tx_ledger', announced')
         /\ AllStable(tx_ledger', tick)
         /\ Pending' = Pending \ done
<1> DEFINE told == {j \in done : j <= last}
<1>1. tick \in Nat
  BY TxAssumption DEF TypeOK
<1>2. PICK ledger : ledger = Finalised(done, result, tick, last)
  OBVIOUS
<1>3. tx_ledger' = ledger /\ announced' = announced \cup NumbersOf(told)
  BY <1>2 DEF Finalise, NumbersOf
<1>4. /\ ledger \in [Slots -> Slot \cup {Free}]
      /\ \A i \in Slots \ done : ledger[i] = tx_ledger[i]
      /\ \A i \in done : IsFinal(ledger[i], tx_ledger[i], tick, i > last)
  BY <1>1, <1>2, FinalisedLedger
<1>5. /\ done \subseteq Occupied /\ Occupied \subseteq Slots /\ Slots \subseteq Int
      /\ told \subseteq done
  BY SlotKinds DEF Slots
<1>6. \A i \in Slots \ Occupied : ledger[i] = Free
  BY <1>4, <1>5, SlotKinds
<1>7. ASSUME NEW i \in Occupied \ told PROVE Stays(i, ledger, announced)
  <2>1. CASE i \in done
    <3>1. i > last
      BY <1>5, <1>7, <2>1
    <3>2. tx_ledger[i].number \notin announced
      BY <1>5, <2>1 DEF Numbered, Pending, Waits
    <3>3. QED
      BY <1>4, <2>1, <3>1, <3>2 DEF Stays, IsFinal
  <2>2. CASE i \notin done
    BY <1>4, <1>5, <2>2, UnchangedStays
  <2>3. QED
    BY <2>1, <2>2
<1>8. \A i \in told : /\ ledger[i] \in Slot
                      /\ ledger[i].tag = tx_ledger[i].tag
                      /\ ledger[i].epoch = tx_ledger[i].epoch
                      /\ ledger[i].number = tx_ledger[i].number
                      /\ ledger[i].state = "FINAL" /\ ~ledger[i].delivery_pending
  <2>1. \A i \in told : i \in done /\ ~(i > last)
    BY <1>5
  <2>2. QED
    BY <1>4, <2>1 DEF IsFinal
<1>9. told \in SUBSET Occupied
  BY <1>5
<1> HIDE DEF told
<1>10. Evolution(ledger, announced \cup NumbersOf(told))
  BY <1>4, <1>6, <1>7, <1>8, <1>9, Evolves
<1>11. AllStable(ledger, tick)
  BY <1>4 DEF AllStable, Stable, Pending
<1>12. Pending' = Pending \ done
  <2>1. \A i \in Slots : i \in Pending' <=> i \in Pending /\ i \notin done
    <3>1. \A i \in Slots \ done : i \in Pending' <=> i \in Pending
      BY <1>3, <1>4 DEF Pending, Occupied, Slots
    <3>2. \A i \in done : i \notin Pending'
      BY <1>3, <1>4 DEF Pending, IsFinal
    <3>3. QED
      BY <3>1, <3>2
  <2>2. Pending' \subseteq Slots /\ Pending \subseteq Slots
    BY DEF Pending, Occupied, Slots
  <2>3. QED
    BY <2>1, <2>2
<1>13. QED
  BY <1>3, <1>10, <1>11, <1>12

(* A frame that is handed to the owner changes in nothing else.             *)
Submitted(slot) == [slot EXCEPT !.submitted = TRUE]

IsSubmitted(new, slot) ==
  /\ new \in Slot
  /\ new.tag = slot.tag /\ new.epoch = slot.epoch /\ new.number = slot.number
  /\ new.state = slot.state /\ (new.delivery_pending <=> slot.delivery_pending)

LEMMA SubmittedFields ==
  ASSUME NEW slot \in Slot
  PROVE  IsSubmitted(Submitted(slot), slot)
BY DEF Slot, Submitted, IsSubmitted

(* The ledger as it is, but that frames that wait were submitted.           *)
Near(ledger) ==
  /\ ledger \in [Slots -> Slot \cup {Free}]
  /\ \A i \in Slots : \/ ledger[i] = tx_ledger[i]
                      \/ i \in Pending /\ IsSubmitted(ledger[i], tx_ledger[i])

LEMMA NearStays ==
  ASSUME TypeOK, Numbered, NEW ledger, Near(ledger)
  PROVE  /\ \A i \in Slots \ Occupied : ledger[i] = Free
         /\ \A i \in Occupied : Stays(i, ledger, announced)
         /\ AllStable(ledger, tick)
         /\ \A i \in Occupied : ledger[i].number = tx_ledger[i].number
<1>1. ASSUME NEW i \in Slots \ Occupied PROVE ledger[i] = Free
  BY <1>1, SlotKinds DEF Near
<1>2. ASSUME NEW i \in Occupied PROVE Stays(i, ledger, announced)
  <2>1. CASE ledger[i] = tx_ledger[i]
    BY <2>1, UnchangedStays
  <2>2. CASE i \in Pending /\ IsSubmitted(ledger[i], tx_ledger[i])
    BY <2>2 DEF IsSubmitted, Stays, Numbered, Waits
  <2>3. QED
    BY <2>1, <2>2, SlotKinds DEF Near
<1>3. AllStable(ledger, tick)
  BY DEF Near, AllStable, Stable, Pending
<1>4. \A i \in Occupied : ledger[i].number = tx_ledger[i].number
  BY <1>2 DEF Stays
<1>5. QED
  BY <1>1, <1>2, <1>3, <1>4

(* A frame that leaves nothing announced.                                   *)
LEMMA NearEvolves ==
  ASSUME TypeOK, Numbered, LedgerKeyUnique, NEW ledger, Near(ledger)
  PROVE  Evolution(ledger, announced)
<1>1. NumbersOf({}) = {}
  BY DEF NumbersOf
<1>2. Evolution(ledger, announced \cup NumbersOf({}))
  BY NearStays, Evolves DEF Near
<1>3. QED
  BY <1>1, <1>2

(* ucan_session_can_tx_complete lets the ledger evolve: it finalises at most*)
(* one frame, and that one waited.                                          *)
LEMMA CompleteEvolves ==
  ASSUME TypeOK, Numbered, LedgerKeyUnique, NEW ledger, Near(ledger),
         NEW tag, NEW result \in Result, NEW last \in Int,
         Complete(tag, result, ledger, last)
  PROVE  Evolution(tx_ledger', announced') /\ AllStable(tx_ledger', tick)
<1> DEFINE slots == {i \in Slots : ledger[i] # Free /\ ledger[i].tag = tag}
           i     == Least(slots)
           late  == ledger[i].deadline # 0 /\ tick > ledger[i].deadline
           final == FinalSlot(ledger[i], IF late THEN "TIMEOUT" ELSE result, tick, i > last)
<1>1. CASE slots = {} \/ ledger[i].state = "FINAL"
  <2>1. tx_ledger' = ledger /\ announced' = announced
    BY <1>1, Zenon DEF Complete
  <2>2. QED
    BY <2>1, NearStays, NearEvolves
<1>2. CASE ~(slots = {} \/ ledger[i].state = "FINAL")
  <2>1. /\ tx_ledger' = [ledger EXCEPT
             ![i].state = "FINAL", ![i].completed = tick,
             ![i].result = IF late THEN "TIMEOUT" ELSE result,
             ![i].delivery_pending = i > last]
        /\ announced' = IF i > last THEN announced ELSE announced \cup {ledger[i].number}
    BY <1>2, Zenon DEF Complete
  <2>2. PICK k : k = i
    OBVIOUS
  <2>3. k \in slots
    BY <1>2, <2>2, LeastSlot
  <2>4. /\ k \in Slots /\ ledger[k] \in Slot /\ ledger[k].state # "FINAL"
        /\ ledger \in [Slots -> Slot \cup {Free}]
    BY <1>2, <2>2, <2>3 DEF Near
  <2>5. PICK value \in Result : value = IF late THEN "TIMEOUT" ELSE result
    BY DEF Result
  <2>6. tx_ledger' = [ledger EXCEPT ![k] = FinalSlot(ledger[k], value, tick, k > last)]
    BY <2>1, <2>2, <2>4, <2>5 DEF FinalSlot, Slot
  <2>7. announced' = IF k > last THEN announced ELSE announced \cup {ledger[k].number}
    BY <2>1, <2>2
  <2> HIDE DEF slots, i, late
  <2>8. k \in Pending /\ k \in Occupied /\ k \in Int
    <3>1. tx_ledger[k] # Free
      BY <2>4, NearStays, SlotKinds
    <3>2. k \in Occupied
      BY <2>4, <3>1 DEF Occupied
    <3>3. tx_ledger[k].state # "FINAL"
      BY <2>4 DEF Near, IsSubmitted
    <3>4. tx_ledger[k].state = "PENDING"
      BY <3>2, <3>3, SlotKinds DEF Slot
    <3>5. QED
      BY <2>4, <3>2, <3>4 DEF Pending, Slots
  <2>9. tick \in Nat
    BY TxAssumption DEF TypeOK
  <2>10. (k > last) \in BOOLEAN
    BY <2>8
  <2>11. IsFinal(FinalSlot(ledger[k], value, tick, k > last), ledger[k], tick, k > last)
    BY <2>4, <2>9, <2>10, FinalSlotFields, Zenon
  <2>12. PICK new : new = FinalSlot(ledger[k], value, tick, k > last)
    OBVIOUS
  <2>13. /\ tx_ledger' \in [Slots -> Slot \cup {Free}]
         /\ tx_ledger'[k] = new
         /\ \A j \in Slots : j # k => tx_ledger'[j] = ledger[j]
    BY <2>4, <2>6, <2>11, <2>12 DEF IsFinal
  <2>14. /\ new \in Slot
         /\ new.tag = tx_ledger[k].tag /\ new.epoch = tx_ledger[k].epoch
         /\ new.number = tx_ledger[k].number
         /\ new.state = "FINAL"
         /\ new.delivery_pending <=> k > last
         /\ Waits(new) <=> k > last
    BY <2>8, <2>11, <2>12, NearStays DEF IsFinal, Stays
  <2>15. \A j \in Slots \ Occupied : tx_ledger'[j] = Free
    BY <2>8, <2>13, NearStays
  <2>16. ASSUME NEW j \in Occupied, j # k PROVE Stays(j, tx_ledger', announced)
    BY <2>13, <2>16, NearStays, SlotKinds DEF Stays
  <2>17. AllStable(tx_ledger', tick)
    <3>1. ASSUME NEW j \in Slots PROVE Stable(j, tx_ledger', tick)
      <4>1. CASE j = k
        BY <2>8, <4>1 DEF Stable, Pending
      <4>2. CASE j # k
        BY <2>13, <4>2, NearStays DEF AllStable, Stable
      <4>3. QED
        BY <4>1, <4>2
    <3>2. QED
      BY <3>1 DEF AllStable
  <2>18. CASE k > last
    <3>1. Stays(k, tx_ledger', announced)
      BY <2>8, <2>13, <2>14, <2>18 DEF Stays, Numbered, Pending, Waits
    <3>2. NumbersOf({}) = {}
      BY DEF NumbersOf
    <3>3. Evolution(tx_ledger', announced \cup NumbersOf({}))
      BY <2>13, <2>15, <2>16, <3>1, Evolves
    <3>4. QED
      BY <2>7, <2>17, <2>18, <3>2, <3>3
  <2>19. CASE ~(k > last)
    <3>1. NumbersOf({k}) = {ledger[k].number}
      BY <2>8, NearStays DEF NumbersOf
    <3>2. Evolution(tx_ledger', announced \cup NumbersOf({k}))
      BY <2>8, <2>13, <2>14, <2>15, <2>16, <2>19, Evolves
    <3>3. QED
      BY <2>7, <2>17, <2>19, <3>1, <3>2
  <2>20. QED
    BY <2>18, <2>19
<1>3. QED
  BY <1>1, <1>2

(* A frame whose result gets its slot in the critical queue.                *)
Delivered(slot) == [slot EXCEPT !.delivery_pending = FALSE]

IsDelivered(new, slot) ==
  /\ new \in Slot
  /\ new.tag = slot.tag /\ new.epoch = slot.epoch /\ new.number = slot.number
  /\ new.state = slot.state /\ ~new.delivery_pending
  /\ [new EXCEPT !.delivery_pending = FALSE] = [slot EXCEPT !.delivery_pending = FALSE]

LEMMA DeliveredFields ==
  ASSUME NEW slot \in Slot
  PROVE  IsDelivered(Delivered(slot), slot)
BY DEF Slot, Delivered, IsDelivered

(* The retry in flush_pending announces results that wait, and only those.  *)
LEMMA FlushEvolves ==
  ASSUME TypeOK, Numbered, LedgerKeyUnique, NEW last \in Int, FlushPending(last)
  PROVE  Evolution(tx_ledger', announced') /\ AllStable(tx_ledger', tick)
<1> DEFINE done == {j \in Owing : j <= last}
<1>1. PICK ledger : ledger = [i \in Slots |-> IF i \in done THEN Delivered(tx_ledger[i])
                                                          ELSE tx_ledger[i]]
  OBVIOUS
<1>2. tx_ledger' = ledger
  BY <1>1 DEF FlushPending, Delivered
<1>3. announced' = announced \cup NumbersOf(done)
  BY DEF FlushPending, NumbersOf
<1>4. /\ done \subseteq Occupied
      /\ \A i \in done : tx_ledger[i].delivery_pending /\ tx_ledger[i].state # "PENDING"
  BY SlotKinds DEF Owing, Numbered
<1> HIDE DEF done
<1>5. \A i \in done : i \in Slots /\ tx_ledger[i] \in Slot /\ tx_ledger[i].state = "FINAL"
  BY <1>4, SlotKinds DEF Slot
<1>6. ASSUME NEW i \in done PROVE IsDelivered(ledger[i], tx_ledger[i])
  <2>1. ledger[i] = Delivered(tx_ledger[i])
    BY <1>1, <1>5
  <2>2. QED
    BY <1>5, <2>1, DeliveredFields
<1>7. \A i \in Slots \ done : ledger[i] = tx_ledger[i]
  BY <1>1
<1>8. ledger \in [Slots -> Slot \cup {Free}]
  <2>1. \A i \in Slots : ledger[i] \in Slot \cup {Free}
    BY <1>6, <1>7 DEF IsDelivered, TypeOK
  <2>2. QED
    BY <1>1, <2>1
<1>9. \A i \in Slots \ Occupied : ledger[i] = Free
  BY <1>4, <1>7, SlotKinds
<1>10. \A i \in Occupied \ done : Stays(i, ledger, announced)
  BY <1>7, SlotKinds, UnchangedStays
<1>11. \A i \in done : /\ ledger[i] \in Slot
                      /\ ledger[i].tag = tx_ledger[i].tag
                      /\ ledger[i].epoch = tx_ledger[i].epoch
                      /\ ledger[i].number = tx_ledger[i].number
                      /\ ledger[i].state = "FINAL" /\ ~ledger[i].delivery_pending
  BY <1>5, <1>6 DEF IsDelivered
<1>12. Evolution(ledger, announced \cup NumbersOf(done))
  BY <1>4, <1>8, <1>9, <1>10, <1>11, Evolves
<1>13. ASSUME NEW i \in Slots PROVE Stable(i, ledger, tick)
  <2>1. CASE i \in done
    <3>1. ledger[i] # Free
      BY <1>11, <2>1, SlotKinds
    <3>2. QED
      BY <1>6, <2>1, <3>1 DEF Stable, IsDelivered
  <2>2. CASE i \notin done
    BY <1>7, <2>2 DEF Stable
  <2>3. QED
    BY <2>1, <2>2
<1>14. QED
  BY <1>2, <1>3, <1>12, <1>13 DEF AllStable

(* ucan_session_tick: an arm that runs out finalises what waits, and only   *)
(* what is announced and past the guard is reclaimed.                       *)
LEMMA TickEvolves ==
  ASSUME TypeOK, Numbered, LedgerKeyUnique, NEW ticks \in Nat, NEW last \in Int,
         Tick(ticks, last)
  PROVE  /\ Evolution(tx_ledger', announced') /\ AllStable(tx_ledger', tick')
         /\ tx_armed /\ arm_expiry_tick # 0 /\ tick' >= arm_expiry_tick => Pending' = {}
<1> DEFINE now     == tick + ticks
           expired == tx_armed /\ arm_expiry_tick # 0 /\ now >= arm_expiry_tick
           done    == IF expired THEN Pending ELSE {}
           told    == {j \in done : j <= last}
<1>1. PICK ledger : ledger = Finalised(done, "TIMEOUT", now, last)
  OBVIOUS
<1>2. PICK next : next = [i \in Slots |-> IF ledger[i] # Free /\ Reclaimable(ledger[i], now)
                                         THEN Free ELSE ledger[i]]
  OBVIOUS
<1>3. tick' = now /\ tx_ledger' = next /\ announced' = announced \cup NumbersOf(told)
  BY <1>1, <1>2, Zenon DEF Tick, NumbersOf
<1>4. now \in Nat /\ done \in SUBSET Pending
  BY TxAssumption DEF TypeOK
<1>5. /\ ledger \in [Slots -> Slot \cup {Free}]
      /\ \A i \in Slots \ done : ledger[i] = tx_ledger[i]
      /\ \A i \in done : IsFinal(ledger[i], tx_ledger[i], now, i > last)
  <2>1. "TIMEOUT" \in Result
    BY DEF Result
  <2> HIDE DEF done, now
  <2>2. QED
    BY <1>1, <1>4, <2>1, FinalisedLedger
<1>6. expired => done = Pending
  OBVIOUS
<1> HIDE DEF done, expired
<1>7. /\ done \subseteq Occupied /\ Occupied \subseteq Slots /\ Slots \subseteq Int
      /\ told \subseteq done
  BY <1>4, SlotKinds DEF Slots
<1>8. next \in [Slots -> Slot \cup {Free}] /\ \A i \in Slots : next[i] = ledger[i] \/
        (next[i] = Free /\ ledger[i] # Free /\ Reclaimable(ledger[i], now))
  BY <1>2, <1>5
<1>9. \A i \in Slots \ Occupied : next[i] = Free
  BY <1>5, <1>7, <1>8, SlotKinds
<1>10. ASSUME NEW i \in Occupied \ told
       PROVE  Stays(i, next, announced) \/ Leaves(i, next, announced)
  <2>1. CASE i \in done
    <3>1. i > last
      BY <1>7, <1>10, <2>1
    <3>2. next[i] = ledger[i] /\ IsFinal(ledger[i], tx_ledger[i], now, i > last)
      BY <1>5, <1>7, <1>8, <2>1, <3>1 DEF IsFinal, Reclaimable
    <3>3. tx_ledger[i].number \notin announced
      BY <1>4, <1>7, <2>1 DEF Numbered, Pending, Waits
    <3>4. QED
      BY <3>1, <3>2, <3>3 DEF Stays, IsFinal
  <2>2. CASE i \notin done
    <3>1. ledger[i] = tx_ledger[i]
      BY <1>5, <1>7, <2>2
    <3>2. CASE next[i] = ledger[i]
      BY <3>1, <3>2, UnchangedStays
    <3>3. CASE next[i] = Free /\ Reclaimable(ledger[i], now)
      BY <3>1, <3>3 DEF Leaves, Reclaimable, Numbered, Waits
    <3>4. QED
      BY <1>7, <1>8, <3>2, <3>3
  <2>3. QED
    BY <2>1, <2>2
<1>11. \A i \in told : \/ next[i] = Free
                       \/ /\ next[i] \in Slot
                          /\ next[i].tag = tx_ledger[i].tag
                          /\ next[i].epoch = tx_ledger[i].epoch
                          /\ next[i].number = tx_ledger[i].number
                          /\ next[i].state = "FINAL" /\ ~next[i].delivery_pending
  <2>1. \A i \in told : i \in done /\ ~(i > last) /\ i \in Slots
    BY <1>7
  <2>2. QED
    BY <1>5, <1>8, <2>1 DEF IsFinal
<1>12. told \in SUBSET Occupied
  BY <1>7
<1>13. Evolution(next, announced \cup NumbersOf(told))
  <2> HIDE DEF told
  <2>1. QED
    BY <1>8, <1>9, <1>10, <1>11, <1>12, Evolves
<1>14. ASSUME NEW i \in Slots PROVE Stable(i, next, now)
  <2>1. CASE i \in done
    BY <1>4, <2>1 DEF Stable, Pending
  <2>2. CASE i \notin done
    <3>1. ledger[i] = tx_ledger[i]
      BY <1>5, <2>2
    <3>2. QED
      BY <1>8, <3>1 DEF Stable, Reclaimable
  <2>3. QED
    BY <2>1, <2>2
<1>15. expired => Pending' = {}
  <2> SUFFICES ASSUME expired, NEW i \in Pending' PROVE FALSE
    OBVIOUS
  <2>1. i \in Slots /\ next[i] # Free /\ next[i].state = "PENDING"
    BY <1>3 DEF Pending, Occupied, Slots
  <2>2. ledger[i] # Free /\ ledger[i].state = "PENDING"
    BY <1>8, <2>1
  <2>3. CASE i \in done
    BY <1>5, <2>2, <2>3 DEF IsFinal
  <2>4. CASE i \notin done
    BY <1>5, <1>6, <2>1, <2>2, <2>4 DEF Pending, Occupied
  <2>5. QED
    BY <2>3, <2>4
<1>16. QED
  BY <1>3, <1>13, <1>14, <1>15 DEF AllStable, expired
-----------------------------------------------------------------------------
(* The steps.                                                               *)

(* The invariant holds at reset.                                            *)
LEMMA InitInv == Init => IInv
<1> SUFFICES ASSUME Init PROVE IInv
  OBVIOUS
<1>1. Occupied = {} /\ Pending = {}
  BY DEF Init, Occupied, Pending, Slots
<1>2. accept_ticks = <<>> /\ Len(accept_ticks) = 0 /\ accept_ticks \in Seq(Nat)
  BY DEF Init
<1>3. TypeOK
  <2>1. tx_ledger \in [Slots -> Slot \cup {Free}]
    BY DEF Init
  <2>2. /\ 0 \in 0..MaxTick /\ 1 \in 1..MaxEpoch + 1 /\ 0 \in 0..MaxAccept /\ 0 \in Nat
        /\ \A b \in Bucket : 0 \in 0..Capacity[b]
    BY TxAssumption
  <2>3. \A b \in Bucket : tokens[b] \in 0..Capacity[b]
    BY <2>2 DEF Init
  <2>4. last_tick \in [Bucket -> Nat]
    BY DEF Init
  <2>5. hardware \in SUBSET (Tags \X Nat) /\ announced \in SUBSET (1..MaxAccept)
    BY DEF Init
  <2>6. QED
    BY <1>2, <2>1, <2>2, <2>3, <2>4, <2>5, Zenon DEF Init, TypeOK
<1>4. Armed /\ PendingAuthorised
  BY <1>1 DEF Init, Armed, PendingAuthorised
<1>5. Numbered /\ LedgerKeyUnique
  BY <1>1 DEF Init, Numbered, LedgerKeyUnique
<1>6. Budget /\ RateBound
  <2>1. \A b \in Bucket : last_tick[b] <= tick
    BY DEF Init
  <2>2. QED
    BY <1>2, <2>1 DEF Budget, RateBound
<1>7. QED
  BY <1>3, <1>4, <1>5, <1>6 DEF IInv

(* What every step owes: the invariant, and ResultStable.                   *)
Preserved == IInv' /\ AllStable(tx_ledger', tick')

(* A step that only settles frames.  Either the arming stays and lasts, or  *)
(* it ends and with it all that waits.                                      *)
LEMMA LedgerStep ==
  ASSUME IInv, Evolution(tx_ledger', announced'), AllStable(tx_ledger', tick'),
         UNCHANGED <<tokens, last_tick, accepted, accept_ticks>>,
         tick' \in tick..MaxTick,
         channel_active' \in BOOLEAN, hardware' \in SUBSET (Tags \X Nat),
         \/ UNCHANGED arming /\ (tx_armed => tick' < arm_expiry_tick)
         \/ /\ Pending' = {} /\ tx_armed' = FALSE /\ arm_expiry_tick' = 0
            /\ arm_epoch' = arm_epoch + 1 /\ arm_epoch <= MaxEpoch
            /\ UNCHANGED armed_from
  PROVE  Preserved
<1>1. /\ Numbered' /\ LedgerKeyUnique'
      /\ tx_ledger' \in [Slots -> Slot \cup {Free}]
      /\ announced' \in SUBSET (1..MaxAccept)
      /\ Pending' \subseteq Pending
      /\ \A i \in Pending' : tx_ledger'[i].epoch = tx_ledger[i].epoch
  BY EvolutionKeeps DEF IInv
<1>2. tick' \in 0..MaxTick /\ tick \in Nat /\ tick' \in Nat /\ tick <= tick'
  BY DEF IInv, TypeOK
<1>3. /\ arm_epoch' \in 1..MaxEpoch + 1 /\ armed_from' \in 1..MaxEpoch + 1
      /\ tx_armed' \in BOOLEAN /\ arm_expiry_tick' \in Nat
  <2>1. /\ arm_epoch \in 1..MaxEpoch + 1 /\ armed_from \in 1..MaxEpoch + 1
        /\ tx_armed \in BOOLEAN /\ arm_expiry_tick \in Nat
    BY DEF IInv, TypeOK
  <2>2. arm_epoch <= MaxEpoch => arm_epoch + 1 \in 1..MaxEpoch + 1
    BY <2>1, TxAssumption
  <2>3. 0 \in Nat
    OBVIOUS
  <2>4. QED
    BY <2>1, <2>2, <2>3, Zenon DEF arming
<1>4. TypeOK'
  BY <1>1, <1>2, <1>3 DEF IInv, TypeOK
<1>5. Armed'
  BY DEF IInv, Armed, arming
<1>6. PendingAuthorised'
  BY <1>1 DEF IInv, PendingAuthorised, arming
<1>7. Budget'
  <2>1. \A b \in Bucket : last_tick[b] \in Nat
    BY DEF IInv, TypeOK
  <2>2. \A b \in Bucket : last_tick'[b] <= tick'
    BY <1>2, <2>1 DEF IInv, Budget
  <2>3. QED
    BY <2>2 DEF IInv, Budget, Earned
<1>8. RateBound'
  BY DEF IInv, RateBound
<1>9. QED
  BY <1>1, <1>4, <1>5, <1>6, <1>7, <1>8 DEF IInv, Preserved

(* disarm_tx and what leads to it.                                          *)
LEMMA DisarmStep ==
  ASSUME IInv, NEW last \in Int, Disarm(last), arm_epoch <= MaxEpoch,
         channel_active' \in BOOLEAN, UNCHANGED <<tick, hardware, admission>>
  PROVE  Preserved
<1>1. "DISARMED" \in Result
  BY DEF Result
<1>2. /\ Evolution(tx_ledger', announced') /\ AllStable(tx_ledger', tick)
      /\ Pending' = Pending \ Pending
  BY <1>1, FinaliseEvolves DEF IInv, Disarm
<1>3. tick' \in tick..MaxTick /\ hardware' \in SUBSET (Tags \X Nat)
  BY TxAssumption DEF IInv, TypeOK
<1>4. QED
  BY <1>2, <1>3, LedgerStep DEF Disarm, admission

(* A step under an arming that stays, at the same tick.                     *)
LEMMA ArmingStays ==
  ASSUME IInv, Evolution(tx_ledger', announced'), AllStable(tx_ledger', tick),
         UNCHANGED <<tick, arming, admission>>,
         channel_active' \in BOOLEAN, hardware' \in SUBSET (Tags \X Nat)
  PROVE  Preserved
<1>1. tick' \in tick..MaxTick
  BY TxAssumption DEF IInv, TypeOK
<1>2. UNCHANGED arming /\ (tx_armed => tick' < arm_expiry_tick)
  BY DEF IInv, Armed
<1>3. QED
  BY <1>1, <1>2, LedgerStep DEF admission

(* A step that leaves the ledger alone.                                     *)
LEMMA SameLedger ==
  ASSUME IInv, UNCHANGED <<tx_ledger, announced>>
  PROVE  Evolution(tx_ledger', announced') /\ AllStable(tx_ledger', tick)
<1>1. Near(tx_ledger)
  BY DEF Near, IInv, TypeOK
<1>2. QED
  BY <1>1, NearStays, NearEvolves DEF IInv

LEMMA TickStep ==
  ASSUME IInv, NEW ticks \in Nat, NEW last \in Int, Tick(ticks, last)
  PROVE  Preserved
<1>1. /\ Evolution(tx_ledger', announced') /\ AllStable(tx_ledger', tick')
      /\ tx_armed /\ arm_expiry_tick # 0 /\ tick' >= arm_expiry_tick => Pending' = {}
  BY TickEvolves DEF IInv
<1>2. /\ tick' = tick + ticks /\ tick + ticks <= MaxTick
      /\ UNCHANGED <<channel_active, hardware, admission>>
      /\ IF tx_armed /\ arm_expiry_tick # 0 /\ tick' >= arm_expiry_tick
         THEN /\ tx_armed' = FALSE /\ arm_expiry_tick' = 0
              /\ arm_epoch' = arm_epoch + 1 /\ arm_epoch <= MaxEpoch
              /\ UNCHANGED armed_from
         ELSE UNCHANGED arming
  BY DEF Tick
<1>3. tick' \in tick..MaxTick /\ channel_active' \in BOOLEAN
      /\ hardware' \in SUBSET (Tags \X Nat)
  BY <1>2, TxAssumption DEF IInv, TypeOK
<1>4. CASE tx_armed /\ arm_expiry_tick # 0 /\ tick' >= arm_expiry_tick
  BY <1>1, <1>2, <1>3, <1>4, LedgerStep DEF admission
<1>5. CASE ~(tx_armed /\ arm_expiry_tick # 0 /\ tick' >= arm_expiry_tick)
  <2>1. tx_armed => tick' < arm_expiry_tick
    BY <1>2, <1>5 DEF IInv, Armed, TypeOK
  <2>2. UNCHANGED arming
    BY <1>2, <1>5
  <2>3. QED
    BY <1>1, <1>2, <1>3, <2>1, <2>2, LedgerStep DEF admission
<1>6. QED
  BY <1>4, <1>5

(* TX_ARM only lengthens the authorisation of what waits already, and fills *)
(* the buckets.                                                             *)
LEMMA TxArmStep ==
  ASSUME IInv, TxArm
  PROVE  Preserved
<1>1. /\ Evolution(tx_ledger', announced') /\ AllStable(tx_ledger', tick)
  BY SameLedger DEF TxArm
<1>2. /\ tick \in Nat /\ ArmTimeout \in Nat \ {0}
      /\ \A b \in Bucket : Capacity[b] \in Nat
  BY TxAssumption DEF IInv, TypeOK
<1>3. accept_ticks' = <<>> /\ Len(accept_ticks') = 0 /\ accept_ticks' \in Seq(Nat)
  BY DEF TxArm
<1>4. TypeOK'
  <2>1. /\ arm_epoch' \in 1..MaxEpoch + 1 /\ armed_from' \in 1..MaxEpoch + 1
        /\ tx_armed' = TRUE /\ arm_expiry_tick' \in Nat
    BY <1>2, TxAssumption DEF TxArm, IInv, TypeOK
  <2>2. \A b \in Bucket : tokens'[b] \in 0..Capacity[b]
    BY <1>2 DEF TxArm
  <2>3. last_tick' \in [Bucket -> Nat]
    BY <1>2 DEF TxArm
  <2>4. QED
    BY <1>3, <2>1, <2>2, <2>3 DEF TxArm, IInv, TypeOK
<1>0. /\ armed_from \in Nat /\ arm_epoch \in Nat /\ armed_from' \in Nat
      /\ arm_epoch' = arm_epoch + 1 /\ armed_from' <= arm_epoch'
      /\ tx_armed => armed_from' = armed_from
  BY TxAssumption DEF TxArm, IInv, TypeOK, Armed
<1>5. Armed'
  BY <1>0, <1>2 DEF TxArm, Armed
<1>6. Pending' = Pending
  BY DEF TxArm, Pending, Occupied
<1>7. PendingAuthorised'
  <2>1. \A i \in Pending : tx_ledger[i].epoch \in Nat
    BY SlotKinds DEF IInv, Slot
  <2>2. \A i \in Pending : tx_armed /\ tx_ledger[i].epoch \in armed_from..arm_epoch
    BY DEF IInv, PendingAuthorised
  <2>3. \A i \in Pending : tx_ledger[i].epoch \in armed_from'..arm_epoch'
    BY <1>0, <2>1, <2>2
  <2>4. QED
    BY <1>2, <1>6, <2>3 DEF TxArm, PendingAuthorised
<1>8. Numbered' /\ LedgerKeyUnique'
  BY <1>1, EvolutionKeeps DEF IInv, TxArm
<1>9. Budget' /\ RateBound'
  <2>1. \A b \in Bucket : last_tick'[b] <= tick'
    BY <1>2 DEF TxArm
  <2>2. QED
    BY <1>3, <2>1 DEF Budget, RateBound
<1>10. QED
  BY <1>1, <1>4, <1>5, <1>7, <1>8, <1>9 DEF TxArm, IInv, Preserved

(* The buckets after a refill, of which `taken' tokens are spent.           *)
LEMMA RefillKeepsBudget ==
  ASSUME IInv, NEW taken \in {0, 1}, NEW b \in Bucket,
         tokens'[b] = Refilled(b) - taken, last_tick'[b] = tick
  PROVE  \A k \in 1..Len(accept_ticks) :
           /\ accept_ticks[k] <= tick
           /\ Len(accept_ticks) - k + 1 + Refilled(b)
                <= Capacity[b] + Earned(b, accept_ticks[k], tick)
<1> SUFFICES ASSUME NEW k \in 1..Len(accept_ticks)
             PROVE  /\ accept_ticks[k] <= tick
                    /\ Len(accept_ticks) - k + 1 + Refilled(b)
                         <= Capacity[b] + Earned(b, accept_ticks[k], tick)
  OBVIOUS
<1>1. /\ tick \in Nat /\ last_tick[b] \in Nat /\ last_tick[b] <= tick
      /\ Len(accept_ticks) \in Nat /\ accept_ticks[k] \in Nat
      /\ tokens[b] \in Nat /\ Capacity[b] \in Nat
  BY ElementOfSeq, LenProperties, TxAssumption DEF IInv, TypeOK, Budget
<1>2. /\ accept_ticks[k] <= last_tick[b]
      /\ Len(accept_ticks) - k + 1 + tokens[b]
           <= Capacity[b] + Earned(b, accept_ticks[k], last_tick[b])
  BY DEF IInv, Budget
<1>3. /\ Refilled(b) \in Nat
      /\ Refilled(b) <= tokens[b] + Earned(b, last_tick[b], tick)
  BY <1>1, RefillBounds DEF IInv
<1>4. /\ Earned(b, accept_ticks[k], last_tick[b]) \in Nat
      /\ Earned(b, last_tick[b], tick) \in Nat
      /\ Earned(b, accept_ticks[k], last_tick[b]) + Earned(b, last_tick[b], tick)
           <= Earned(b, accept_ticks[k], tick)
  BY <1>1, <1>2, EarnedAdds
<1>5. Earned(b, accept_ticks[k], tick) \in Nat
  <2>1. tick <= tick /\ accept_ticks[k] <= tick
    BY <1>1, <1>2
  <2>2. QED
    BY <1>1, <2>1, EarnedAdds
<1>6. accept_ticks[k] <= tick
  BY <1>1, <1>2
<1>7. ASSUME NEW e1 \in Nat, NEW e2 \in Nat, NEW e \in Nat, NEW r \in Nat, NEW t \in Nat,
             NEW c \in Nat, NEW n \in Int,
             n + t <= c + e1, r <= t + e2, e1 + e2 <= e
      PROVE  n + r <= c + e
  BY <1>7
<1>8. Len(accept_ticks) - k + 1 \in Int
  BY <1>1
<1>9. QED
  BY <1>1, <1>2, <1>3, <1>4, <1>5, <1>6, <1>7, <1>8

(* A CAN_TX that is refused for want of tokens or of time on the bus.       *)
LEMMA CanTxBusyStep ==
  ASSUME IInv,
         tokens' = [b \in Bucket |-> Refilled(b)], last_tick' = [b \in Bucket |-> tick],
         UNCHANGED <<tx_ledger, accepted, accept_ticks, tick, arming, channel_active, hardware,
                     announced>>
  PROVE  Preserved
<1>1. tick \in Nat /\ \A b \in Bucket : last_tick[b] <= tick
  BY TxAssumption DEF IInv, TypeOK, Budget
<1>2. \A b \in Bucket : tokens'[b] = Refilled(b) - 0 /\ last_tick'[b] = tick
                       /\ Refilled(b) \in 0..Capacity[b] /\ tokens'[b] = Refilled(b)
  BY <1>1, RefillBounds, TxAssumption DEF IInv
<1>3. TypeOK'
  <2>1. last_tick' \in [Bucket -> Nat]
    BY <1>1
  <2>2. \A b \in Bucket : tokens'[b] \in 0..Capacity[b]
    BY <1>2
  <2>3. QED
    BY <2>1, <2>2 DEF IInv, TypeOK, arming
<1>4. Budget'
  <2>1. ASSUME NEW b \in Bucket, NEW k \in 1..Len(accept_ticks)
        PROVE  /\ accept_ticks[k] <= tick
               /\ Len(accept_ticks) - k + 1 + tokens'[b]
                    <= Capacity[b] + Earned(b, accept_ticks[k], tick)
    BY <1>2, RefillKeepsBudget
  <2>2. QED
    BY <1>1, <1>2, <2>1 DEF Budget, Earned
<1>5. Armed' /\ PendingAuthorised' /\ Numbered' /\ LedgerKeyUnique' /\ RateBound'
  BY DEF IInv, Armed, PendingAuthorised, Pending, Occupied, Numbered, LedgerKeyUnique,
         RateBound, arming
<1>6. AllStable(tx_ledger', tick')
  BY SameLedger
<1>7. QED
  BY <1>3, <1>4, <1>5, <1>6 DEF IInv, Preserved

(* The record of a frame that CAN_TX accepts.                               *)
NewSlot(tag, epoch, deadline, number) ==
  [state |-> "PENDING", tag |-> tag, epoch |-> epoch, deadline |-> deadline,
   submitted |-> FALSE, result |-> "NONE", completed |-> 0,
   delivery_pending |-> FALSE, number |-> number]

IsNew(new, tag, epoch, number) ==
  /\ new \in Slot
  /\ new.tag = tag /\ new.epoch = epoch /\ new.number = number
  /\ new.state = "PENDING" /\ ~new.delivery_pending

LEMMA NewSlotFields ==
  ASSUME NEW tag \in Tags, NEW epoch \in Nat, NEW deadline \in Nat, NEW number \in Nat
  PROVE  IsNew(NewSlot(tag, epoch, deadline, number), tag, epoch, number)
BY DEF NewSlot, IsNew, Slot, Result

(* A CAN_TX that is accepted: under this arm, with a key the ledger has not *)
(* got, and with a token from both buckets.                                 *)
LEMMA CanTxAcceptStep ==
  ASSUME IInv, NEW tag \in Tags, NEW epoch \in 1..MaxEpoch + 1, NEW deadline \in Deadlines,
         CanTxStatus(tag, epoch, deadline) = "ADMISSION",
         last_tick' = [b \in Bucket |-> tick],
         \A b \in Bucket : Refilled(b) >= 1,
         accepted < MaxAccept,
         tokens' = [b \in Bucket |-> Refilled(b) - 1],
         tx_ledger' = [tx_ledger EXCEPT ![Least(Slots \ Occupied)] =
                         NewSlot(tag, epoch, deadline, accepted + 1)],
         accepted' = accepted + 1,
         accept_ticks' = Append(accept_ticks, tick),
         UNCHANGED <<tick, arming, channel_active, hardware, announced>>
  PROVE  Preserved
<1> DEFINE n == Len(accept_ticks)
<1>1. tx_armed /\ epoch = arm_epoch /\ TagSlots(tag, epoch) = {} /\ Occupied # Slots
  BY DEF CanTxStatus
<1>2. PICK k : k = Least(Slots \ Occupied)
  OBVIOUS
<1>3. k \in Slots /\ k \notin Occupied
  <2>1. Slots \ Occupied # {} /\ Slots \ Occupied \in SUBSET Slots
    BY <1>1, SlotKinds DEF IInv
  <2>2. QED
    BY <1>2, <2>1, LeastSlot
<1>4. PICK new : new = NewSlot(tag, epoch, deadline, accepted + 1)
  OBVIOUS
<1>5. accepted \in Nat /\ accepted + 1 \in 0..MaxAccept /\ tick \in Nat
  BY TxAssumption DEF IInv, TypeOK
<1>6. IsNew(new, tag, epoch, accepted + 1)
  BY <1>4, <1>5, NewSlotFields, TxAssumption
<1>7. /\ tx_ledger' \in [Slots -> Slot \cup {Free}]
      /\ tx_ledger'[k] = new
      /\ \A j \in Slots : j # k => tx_ledger'[j] = tx_ledger[j]
  BY <1>2, <1>3, <1>4, <1>6 DEF IsNew, IInv, TypeOK
<1>8. Occupied' = Occupied \cup {k}
  BY <1>3, <1>6, <1>7, SlotKinds DEF Occupied, IsNew, Slots, Free, IInv
<1>9. Pending' = Pending \cup {k}
  BY <1>3, <1>6, <1>7, <1>8 DEF Pending, IsNew, Occupied
<1>10. /\ n \in Nat /\ accept_ticks' \in Seq(Nat) /\ Len(accept_ticks') = n + 1
       /\ accept_ticks'[n + 1] = tick
       /\ \A j \in 1..n : accept_ticks'[j] = accept_ticks[j]
  BY <1>5, AppendProperties, LenProperties DEF IInv, TypeOK
<1>0. n = Len(accept_ticks) /\ 1..accepted + 1 = 1..accepted \cup {accepted + 1}
      /\ accepted + 1 \notin 1..accepted /\ 1..n + 1 = 1..n \cup {n + 1}
  BY <1>5, <1>10
<1> HIDE DEF n
<1>11. \A b \in Bucket : /\ last_tick[b] <= tick /\ last_tick'[b] = tick
                        /\ tokens'[b] = Refilled(b) - 1
                        /\ Refilled(b) \in 0..Capacity[b] /\ tokens'[b] \in 0..Capacity[b]
                        /\ Refilled(b) \in Nat /\ Capacity[b] \in Nat
  <2> SUFFICES ASSUME NEW b \in Bucket
               PROVE  /\ last_tick[b] <= tick /\ last_tick'[b] = tick
                      /\ tokens'[b] = Refilled(b) - 1
                      /\ Refilled(b) \in 0..Capacity[b] /\ tokens'[b] \in 0..Capacity[b]
                      /\ Refilled(b) \in Nat /\ Capacity[b] \in Nat
    OBVIOUS
  <2>1. last_tick[b] <= tick /\ Capacity[b] \in Nat
    BY TxAssumption DEF IInv, Budget
  <2>2. Refilled(b) \in 0..Capacity[b]
    BY <2>1, RefillBounds DEF IInv
  <2>3. QED
    BY <2>1, <2>2
<1>12. TypeOK'
  <2>1. last_tick' \in [Bucket -> Nat]
    BY <1>5
  <2>2. QED
    BY <1>5, <1>7, <1>10, <1>11, <2>1 DEF IInv, TypeOK, arming
<1>13. Armed'
  BY DEF IInv, Armed, arming
<1>14. PendingAuthorised'
  <2>1. arm_epoch \in armed_from..arm_epoch /\ tick < arm_expiry_tick
    BY <1>1, TxAssumption DEF IInv, Armed, TypeOK
  <2>2. ASSUME NEW i \in Pending' PROVE tx_ledger'[i].epoch \in armed_from..arm_epoch
    <3>1. CASE i = k
      BY <1>1, <1>6, <1>7, <2>1, <3>1 DEF IsNew
    <3>2. CASE i # k
      BY <1>7, <1>9, <3>2 DEF IInv, PendingAuthorised, Pending, Occupied
    <3>3. QED
      BY <3>1, <3>2
  <2>3. QED
    BY <1>1, <2>1, <2>2 DEF PendingAuthorised, arming
<1>15. \A i \in Occupied : /\ i \in Slots /\ i # k /\ tx_ledger'[i] = tx_ledger[i]
                          /\ tx_ledger[i].number \in 1..accepted
  BY <1>3, <1>7 DEF Occupied, IInv, Numbered
<1>16. Numbered'
  <2>1. announced' \subseteq 1..accepted + 1
    BY <1>5 DEF IInv, Numbered
  <2>2. accepted + 1 \notin announced /\ tx_ledger'[k].number = accepted + 1
    BY <1>5, <1>6, <1>7 DEF IInv, Numbered, IsNew
  <2>3. ASSUME NEW i \in Occupied'
        PROVE  /\ tx_ledger'[i].number \in 1..accepted + 1
               /\ Waits(tx_ledger'[i]) <=> tx_ledger'[i].number \notin announced
               /\ tx_ledger'[i].state = "PENDING" => ~tx_ledger'[i].delivery_pending
    <3>1. CASE i = k
      BY <1>5, <1>6, <1>7, <2>2, <3>1 DEF IsNew, Waits
    <3>2. CASE i \in Occupied
      BY <1>0, <1>15, <3>2 DEF IInv, Numbered
    <3>3. QED
      BY <1>8, <3>1, <3>2
  <2>4. ASSUME NEW i \in Occupied', NEW j \in Occupied', i # j
        PROVE  tx_ledger'[i].number # tx_ledger'[j].number
    <3>1. CASE i \in Occupied /\ j \in Occupied
      BY <1>15, <2>4, <3>1 DEF IInv, Numbered
    <3>2. CASE i = k \/ j = k
      <4>1. \A l \in Occupied : tx_ledger'[l].number # tx_ledger'[k].number
        BY <1>0, <1>15, <2>2
      <4>2. QED
        BY <1>8, <2>4, <3>2, <4>1
    <3>3. QED
      BY <1>8, <3>1, <3>2
  <2>5. ASSUME NEW m \in 1..accepted + 1
        PROVE  m \in announced \/ \E i \in Occupied' : tx_ledger'[i].number = m
    <3>1. CASE m = accepted + 1
      BY <1>8, <2>2, <3>1
    <3>2. CASE m \in 1..accepted
      BY <1>8, <1>15, <3>2 DEF IInv, Numbered
    <3>3. QED
      BY <1>0, <3>1, <3>2
  <2>6. QED
    BY <2>1, <2>3, <2>4, <2>5 DEF Numbered
<1>17. LedgerKeyUnique'
  <2>1. \A i \in Occupied : ~(tx_ledger[i].tag = tag /\ tx_ledger[i].epoch = epoch)
    BY <1>1 DEF TagSlots
  <2>2. tx_ledger'[k].tag = tag /\ tx_ledger'[k].epoch = epoch
    BY <1>6, <1>7 DEF IsNew
  <2>3. ASSUME NEW i \in Occupied', NEW j \in Occupied', i # j
        PROVE  ~(/\ tx_ledger'[i].tag = tx_ledger'[j].tag
                 /\ tx_ledger'[i].epoch = tx_ledger'[j].epoch)
    <3>1. CASE i \in Occupied /\ j \in Occupied
      BY <1>15, <2>3, <3>1 DEF IInv, LedgerKeyUnique
    <3>2. CASE i = k \/ j = k
      <4>1. \A l \in Occupied : ~(/\ tx_ledger'[l].tag = tx_ledger'[k].tag
                                 /\ tx_ledger'[l].epoch = tx_ledger'[k].epoch)
        BY <1>15, <2>1, <2>2
      <4>2. QED
        BY <1>8, <2>3, <3>2, <4>1
    <3>3. QED
      BY <1>8, <3>1, <3>2
  <2>4. QED
    BY <2>3 DEF LedgerKeyUnique
<1>18. ASSUME NEW b \in Bucket, NEW j \in 1..n
       PROVE  /\ accept_ticks'[j] <= tick
              /\ n - j + 1 + Refilled(b) <= Capacity[b] + Earned(b, accept_ticks'[j], tick)
  BY <1>0, <1>10, <1>11, RefillKeepsBudget
<1>19. ASSUME NEW b \in Bucket, NEW j \in 1..n + 1
       PROVE  /\ accept_ticks'[j] \in Nat /\ accept_ticks'[j] <= tick
              /\ Earned(b, accept_ticks'[j], tick) \in Nat
  <2>1. accept_ticks'[j] \in Nat
    BY <1>10, ElementOfSeq
  <2>2. accept_ticks'[j] <= tick
    BY <1>5, <1>10, <1>18
  <2>3. QED
    BY <1>5, <2>1, <2>2, EarnedAdds, tick <= tick
<1>20. ASSUME NEW b \in Bucket, NEW j \in 1..n + 1
       PROVE  n + 1 - j + 1 + tokens'[b] <= Capacity[b] + Earned(b, accept_ticks'[j], tick)
  <2>1. CASE j = n + 1
    BY <1>10, <1>11, <1>19, <2>1
  <2>2. CASE j \in 1..n
    BY <1>10, <1>11, <1>18, <1>19, <2>2
  <2>3. QED
    BY <1>0, <2>1, <2>2
<1>21. Budget'
  <2>1. \A b \in Bucket : last_tick'[b] = tick' /\ tick' = tick /\ tick <= tick
    BY <1>5, <1>11
  <2>2. ASSUME NEW b \in Bucket, NEW j \in 1..Len(accept_ticks')
        PROVE  /\ accept_ticks'[j] <= last_tick'[b]
               /\ Len(accept_ticks') - j + 1 + tokens'[b]
                    <= Capacity[b] + Earned(b, accept_ticks'[j], last_tick'[b])
    <3>1. Len(accept_ticks') = n + 1 /\ j \in 1..n + 1 /\ last_tick'[b] = tick
      BY <1>10, <2>1
    <3>2. accept_ticks'[j] <= tick
      BY <1>19, <3>1, Zenon
    <3>3. n + 1 - j + 1 + tokens'[b] <= Capacity[b] + Earned(b, accept_ticks'[j], tick)
      BY <1>20, <3>1, Zenon
    <3>4. n \in Nat /\ tokens'[b] \in Nat /\ Capacity[b] \in Nat
          /\ Earned(b, accept_ticks'[j], tick) \in Nat
      <4>1. n \in Nat
        BY <1>10
      <4>2. tokens'[b] \in 0..Capacity[b] /\ Capacity[b] \in Nat
        BY <1>11, Zenon
      <4>3. Earned(b, accept_ticks'[j], tick) \in Nat
        BY <1>19, <3>1, Zenon
      <4>4. QED
        BY <4>1, <4>2, <4>3
    <3>5. QED
      BY <3>1, <3>2, <3>3, <3>4
  <2>3. \A b \in Bucket : last_tick'[b] <= tick'
    BY <2>1
  <2>4. QED
    BY <2>2, <2>3, Zenon DEF Budget, Earned
<1>22. RateBound'
  <2> SUFFICES ASSUME NEW b \in Bucket, NEW i \in 1..n + 1, NEW j \in 1..n + 1, i <= j
               PROVE  j - i + 1 <= Capacity[b] + Earned(b, accept_ticks'[i], accept_ticks'[j])
    BY <1>10 DEF RateBound, Earned
  <2>1. CASE j = n + 1
    <3>1. accept_ticks'[j] = tick
      BY <1>10, <2>1
    <3>2. PICK e \in Nat : e = Earned(b, accept_ticks'[i], tick)
      BY <1>19
    <3>3. n + 1 - i + 1 + tokens'[b] <= Capacity[b] + e
      BY <1>20, <3>2
    <3>4. tokens'[b] \in 0..Capacity[b]
      BY <1>11
    <3>5. n + 1 - i + 1 <= Capacity[b] + e
      BY <1>10, <1>11, <3>3, <3>4
    <3>6. Earned(b, accept_ticks'[i], accept_ticks'[j]) = e
      BY <3>1, <3>2
    <3>7. j - i + 1 <= Capacity[b] + e
      BY <1>10, <2>1, <3>5
    <3>8. QED
      BY <3>6, <3>7, Zenon
  <2>2. CASE j \in 1..n
    BY <1>0, <1>10, <2>2 DEF IInv, RateBound, Earned
  <2>3. QED
    BY <1>0, <2>1, <2>2
<1>23. AllStable(tx_ledger', tick')
  BY <1>3, <1>7 DEF AllStable, Stable, Occupied
<1>24. QED
  BY <1>12, <1>13, <1>14, <1>16, <1>17, <1>21, <1>22, <1>23 DEF IInv, Preserved

(* Every step keeps the invariant, and every final result.                  *)
LEMMA NextStep ==
  ASSUME IInv, [Next]_vars
  PROVE  Preserved
<1> USE DEF arming, admission
<1>1. /\ channel_active \in BOOLEAN /\ hardware \in SUBSET (Tags \X Nat)
      /\ \A last \in 0..NSlots : last \in Int
  BY DEF IInv, TypeOK
<1>2. ASSUME NEW ticks \in 1..2, NEW last \in 0..NSlots, Tick(ticks, last) PROVE Preserved
  <2>1. ticks \in Nat /\ last \in Int
    OBVIOUS
  <2>2. QED
    BY <1>2, <2>1, TickStep
<1>3. CASE TxArm
  BY <1>3, TxArmStep
<1>4. ASSUME NEW epoch \in 1..MaxEpoch, NEW last \in 0..NSlots, TxDisarm(epoch, last)
      PROVE  Preserved
  BY <1>1, <1>4, DisarmStep DEF TxDisarm
<1>5. ASSUME NEW active \in BOOLEAN, NEW last \in 0..NSlots, Reconfigure(active, last)
      PROVE  Preserved
  <2>1. CASE tx_armed
    BY <1>1, <1>5, <2>1, DisarmStep DEF Reconfigure
  <2>2. CASE ~tx_armed
    BY <1>1, <1>5, <2>2, SameLedger, ArmingStays DEF Reconfigure
  <2>3. QED
    BY <2>1, <2>2
<1>6. ASSUME NEW active \in BOOLEAN, ChannelEdge(active) PROVE Preserved
  BY <1>1, <1>6, SameLedger, ArmingStays DEF ChannelEdge
<1>7. ASSUME NEW tag \in Tags, NEW epoch \in 1..MaxEpoch + 1, NEW deadline \in Deadlines,
             NEW overloaded \in BOOLEAN, CanTx(tag, epoch, deadline, overloaded)
      PROVE  Preserved
  <2> DEFINE full == [b \in Bucket |-> Refilled(b)]
  <2>1. CASE overloaded \/ \E b \in Bucket : full[b] < 1
    BY <1>7, <2>1, CanTxBusyStep DEF CanTx
  <2>2. CASE ~(overloaded \/ \E b \in Bucket : full[b] < 1)
    <3>1. /\ CanTxStatus(tag, epoch, deadline) = "ADMISSION"
          /\ last_tick' = [b \in Bucket |-> tick]
          /\ accepted < MaxAccept
          /\ tokens' = [b \in Bucket |-> full[b] - 1]
          /\ tx_ledger' = [tx_ledger EXCEPT ![Least(Slots \ Occupied)] =
                              NewSlot(tag, epoch, deadline, accepted + 1)]
          /\ accepted' = accepted + 1
          /\ accept_ticks' = Append(accept_ticks, tick)
          /\ UNCHANGED <<tick, arming, channel_active, hardware, announced>>
      BY <1>7, <2>2, Zenon DEF CanTx, NewSlot
    <3>2. \A b \in Bucket : full[b] = Refilled(b)
      OBVIOUS
    <3>3. \A b \in Bucket : last_tick[b] <= tick
      BY DEF IInv, Budget
    <3>4. \A b \in Bucket : Refilled(b) \in Int
      BY <3>3, RefillBounds DEF IInv
    <3>5. \A b \in Bucket : Refilled(b) >= 1
      BY <2>2, <3>2, <3>4
    <3>6. tokens' = [b \in Bucket |-> Refilled(b) - 1]
      BY <3>1, <3>2
    <3> HIDE DEF full
    <3>7. QED
      BY <3>1, <3>5, <3>6, CanTxAcceptStep
  <2>3. QED
    BY <2>1, <2>2
<1>8. ASSUME NEW tag \in Tags, NEW epoch \in 1..MaxEpoch + 1, NEW last \in 0..NSlots,
             CanTxCancel(tag, epoch, last)
      PROVE  Preserved
  <2>1. PICK i \in Pending : Finalise({i}, "CANCELLED", last)
    BY <1>8 DEF CanTxCancel
  <2>2. Evolution(tx_ledger', announced') /\ AllStable(tx_ledger', tick)
    <3>1. "CANCELLED" \in Result /\ {i} \in SUBSET Pending
      BY DEF Result
    <3>2. QED
      BY <1>1, <2>1, <3>1, FinaliseEvolves DEF IInv
  <2>3. QED
    BY <1>1, <1>8, <2>2, ArmingStays DEF CanTxCancel
<1>9. ASSUME NEW taken \in BOOLEAN, NEW last \in 0..NSlots, TakePendingTx(taken, last)
      PROVE  Preserved
  <2> DEFINE new == {i \in Pending : ~tx_ledger[i].submitted}
  <2>1. PICK i : i = Least(new)
    OBVIOUS
  <2>2. new \in SUBSET Slots /\ new # {}
    BY <1>9, SlotKinds DEF TakePendingTx, IInv
  <2>3. i \in new
    BY <2>1, <2>2, LeastSlot
  <2>4. PICK ledger : ledger = [tx_ledger EXCEPT ![i].submitted = TRUE]
    OBVIOUS
  <2>5. i \in Pending /\ i \in Slots /\ tx_ledger[i] \in Slot
    BY <2>3, SlotKinds DEF IInv
  <2>6. IF taken
        THEN /\ hardware' = hardware \cup {<<tx_ledger[i].tag, tx_ledger[i].number>>}
             /\ tx_ledger' = ledger
             /\ UNCHANGED announced
        ELSE /\ Complete(tx_ledger[i].tag, "BUS_ERROR", ledger, last)
             /\ UNCHANGED hardware
    BY <1>9, <2>1, <2>4, Zenon DEF TakePendingTx
  <2> HIDE DEF new
  <2>7. Near(ledger)
    <3>1. tx_ledger \in [Slots -> Slot \cup {Free}]
      BY DEF IInv, TypeOK
    <3>2. ledger = [tx_ledger EXCEPT ![i] = Submitted(tx_ledger[i])]
      BY <2>4, <2>5, <3>1 DEF Submitted
    <3>3. IsSubmitted(Submitted(tx_ledger[i]), tx_ledger[i])
      BY <2>5, SubmittedFields
    <3>4. QED
      BY <2>5, <3>1, <3>2, <3>3 DEF Near, IsSubmitted
  <2>8. CASE taken
    <3>1. Evolution(tx_ledger', announced') /\ AllStable(tx_ledger', tick)
      BY <2>6, <2>7, <2>8, NearStays, NearEvolves DEF IInv
    <3>2. <<tx_ledger[i].tag, tx_ledger[i].number>> \in Tags \X Nat
      BY <2>5 DEF Slot
    <3>3. hardware' \in SUBSET (Tags \X Nat)
      BY <1>1, <2>6, <2>8, <3>2
    <3>4. QED
      BY <1>1, <1>9, <3>1, <3>3, ArmingStays DEF TakePendingTx
  <2>9. CASE ~taken
    <3>1. "BUS_ERROR" \in Result
      BY DEF Result
    <3>2. Evolution(tx_ledger', announced') /\ AllStable(tx_ledger', tick)
      BY <1>1, <2>6, <2>7, <2>9, <3>1, CompleteEvolves DEF IInv
    <3>3. QED
      BY <1>1, <1>9, <2>6, <2>9, <3>2, ArmingStays DEF TakePendingTx
  <2>10. QED
    BY <2>8, <2>9
<1>10. ASSUME NEW frame \in hardware, NEW result \in {"SENT", "BUS_ERROR"},
              NEW last \in 0..NSlots, CanTxComplete(frame, result, last)
       PROVE  Preserved
  <2>1. Near(tx_ledger) /\ result \in Result
    BY DEF Near, IInv, TypeOK, Result
  <2>2. Complete(frame[1], result, tx_ledger, last)
    BY <1>10 DEF CanTxComplete
  <2>3. Evolution(tx_ledger', announced') /\ AllStable(tx_ledger', tick)
    BY <1>1, <2>1, <2>2, CompleteEvolves DEF IInv
  <2>4. hardware' \in SUBSET (Tags \X Nat)
    BY <1>1, <1>10 DEF CanTxComplete
  <2>5. QED
    BY <1>1, <1>10, <2>3, <2>4, ArmingStays DEF CanTxComplete
<1>11. ASSUME NEW last \in 0..NSlots, FlushPending(last) PROVE Preserved
  <2>1. Evolution(tx_ledger', announced') /\ AllStable(tx_ledger', tick)
    BY <1>1, <1>11, FlushEvolves DEF IInv
  <2>2. QED
    BY <1>1, <1>11, <2>1, ArmingStays DEF FlushPending
<1>12. CASE UNCHANGED vars
  BY <1>1, <1>12, SameLedger, ArmingStays DEF vars
<1>13. QED
  BY <1>2, <1>3, <1>4, <1>5, <1>6, <1>7, <1>8, <1>9, <1>10, <1>11, <1>12, Zenon DEF Next
-----------------------------------------------------------------------------
(* The theorems.                                                            *)

(* The inductive invariant of the transmit path.                            *)
LEMMA Invariant == Spec => []IInv
<1>1. IInv /\ [Next]_vars => IInv'
  BY NextStep DEF Preserved
<1>2. QED
  BY <1>1, InitInv, PTL DEF Spec

(* Type correctness: the ledger holds frames or nothing, the epochs and the *)
(* buckets keep to their bounds.                                            *)
THEOREM TypeCorrect == Spec => []TypeOK
<1>1. IInv => TypeOK
  BY DEF IInv
<1>2. QED
  BY <1>1, Invariant, PTL

(* Whatever ends the authorisation, TX_DISARM, expiry in ucan_session_tick, *)
(* a reconfiguration or bus-off, takes every waiting frame with it: one that*)
(* waits was accepted since, under an epoch of the arming that still lasts. *)
THEOREM WaitsAuthorised == Spec => []PendingAuthorised
<1>1. IInv => PendingAuthorised
  BY DEF IInv
<1>2. QED
  BY <1>1, Invariant, PTL

(* Every frame CAN_TX accepts is in one of three places: waiting, owing its *)
(* result, or announced.                                                    *)
THEOREM AcceptedAnsweredOnce == Spec => []AcceptedAnswered
<1>1. IInv => AcceptedAnswered
  <2> SUFFICES ASSUME IInv, NEW n \in 1..accepted
               PROVE  Cardinality({i \in Pending : tx_ledger[i].number = n})
                        + Cardinality({i \in Owing : tx_ledger[i].number = n})
                        + Cardinality({n} \cap announced) = 1
    BY DEF IInv, AcceptedAnswered
  <2> DEFINE pending == {i \in Pending : tx_ledger[i].number = n}
             owing   == {i \in Owing : tx_ledger[i].number = n}
  <2>1. Cardinality({}) = 0 /\ \A x : Cardinality({x}) = 1
    BY FS_EmptySet, FS_Singleton
  <2>2. /\ Pending \subseteq Occupied /\ Owing \subseteq Occupied
        /\ \A i \in Occupied : (i \in Pending \/ i \in Owing) <=>
                               tx_ledger[i].number \notin announced
        /\ \A i \in Occupied : ~(i \in Pending /\ i \in Owing)
    BY DEF IInv, Numbered, Pending, Owing, Waits
  <2>3. CASE n \in announced
    <3>1. pending = {} /\ owing = {} /\ {n} \cap announced = {n}
      BY <2>2, <2>3
    <3>2. /\ Cardinality(pending) = 0 /\ Cardinality(owing) = 0
          /\ Cardinality({n} \cap announced) = 1
      BY <2>1, <3>1, Zenon
    <3> HIDE DEF pending, owing
    <3>3. Cardinality(pending) + Cardinality(owing) + Cardinality({n} \cap announced) = 1
      BY <3>2
    <3>4. QED
      BY <3>3 DEF pending, owing
  <2>4. CASE n \notin announced
    <3>1. PICK i \in Occupied : tx_ledger[i].number = n
      BY <2>4 DEF IInv, Numbered
    <3>2. \A j \in Occupied : tx_ledger[j].number = n => j = i
      BY <3>1 DEF IInv, Numbered
    <3>3. {n} \cap announced = {}
      BY <2>4
    <3>4. CASE i \in Pending
      <4>1. pending = {i} /\ owing = {}
        BY <2>2, <3>1, <3>2, <3>4
      <4>2. /\ Cardinality(pending) = 1 /\ Cardinality(owing) = 0
            /\ Cardinality({n} \cap announced) = 0
        BY <2>1, <3>3, <4>1, Zenon
      <4> HIDE DEF pending, owing
      <4>3. Cardinality(pending) + Cardinality(owing) + Cardinality({n} \cap announced) = 1
        BY <4>2
      <4>4. QED
        BY <4>3 DEF pending, owing
    <3>5. CASE i \in Owing
      <4>1. owing = {i} /\ pending = {}
        BY <2>2, <3>1, <3>2, <3>5
      <4>2. /\ Cardinality(owing) = 1 /\ Cardinality(pending) = 0
            /\ Cardinality({n} \cap announced) = 0
        BY <2>1, <3>3, <4>1, Zenon
      <4> HIDE DEF pending, owing
      <4>3. Cardinality(pending) + Cardinality(owing) + Cardinality({n} \cap announced) = 1
        BY <4>2
      <4>4. QED
        BY <4>3 DEF pending, owing
    <3>6. QED
      BY <2>2, <2>4, <3>1, <3>4, <3>5
  <2>5. QED
    BY <2>3, <2>4
<1>2. QED
  BY <1>1, Invariant, PTL

(* No step changes a final result, and none frees its slot before the guard *)
(* of the tag has run and its result is queued.                             *)
THEOREM FinalIsFinal == Spec => ResultStable
<1>1. IInv /\ [Next]_vars =>
        [\A i \in Slots :
           tx_ledger[i] # Free /\ tx_ledger[i].state = "FINAL" =>
             \/ /\ tx_ledger'[i] # Free
                /\ [tx_ledger'[i] EXCEPT !.delivery_pending = FALSE]
                     = [tx_ledger[i] EXCEPT !.delivery_pending = FALSE]
             \/ /\ tx_ledger'[i] = Free
                /\ ~tx_ledger[i].delivery_pending
                /\ tick' - tx_ledger[i].completed >= Guard]_vars
  BY NextStep DEF Preserved, AllStable, Stable
<1>2. QED
  BY <1>1, Invariant, PTL DEF Spec, ResultStable

(* CAN_TX admits, over every interval of an arm, no more than the burst and *)
(* what the fill rate earns in it.                                          *)
THEOREM RateKept == Spec => []RateBound
<1>1. IInv => RateBound
  BY DEF IInv
<1>2. QED
  BY <1>1, Invariant, PTL
-----------------------------------------------------------------------------
(* The executions of the past are not later than now.                       *)
GatePast == \A i \in 1..Len(executions) : executions[i].tick <= tick

(* Its inductive invariant: that the cache evicts its oldest entry, and     *)
(* never one whose loss would be felt, is part of ExecutesOnce already.     *)
GateInv == GateTypeOK /\ GatePast /\ ExecutesOnce
-----------------------------------------------------------------------------
(* The cache.                                                               *)

(* A cached entry is a record of its request.                               *)
LEMMA StoredEntry ==
  ASSUME GateTypeOK, NEW k \in Stored
  PROVE  k \in ReplaySlots /\ replay[k] \in Entry
BY DEF GateTypeOK, Stored

(* replay_store keeps the type of the cache and writes one slot.            *)
LEMMA ReplayStoreWrites ==
  ASSUME GateTypeOK,
         NEW sequence \in RequestSequences, NEW request \in Requests, NEW status \in Status,
         ReplayStore(sequence, request, status)
  PROVE  \E i \in StoreSlot :
           /\ i \in ReplaySlots
           /\ replay' \in [ReplaySlots -> Entry \cup {Empty}]
           /\ replay'[i].sequence = sequence /\ replay'[i].stored_tick = tick
           /\ replay'[i] # Empty
           /\ \A k \in ReplaySlots : k # i => replay'[k] = replay[k]
<1> DEFINE entry == [sequence |-> sequence, request |-> request, stored_tick |-> tick,
                     status |-> status]
<1>1. PICK i \in StoreSlot : replay' = [replay EXCEPT ![i] = entry]
  BY DEF ReplayStore
<1>2. i \in ReplaySlots
  BY DEF StoreSlot
<1>3. entry \in Entry
  BY DEF GateTypeOK, Entry
<1>4. entry.sequence # 0
  BY ControlAssumption
<1>5. entry # Empty
  BY <1>4 DEF Empty
<1>6. replay \in [ReplaySlots -> Entry \cup {Empty}]
  BY DEF GateTypeOK
<1>7. replay' \in [ReplaySlots -> Entry \cup {Empty}]
  BY <1>1, <1>3, <1>6
<1>8. replay'[i] = entry /\ \A k \in ReplaySlots : k # i => replay'[k] = replay[k]
  BY <1>1, <1>2, <1>6
<1> HIDE DEF entry
<1>9. entry.sequence = sequence /\ entry.stored_tick = tick
  BY DEF entry
<1>10. QED
  BY <1>2, <1>5, <1>7, <1>8, <1>9

(* What an execution of the past has to protect it: its entry, or a cache   *)
(* full of entries that are as young.                                       *)
Guarded(e) ==
  \/ \E k \in Stored : replay[k].sequence = e.sequence /\ replay[k].stored_tick >= e.tick
  \/ Stored = ReplaySlots /\ \A k \in ReplaySlots : replay[k].stored_tick >= e.tick

(* Storing an entry leaves every protected execution of the past protected: *)
(* the slot it takes is free, or is the oldest of a full cache.             *)
LEMMA StoreKeepsGuard ==
  ASSUME GateTypeOK, tick' = tick,
         NEW sequence \in RequestSequences, NEW request \in Requests, NEW status \in Status,
         ReplayStore(sequence, request, status),
         NEW e \in [sequence: RequestSequences, tick: 0..MaxTick],
         e.tick <= tick, Guarded(e)
  PROVE  Guarded(e)'
<1>1. PICK i \in StoreSlot :
        /\ i \in ReplaySlots
        /\ replay'[i].sequence = sequence /\ replay'[i].stored_tick = tick
        /\ replay'[i] # Empty
        /\ \A k \in ReplaySlots : k # i => replay'[k] = replay[k]
  BY ReplayStoreWrites
<1>2. Stored \subseteq ReplaySlots /\ Stored' = Stored \cup {i}
  BY <1>1 DEF Stored, Empty, ReplaySlots
<1>3. e.tick \in Nat /\ tick \in Nat
  BY DEF GateTypeOK
<1>4. \A k \in Stored : replay[k].stored_tick \in Nat
  BY StoredEntry DEF Entry
<1>5. CASE Stored = ReplaySlots /\ \A k \in ReplaySlots : replay[k].stored_tick >= e.tick
  <2>1. Stored' = ReplaySlots
    BY <1>1, <1>2, <1>5
  <2>2. \A k \in ReplaySlots : replay'[k].stored_tick >= e.tick
    BY <1>1, <1>3, <1>5
  <2>3. QED
    BY <2>1, <2>2 DEF Guarded, ReplaySlots
<1>6. ASSUME NEW k \in Stored,
             replay[k].sequence = e.sequence, replay[k].stored_tick >= e.tick
      PROVE  Guarded(e)'
  <2>1. CASE k # i
    BY <1>1, <1>2, <1>6, <2>1 DEF Guarded
  <2>2. CASE k = i
    <3>1. Stored = ReplaySlots
      BY <1>1, <1>6, <2>2 DEF StoreSlot
    <3>2. \A j \in ReplaySlots : replay[i].stored_tick <= replay[j].stored_tick
      BY <1>1, <1>4, <3>1 DEF StoreSlot
    <3>3. \A j \in ReplaySlots : replay'[j].stored_tick >= e.tick
      BY <1>1, <1>3, <1>4, <1>6, <2>2, <3>1, <3>2
    <3>4. Stored' = ReplaySlots
      BY <1>1, <1>2, <3>1
    <3>5. QED
      BY <3>3, <3>4 DEF Guarded, ReplaySlots
  <2>3. QED
    BY <2>1, <2>2
<1>7. QED
  BY <1>5, <1>6 DEF Guarded

(* A request that reaches the switch is not one that executed within the    *)
(* retention: its entry would answer it, or the full cache refuse it.       *)
LEMMA FreshIsNew ==
  ASSUME GateTypeOK, NEW sequence \in RequestSequences, NEW request \in Requests,
         Fresh(sequence, request),
         NEW e \in [sequence: RequestSequences, tick: 0..MaxTick],
         e.sequence = sequence, Guarded(e)
  PROVE  tick - e.tick > Retention
<1>1. SUFFICES ASSUME tick - e.tick <= Retention PROVE FALSE
  BY ControlAssumption DEF GateTypeOK
<1>2. \A k \in Stored : replay[k].stored_tick >= e.tick => Retained(k)
  BY <1>1, StoredEntry, ControlAssumption DEF GateTypeOK, Entry, Retained
<1>3. ASSUME NEW k \in Stored, replay[k].sequence = sequence, Retained(k)
      PROVE  FALSE
  BY <1>3 DEF Fresh, Replayed, Hits
<1>4. CASE Stored = ReplaySlots /\ \A k \in ReplaySlots : replay[k].stored_tick >= e.tick
  <2>1. CacheFullOfRetention
    BY <1>2, <1>4 DEF CacheFullOfRetention
  <2>2. QED
    BY <2>1 DEF Fresh, IsBusy
<1>5. QED
  BY <1>2, <1>3, <1>4 DEF Guarded
-----------------------------------------------------------------------------
(* The steps.                                                               *)

(* The invariant holds at reset.                                            *)
LEMMA GateInitInv == GateInit => GateInv
<1> SUFFICES ASSUME GateInit PROVE GateInv
  OBVIOUS
<1>1. executions = <<>> /\ Len(executions) = 0
  BY DEF GateInit
<1>2. GateTypeOK
  <2>1. executions \in Seq([sequence: RequestSequences, tick: 0..MaxTick])
    BY <1>1
  <2>2. replay \in [ReplaySlots -> Entry \cup {Empty}]
    BY DEF GateInit
  <2>3. 0 \in 0..MaxTick /\ 1 \in 1..MaxGeneration
    BY ControlAssumption
  <2>4. QED
    BY <2>1, <2>2, <2>3, Zenon DEF GateInit, GateTypeOK
<1>3. QED
  BY <1>1, <1>2 DEF GateInv, GatePast, ExecutesOnce, EvictedAreGuarded

(* A request that is refused.                                               *)
LEMMA GateRefuseStep ==
  ASSUME GateInv, NEW sequence \in RequestSequences, NEW request \in Requests,
         NEW status \in Status, Refuse(sequence, request, status)
  PROVE  GateInv'
<1>1. /\ ReplayStore(sequence, request, status)
      /\ UNCHANGED <<tick, negotiated, session, executions>>
  BY DEF Refuse
<1>2. GateTypeOK'
  BY <1>1, ReplayStoreWrites DEF GateInv, GateTypeOK, session
<1>3. GatePast'
  BY <1>1 DEF GateInv, GatePast
<1>4. \A i \in 1..Len(executions) :
        /\ executions[i] \in [sequence: RequestSequences, tick: 0..MaxTick]
        /\ executions[i].tick <= tick
        /\ tick - executions[i].tick <= Retention => Guarded(executions[i])
  BY ElementOfSeq DEF GateInv, GateTypeOK, GatePast, ExecutesOnce, EvictedAreGuarded, Guarded
<1>5. \A i \in 1..Len(executions) :
        tick - executions[i].tick <= Retention => Guarded(executions[i])'
  <2> SUFFICES ASSUME NEW i \in 1..Len(executions), tick - executions[i].tick <= Retention
               PROVE  Guarded(executions[i])'
    OBVIOUS
  <2>1. PICK e \in [sequence: RequestSequences, tick: 0..MaxTick] :
          e = executions[i] /\ e.tick <= tick /\ Guarded(e)
    BY <1>4 DEF GateInv
  <2>2. Guarded(e)'
    BY <1>1, <2>1, StoreKeepsGuard DEF GateInv
  <2>3. QED
    BY <1>1, <2>1, <2>2 DEF Guarded
<1>6. EvictedAreGuarded'
  BY <1>1, <1>5 DEF EvictedAreGuarded, Guarded
<1>7. QED
  BY <1>1, <1>2, <1>3, <1>6 DEF GateInv, ExecutesOnce

(* A request that executes: nothing in the cache answers it, so it is new;  *)
(* and its own entry protects it.                                           *)
LEMMA GateExecutesStep ==
  ASSUME GateInv, NEW sequence \in RequestSequences, NEW request \in Requests,
         Executes(sequence, request),
         config_generation' \in 1..MaxGeneration, capture_generation' \in 1..MaxGeneration,
         capture_state' \in {"STOPPED", "STARTED"}, diag_generation' \in 1..MaxGeneration
  PROVE  GateInv'
<1> DEFINE Execution == [sequence: RequestSequences, tick: 0..MaxTick]
           n         == Len(executions)
<1>0. PICK new : new = [sequence |-> sequence, tick |-> tick]
  OBVIOUS
<1>1. /\ Fresh(sequence, request)
      /\ executions' = Append(executions, new)
      /\ ReplayStore(sequence, request, "OK") /\ "OK" \in Status
      /\ tick' = tick /\ negotiated' = negotiated
  BY <1>0 DEF Executes, Status
<1>2. /\ GateTypeOK /\ executions \in Seq(Execution) /\ new \in Execution
      /\ tick \in 0..MaxTick /\ n \in Nat /\ tick \in Nat
  BY <1>0, LenProperties DEF GateInv, GateTypeOK
<1>3. /\ executions' \in Seq(Execution) /\ Len(executions') = n + 1
      /\ executions'[n + 1] = new
      /\ \A i \in 1..n : executions'[i] = executions[i]
  BY <1>1, <1>2, AppendProperties
<1>4. GateTypeOK'
  BY <1>1, <1>2, <1>3, ReplayStoreWrites DEF GateTypeOK
<1>5. \A i \in 1..n :
        /\ executions[i] \in Execution /\ executions[i].tick \in Nat
        /\ executions[i].tick <= tick
        /\ tick - executions[i].tick <= Retention => Guarded(executions[i])
  <2>1. \A i \in 1..n : executions[i] \in Execution
    BY <1>2, ElementOfSeq
  <2>2. \A i \in 1..n : executions[i].tick \in Nat
    BY <2>1
  <2>3. \A i \in 1..n :
          /\ executions[i].tick <= tick
          /\ tick - executions[i].tick <= Retention => Guarded(executions[i])
    BY DEF GateInv, GatePast, ExecutesOnce, EvictedAreGuarded, Guarded
  <2>4. QED
    BY <2>1, <2>2, <2>3
<1>6. new.sequence = sequence /\ new.tick = tick
  BY <1>0
<1>7. GatePast'
  <2> HIDE DEF n, Execution
  <2>1. ASSUME NEW i \in 1..n + 1 PROVE executions'[i].tick <= tick
    <3>1. CASE i = n + 1
      BY <1>2, <1>3, <1>6, <3>1
    <3>2. CASE i # n + 1
      <4>1. i \in 1..n
        BY <1>2, <3>2
      <4>2. QED
        BY <1>3, <1>5, <4>1
    <3>3. QED
      BY <3>1, <3>2
  <2>2. QED
    BY <1>1, <1>3, <2>1 DEF GatePast, n
<1>8. Guarded(new)'
  <2>1. PICK i \in StoreSlot :
          /\ i \in ReplaySlots /\ replay'[i] # Empty
          /\ replay'[i].sequence = sequence /\ replay'[i].stored_tick = tick
    BY <1>1, <1>2, ReplayStoreWrites
  <2>2. i \in Stored'
    BY <2>1 DEF Stored, ReplaySlots, Empty
  <2>3. QED
    BY <1>1, <1>2, <1>6, <2>1, <2>2 DEF Guarded
<1>9. \A i \in 1..n : tick - executions[i].tick <= Retention => Guarded(executions[i])'
  <2> SUFFICES ASSUME NEW i \in 1..n, tick - executions[i].tick <= Retention
               PROVE  Guarded(executions[i])'
    OBVIOUS
  <2>1. PICK e \in Execution : e = executions[i] /\ e.tick <= tick /\ Guarded(e)
    BY <1>5
  <2>2. Guarded(e)'
    BY <1>1, <1>2, <2>1, StoreKeepsGuard
  <2>3. QED
    BY <1>3, <2>1, <2>2 DEF Guarded
<1>10. EvictedAreGuarded'
  <2> HIDE DEF n, Execution
  <2>1. \A i \in 1..n + 1 :
          tick - executions'[i].tick <= Retention => Guarded(executions[i])'
    BY <1>2, <1>3, <1>8, <1>9 DEF Guarded
  <2>2. QED
    BY <1>1, <1>3, <2>1 DEF EvictedAreGuarded, Guarded, n
<1>11. \A i \in 1..n : executions[i].sequence = sequence => tick - executions[i].tick > Retention
  <2> SUFFICES ASSUME NEW i \in 1..n, executions[i].sequence = sequence
               PROVE  tick - executions[i].tick > Retention
    OBVIOUS
  <2>1. PICK e \in Execution :
          e = executions[i] /\ e.tick \in Nat /\ e.sequence = sequence
          /\ (tick - e.tick <= Retention => Guarded(e))
    <3>1. PICK e \in Execution :
            e = executions[i] /\ e.tick <= tick /\ (tick - e.tick <= Retention => Guarded(e))
      BY <1>5
    <3>2. e.tick \in Nat
      BY <3>1
    <3>3. QED
      BY <3>1, <3>2
  <2>2. Guarded(e) => tick - e.tick > Retention
    BY <1>1, <1>2, <2>1, FreshIsNew
  <2>3. tick \in Nat /\ e.tick \in Nat /\ Retention \in Nat
    BY <1>2, <2>1, ControlAssumption
  <2>4. tick - e.tick <= Retention \/ tick - e.tick > Retention
    BY <2>3
  <2>5. QED
    BY <2>1, <2>2, <2>4, Zenon
<1>12. \A i, j \in 1..n + 1 :
         i < j /\ executions'[i].sequence = executions'[j].sequence =>
           executions'[j].tick - executions'[i].tick > Retention
  <2> SUFFICES ASSUME NEW i \in 1..n + 1, NEW j \in 1..n + 1, i < j,
                      executions'[i].sequence = executions'[j].sequence
               PROVE  executions'[j].tick - executions'[i].tick > Retention
    OBVIOUS
  <2> HIDE DEF n, Execution
  <2>1. CASE j = n + 1
    BY <1>2, <1>3, <1>6, <1>11, <2>1
  <2>2. CASE j \in 1..n
    <3>1. i \in 1..n /\ n = Len(executions)
      BY <1>2, <2>2 DEF n
    <3>2. executions'[i] = executions[i] /\ executions'[j] = executions[j]
      BY <1>3, <2>2, <3>1, Zenon
    <3>3. executions[i].sequence = executions[j].sequence
      BY <3>2, Zenon
    <3>4. executions[j].tick - executions[i].tick > Retention
      BY <2>2, <3>1, <3>3, Zenon DEF GateInv, ExecutesOnce
    <3>5. QED
      BY <3>2, <3>4, Zenon
  <2>3. QED
    BY <1>2, <2>1, <2>2
<1>13. QED
  BY <1>3, <1>4, <1>7, <1>10, <1>12 DEF GateInv, ExecutesOnce

(* A step that touches neither the cache nor the history.                   *)
LEMMA GateQuietStep ==
  ASSUME GateInv, UNCHANGED <<session, replay, executions>>,
         negotiated' \in BOOLEAN, tick' \in tick..MaxTick
  PROVE  GateInv'
<1>1. tick \in Nat /\ tick' \in Nat /\ tick <= tick'
  BY DEF GateInv, GateTypeOK
<1>2. GateTypeOK'
  BY <1>1 DEF GateInv, GateTypeOK, session
<1>3. \A i \in 1..Len(executions) : executions[i].tick \in Nat
  <2>1. \A i \in 1..Len(executions) :
          executions[i] \in [sequence: RequestSequences, tick: 0..MaxTick]
    BY ElementOfSeq DEF GateInv, GateTypeOK
  <2>2. QED
    BY <2>1
<1>4. GatePast'
  BY <1>1, <1>3 DEF GateInv, GatePast
<1>5. Stored' = Stored
  BY DEF Stored
<1>6. \A i \in 1..Len(executions) :
        tick' - executions[i].tick <= Retention => tick - executions[i].tick <= Retention
  BY <1>1, <1>3, ControlAssumption
<1>7. EvictedAreGuarded'
  BY <1>5, <1>6 DEF GateInv, ExecutesOnce, EvictedAreGuarded
<1>8. QED
  BY <1>2, <1>4, <1>7 DEF GateInv, ExecutesOnce

(* Every step keeps the invariant. *)
LEMMA GateNextStep ==
  ASSUME GateInv, [GateNext]_gate
  PROVE  GateInv'
<1>1. ASSUME NEW sequence \in RequestSequences, NEW request \in Requests,
             HandleFrame(sequence, request)
      PROVE  GateInv'
  <2>1. \A status \in Status : Refuse(sequence, request, status) => GateInv'
    BY GateRefuseStep
  <2>2. \/ \E status \in Status : Refuse(sequence, request, status)
        \/ Capture(sequence, request)
        \/ ResetDiagnostics(sequence, request)
    BY <1>1 DEF HandleFrame, IncompatibleVersion, BeforeHello, Busy, Malformed, CasMismatch,
                Status
  <2>3. CASE Capture(sequence, request)
    <3>1. config_generation + 1 \in 1..MaxGeneration /\ diag_generation \in 1..MaxGeneration
      BY <2>3 DEF Capture, GateInv, GateTypeOK
    <3>2. QED
      BY <2>3, <3>1, GateExecutesStep DEF Capture
  <2>4. CASE ResetDiagnostics(sequence, request)
    <3>1. diag_generation + 1 \in 1..MaxGeneration
      BY <2>4, ControlAssumption DEF ResetDiagnostics, GateInv, GateTypeOK
    <3>2. QED
      BY <2>4, <3>1, GateExecutesStep DEF ResetDiagnostics, GateInv, GateTypeOK
  <2>5. QED
    BY <2>1, <2>2, <2>3, <2>4
<1>2. CASE Hello
  BY <1>2, GateQuietStep DEF Hello, GateInv, GateTypeOK
<1>3. CASE GateTick
  BY <1>3, GateQuietStep, ControlAssumption DEF GateTick, GateInv, GateTypeOK
<1>4. CASE UNCHANGED gate
  BY <1>4, GateQuietStep DEF gate, session, GateInv, GateTypeOK
<1>5. QED
  BY <1>1, <1>2, <1>3, <1>4 DEF GateNext
-----------------------------------------------------------------------------
(* The theorems.                                                            *)

(* The inductive invariant of the request gate.                             *)
LEMMA GateInvariant == GateSpec => []GateInv
<1>1. GateInv /\ [GateNext]_gate => GateInv'
  BY GateNextStep
<1>2. QED
  BY <1>1, GateInitInv, PTL DEF GateSpec

(* Type correctness of the session behind the gate: the generations, and a  *)
(* cache that holds entries of requests or nothing.                         *)
THEOREM GateTypeCorrect == GateSpec => []GateTypeOK
<1>1. GateInv => GateTypeOK
  BY DEF GateInv
<1>2. QED
  BY <1>1, GateInvariant, PTL

(* replay_hit, replay_store and replay_cache_full_of_retention together let *)
(* a sequence execute at most once within the retention, whatever the size  *)
(* of the cache, the requests, and the refusals that push entries out of it.*)
THEOREM ExecutedOnce == GateSpec => []ExecutesOnce
<1>1. GateInv => ExecutesOnce
  BY DEF GateInv
<1>2. QED
  BY <1>1, GateInvariant, PTL
=============================================================================
