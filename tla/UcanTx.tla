------------------------------- MODULE UcanTx -------------------------------
(***************************************************************************)
(* The transmit path of protocol/v1/c/ucan_session.c: arming, CAN_TX       *)
(* admission, the result ledger, completion, cancel, expiry and slot       *)
(* reclaim.  One channel and one rule; the wire checks that end in         *)
(* INVALID_ARGUMENT before any state is read are left out.  Whether a      *)
(* result finds a critical slot is the business of UcanEgress: here any    *)
(* number of the lowest slots may.                                         *)
(***************************************************************************)
EXTENDS UcanClock, Sequences, FiniteSets

CONSTANTS
  Tags,        \* client tags
  NSlots,      \* UCAN_SESSION_MAX_TX_SLOTS
  Deadlines,   \* deadline_tick values a CAN_TX may carry, 0 for none
  Guard,       \* tag_reuse_guard_ms in ticks
  ArmTimeout,  \* TX_ARM timeout_ms in ticks
  TickHz,      \* cfg->tick_hz
  Fill,        \* per bucket: tokens per second
  Capacity,    \* per bucket: most tokens
  MaxEpoch,    \* bound: last arm epoch
  MaxAccept    \* bound: frames accepted

Bucket == {"rule", "aggregate"}
Slots  == 1..NSlots

ASSUME TxAssumption ==
  /\ NSlots \in Nat \ {0}
  /\ Deadlines \subseteq Nat
  /\ Guard \in Nat
  /\ ArmTimeout \in Nat \ {0}
  /\ TickHz \in Nat \ {0}
  /\ Fill \in [Bucket -> Nat \ {0}]
  /\ Capacity \in [Bucket -> Nat \ {0}]
  /\ \A b \in Bucket : Capacity[b] <= Fill[b]
  /\ MaxTick \in Nat /\ MaxEpoch \in Nat /\ MaxAccept \in Nat

VARIABLES
  tx_armed,
  arm_epoch,
  arm_expiry_tick,
  channel_active,  \* channels[0].state is ACTIVE (2)
  tx_ledger,       \* per slot: a frame's record, or Free
  tokens,          \* rule_tokens and agg_tokens
  last_tick,       \* rule_last_tick and agg_last_tick
  (* the owner of the CAN controller, and history: *)
  armed_from,      \* the epoch of the first TX_ARM since TX was last disarmed
  hardware,        \* frames handed to the owner and not completed by it
  accepted,        \* frames accepted so far: a frame's number is its place
  announced,       \* numbers of frames whose result was queued for the host
  accept_ticks     \* ticks of the acceptances since the last TX_ARM

vars == <<tick, tx_armed, arm_epoch, arm_expiry_tick, channel_active, tx_ledger,
          tokens, last_tick, armed_from, hardware, accepted, announced, accept_ticks>>
arming == <<tx_armed, arm_epoch, arm_expiry_tick, armed_from>>
admission == <<tokens, last_tick, accepted, accept_ticks>>

Result == {"SENT", "CANCELLED", "TIMEOUT", "BUS_ERROR", "DISARMED"}
Free == [state |-> "FREE"]
Slot == [state: {"PENDING", "FINAL"}, tag: Tags, epoch: Nat, deadline: Nat,
         submitted: BOOLEAN, result: Result \cup {"NONE"}, completed: Nat,
         delivery_pending: BOOLEAN, number: Nat]

TypeOK ==
  /\ tick \in 0..MaxTick
  /\ tx_armed \in BOOLEAN
  /\ arm_epoch \in 1..MaxEpoch + 1
  /\ arm_expiry_tick \in Nat
  /\ channel_active \in BOOLEAN
  /\ tx_ledger \in [Slots -> Slot \cup {Free}]
  /\ \A b \in Bucket : tokens[b] \in 0..Capacity[b]
  /\ last_tick \in [Bucket -> Nat]
  /\ armed_from \in 1..MaxEpoch + 1
  /\ hardware \in SUBSET (Tags \X Nat)
  /\ accepted \in 0..MaxAccept
  /\ announced \in SUBSET (1..MaxAccept)
  /\ accept_ticks \in Seq(Nat)

Init ==
  /\ tick = 0
  /\ tx_armed = FALSE /\ arm_epoch = 1 /\ arm_expiry_tick = 0
  /\ channel_active \in BOOLEAN
  /\ tx_ledger = [i \in Slots |-> Free]
  /\ tokens = [b \in Bucket |-> 0]
  /\ last_tick = [b \in Bucket |-> 0]
  /\ armed_from = 1
  /\ hardware = {}
  /\ accepted = 0 /\ announced = {} /\ accept_ticks = <<>>
-----------------------------------------------------------------------------
Occupied == {i \in Slots : tx_ledger[i] # Free}
Pending  == {i \in Occupied : tx_ledger[i].state = "PENDING"}
Owing    == {i \in Occupied : tx_ledger[i].delivery_pending}

Least(S) == CHOOSE i \in S : \A j \in S : i <= j

(* find_tag_slot and find_tag_slot_any: every match; the code takes the     *)
(* first.                                                                   *)
TagSlots(tag, epoch) == {i \in Occupied : tx_ledger[i].tag = tag
                                        /\ tx_ledger[i].epoch = epoch}
TagSlotsAny(tag) == {i \in Occupied : tx_ledger[i].tag = tag}

(* The slots in `done' become FINAL with `result', at tick `now'; the       *)
(* results of those up to slot `last' get a critical slot.                  *)
Finalised(done, result, now, last) ==
  [i \in Slots |->
     IF i \in done
     THEN [tx_ledger[i] EXCEPT !.state = "FINAL", !.result = result,
             !.completed = now, !.delivery_pending = i > last]
     ELSE tx_ledger[i]]

Finalise(done, result, last) ==
  /\ tx_ledger' = Finalised(done, result, tick, last)
  /\ announced' = announced \cup {tx_ledger[i].number : i \in {j \in done : j <= last}}

(* Mutant: a slot is reclaimed though its result is still owed.             *)
ReclaimableOwing(slot, now) ==
  slot.state = "FINAL" /\ now - slot.completed >= Guard

(* The guard of the reclaim loop in ucan_session_tick.                      *)
Reclaimable(slot, now) ==
  /\ slot.state = "FINAL"
  /\ ~slot.delivery_pending
  /\ now - slot.completed >= Guard

(* ucan_session_tick: expiry finalises every PENDING frame as TIMEOUT and   *)
(* disarms, then slots past the guard are reclaimed.                        *)
Tick(ticks, last) ==
  LET now     == tick + ticks
      expired == tx_armed /\ arm_expiry_tick # 0 /\ now >= arm_expiry_tick
      done    == IF expired THEN Pending ELSE {}
      ledger  == Finalised(done, "TIMEOUT", now, last)
  IN  /\ now <= MaxTick
      /\ expired => arm_epoch <= MaxEpoch
      /\ tick' = now
      /\ announced' = announced \cup {tx_ledger[i].number : i \in {j \in done : j <= last}}
      /\ tx_ledger' = [i \in Slots |->
                         IF ledger[i] # Free /\ Reclaimable(ledger[i], now)
                         THEN Free ELSE ledger[i]]
      /\ IF expired THEN /\ tx_armed' = FALSE /\ arm_expiry_tick' = 0
                         /\ arm_epoch' = arm_epoch + 1 /\ UNCHANGED armed_from
                    ELSE UNCHANGED arming
      /\ UNCHANGED <<channel_active, hardware, admission>>

(* TX_ARM past its checks.  It does not ask whether TX is armed already: a  *)
(* renewal takes a new epoch and leaves the frames of the old one waiting.  *)
TxArm ==
  /\ arm_epoch <= MaxEpoch
  /\ channel_active
  /\ arm_epoch' = arm_epoch + 1
  /\ tx_armed' = TRUE
  /\ arm_expiry_tick' = tick + ArmTimeout
  /\ armed_from' = IF tx_armed THEN armed_from ELSE arm_epoch'
  /\ tokens' = Capacity
  /\ last_tick' = [b \in Bucket |-> tick]
  /\ accept_ticks' = <<>>
  /\ UNCHANGED <<tick, channel_active, tx_ledger, hardware, accepted, announced>>

(* Mutant: disarming leaves the queued frames alone.                        *)
DisarmOnly(last) ==
  /\ tx_armed' = FALSE /\ arm_expiry_tick' = 0 /\ arm_epoch' = arm_epoch + 1
  /\ UNCHANGED <<armed_from, tx_ledger, announced>>

(* disarm_tx, and TX_DISARM, which does the same to an armed session whose  *)
(* epoch it names.                                                          *)
Disarm(last) ==
  /\ Finalise(Pending, "DISARMED", last)
  /\ tx_armed' = FALSE
  /\ arm_expiry_tick' = 0
  /\ arm_epoch' = arm_epoch + 1
  /\ UNCHANGED armed_from

TxDisarm(epoch, last) ==
  /\ arm_epoch <= MaxEpoch
  /\ tx_armed /\ epoch = arm_epoch
  /\ Disarm(last)
  /\ UNCHANGED <<tick, channel_active, hardware, admission>>

(* CONFIG_CHANNEL, SET_FILTERS, CLEAR_FILTERS (any resulting state) and     *)
(* bus-off in note_channel_state: disarm_tx, which returns if not armed.    *)
Reconfigure(active, last) ==
  /\ IF tx_armed THEN arm_epoch <= MaxEpoch /\ Disarm(last)
                 ELSE UNCHANGED <<arming, tx_ledger, announced>>
  /\ channel_active' = active
  /\ UNCHANGED <<tick, hardware, admission>>

(* Any other edge in note_channel_state: nothing is disarmed.               *)
ChannelEdge(active) ==
  /\ channel_active' = active
  /\ UNCHANGED <<tick, arming, tx_ledger, hardware, announced, admission>>
-----------------------------------------------------------------------------
(* refill_rule_tokens and refill_agg_tokens.                                *)
Lesser(a, b) == IF a <= b THEN a ELSE b

(* Mutant: the bucket fills past its capacity.                              *)
RefillUncapped(b) == tokens[b] + (Fill[b] * (tick - last_tick[b])) \div TickHz

Refilled(b) ==
  LET elapsed == tick - last_tick[b]
  IN  IF elapsed >= TickHz THEN Capacity[b]
      ELSE Lesser(Capacity[b], tokens[b] + (Fill[b] * elapsed) \div TickHz)

(* The checks of CAN_TX in the order of the code; all but the last are the  *)
(* status of a response that changes nothing.  A frame's bytes are its      *)
(* deadline here.                                                           *)
CanTxStatus(tag, epoch, deadline) ==
  IF ~tx_armed \/ epoch # arm_epoch \/ ~channel_active THEN "BAD_STATE"
  ELSE IF deadline # 0 /\ deadline <= tick              THEN "TIMEOUT"
  ELSE IF TagSlots(tag, epoch) # {}
       THEN IF tx_ledger[Least(TagSlots(tag, epoch))].deadline = deadline
            THEN "LEDGER" ELSE "INVALID_ARGUMENT"
  ELSE IF Occupied = Slots                              THEN "NO_RESOURCE"
  ELSE "ADMISSION"

(* CAN_TX that comes to admission: refill, then BUSY without tokens or with *)
(* too much reserved load (`overloaded'), else a PENDING slot.              *)
CanTx(tag, epoch, deadline, overloaded) ==
  LET full == [b \in Bucket |-> Refilled(b)]
      slot == [state |-> "PENDING", tag |-> tag, epoch |-> epoch,
               deadline |-> deadline, submitted |-> FALSE, result |-> "NONE",
               completed |-> 0, delivery_pending |-> FALSE,
               number |-> accepted + 1]
  IN  /\ CanTxStatus(tag, epoch, deadline) = "ADMISSION"
      /\ last_tick' = [b \in Bucket |-> tick]
      /\ IF overloaded \/ \E b \in Bucket : full[b] < 1
         THEN tokens' = full /\ UNCHANGED <<tx_ledger, accepted, accept_ticks>>
         ELSE /\ accepted < MaxAccept
              /\ tokens' = [b \in Bucket |-> full[b] - 1]
              /\ tx_ledger' = [tx_ledger EXCEPT ![Least(Slots \ Occupied)] = slot]
              /\ accepted' = accepted + 1
              /\ accept_ticks' = Append(accept_ticks, tick)
      /\ UNCHANGED <<tick, arming, channel_active, hardware, announced>>

(* CAN_TX_CANCEL of a frame that is still PENDING; any other changes        *)
(* nothing.                                                                 *)
CanTxCancel(tag, epoch, last) ==
  /\ TagSlots(tag, epoch) # {}
  /\ LET i == Least(TagSlots(tag, epoch))
     IN  i \in Pending /\ Finalise({i}, "CANCELLED", last)
  /\ UNCHANGED <<tick, arming, channel_active, hardware, admission>>
-----------------------------------------------------------------------------
(* Mutant: a frame that is final already is completed again.                *)
CompleteAgain(tag, result, ledger, last) ==
  LET slots == {i \in Slots : ledger[i] # Free /\ ledger[i].tag = tag}
      i     == Least(slots)
  IN  IF slots = {}
      THEN tx_ledger' = ledger /\ UNCHANGED announced
      ELSE /\ tx_ledger' = [ledger EXCEPT
                ![i].state = "FINAL", ![i].completed = tick, ![i].result = result,
                ![i].delivery_pending = i > last]
           /\ announced' = IF i > last THEN announced
                                       ELSE announced \cup {ledger[i].number}

(* ucan_session_can_tx_complete: the frame is looked up by its tag alone,   *)
(* and a late completion counts as TIMEOUT.                                 *)
Complete(tag, result, ledger, last) ==
  LET slots == {i \in Slots : ledger[i] # Free /\ ledger[i].tag = tag}
      i     == Least(slots)
      late  == ledger[i].deadline # 0 /\ tick > ledger[i].deadline
  IN  IF slots = {} \/ ledger[i].state = "FINAL"
      THEN tx_ledger' = ledger /\ UNCHANGED announced
      ELSE /\ tx_ledger' = [ledger EXCEPT
                ![i].state = "FINAL", ![i].completed = tick,
                ![i].result = IF late THEN "TIMEOUT" ELSE result,
                ![i].delivery_pending = i > last]
           /\ announced' = IF i > last THEN announced
                                       ELSE announced \cup {ledger[i].number}

(* ucan_session_take_pending_tx: the first frame not yet submitted goes to  *)
(* the owner, which takes it, or refuses: can_tx_submit_failed.             *)
TakePendingTx(taken, last) ==
  LET new == {i \in Pending : ~tx_ledger[i].submitted}
      i   == Least(new)
      ledger == [tx_ledger EXCEPT ![i].submitted = TRUE]
  IN  /\ new # {}
      /\ IF taken
         THEN /\ hardware' = hardware \cup {<<tx_ledger[i].tag, tx_ledger[i].number>>}
              /\ tx_ledger' = ledger
              /\ UNCHANGED announced
         ELSE /\ Complete(tx_ledger[i].tag, "BUS_ERROR", ledger, last)
              /\ UNCHANGED hardware
      /\ UNCHANGED <<tick, arming, channel_active, admission>>

(* The owner completes a frame it took, however long ago.                   *)
CanTxComplete(frame, result, last) ==
  /\ frame \in hardware
  /\ hardware' = hardware \ {frame}
  /\ Complete(frame[1], result, tx_ledger, last)
  /\ UNCHANGED <<tick, arming, channel_active, admission>>

(* The retry in flush_pending: the results of the slots up to `last' get in.*)
FlushPending(last) ==
  /\ last >= 1
  /\ \E i \in Owing : i <= last
  /\ tx_ledger' = [i \in Slots |-> IF i \in Owing /\ i <= last
                                   THEN [tx_ledger[i] EXCEPT !.delivery_pending = FALSE]
                                   ELSE tx_ledger[i]]
  /\ announced' = announced \cup {tx_ledger[i].number : i \in {j \in Owing : j <= last}}
  /\ UNCHANGED <<tick, arming, channel_active, hardware, admission>>
-----------------------------------------------------------------------------
Next ==
  \/ \E ticks \in 1..2, last \in 0..NSlots : Tick(ticks, last)
  \/ TxArm
  \/ \E epoch \in 1..MaxEpoch, last \in 0..NSlots : TxDisarm(epoch, last)
  \/ \E active \in BOOLEAN, last \in 0..NSlots : Reconfigure(active, last)
  \/ \E active \in BOOLEAN : ChannelEdge(active)
  \/ \E tag \in Tags, epoch \in 1..MaxEpoch + 1, deadline \in Deadlines,
        overloaded \in BOOLEAN : CanTx(tag, epoch, deadline, overloaded)
  \/ \E tag \in Tags, epoch \in 1..MaxEpoch + 1, last \in 0..NSlots :
       CanTxCancel(tag, epoch, last)
  \/ \E taken \in BOOLEAN, last \in 0..NSlots : TakePendingTx(taken, last)
  \/ \E frame \in hardware, result \in {"SENT", "BUS_ERROR"}, last \in 0..NSlots :
       CanTxComplete(frame, result, last)
  \/ \E last \in 0..NSlots : FlushPending(last)

Spec == Init /\ [][Next]_vars
-----------------------------------------------------------------------------
(* Properties.                                                              *)

(* A frame waits for the bus only while TX is armed and the arm has not run *)
(* out, and only if TX was not disarmed since it was accepted: no frame     *)
(* comes through disarm, expiry, reconfiguration or bus-off and a later     *)
(* TX_ARM.  A TX_ARM of an armed session renews the authorisation of the    *)
(* frames that wait (PendingOfEpoch).                                       *)
PendingAuthorised ==
  \A i \in Pending : /\ tx_armed /\ tick < arm_expiry_tick
                     /\ tx_ledger[i].epoch \in armed_from..arm_epoch

(* The epoch that each TX_ARM advances binds CAN_TX (usb-can-protocol-v1.md, *)
(* line 450): a frame waits only under the epoch that admitted it.          *)
PendingOfEpoch == \A i \in Pending : tx_ledger[i].epoch = arm_epoch

(* CAN_TX is deduplicated by epoch and tag: the ledger never holds two      *)
(* frames of one key, whatever replays and reclaims happen in between.      *)
LedgerKeyUnique ==
  \A i, j \in Occupied :
     i # j => <<tx_ledger[i].tag, tx_ledger[i].epoch>>
                # <<tx_ledger[j].tag, tx_ledger[j].epoch>>

(* Every accepted frame is waiting, or owes its result, or has announced it,*)
(* and only one of these: no path through completion, cancel, disarm, expiry*)
(* and reclaim loses a result or announces a second.  A replay finds its    *)
(* frame by the key, so this stands on the keys being unique.               *)
AcceptedAnswered ==
  /\ LedgerKeyUnique
  /\ \A n \in 1..accepted :
     Cardinality({i \in Pending : tx_ledger[i].number = n})
       + Cardinality({i \in Owing : tx_ledger[i].number = n})
       + Cardinality({n} \cap announced) = 1

(* A final result never changes, and its slot is not reused before the guard*)
(* has run and the result was queued.                                       *)
ResultStable ==
  [][\A i \in Slots :
       tx_ledger[i] # Free /\ tx_ledger[i].state = "FINAL" =>
         \/ /\ tx_ledger'[i] # Free
            /\ [tx_ledger'[i] EXCEPT !.delivery_pending = FALSE]
                 = [tx_ledger[i] EXCEPT !.delivery_pending = FALSE]
         \/ /\ tx_ledger'[i] = Free
            /\ ~tx_ledger[i].delivery_pending
            /\ tick' - tx_ledger[i].completed >= Guard]_vars

(* Admission keeps to both buckets over every interval of one arm: a burst  *)
(* of at most the capacity, and the fill rate beyond it.                    *)
RateBound ==
  \A b \in Bucket : \A i, j \in 1..Len(accept_ticks) :
     i <= j => j - i + 1 <=
       Capacity[b] + (Fill[b] * (accept_ticks[j] - accept_ticks[i])) \div TickHz

(* "Hardware TX completion hook: exactly one semantic final per client tag":*)
(* a submitted frame that the owner no longer holds is FINAL.               *)
CompletionReachesFrame ==
  \A i \in Pending : tx_ledger[i].submitted =>
     <<tx_ledger[i].tag, tx_ledger[i].number>> \in hardware

(* "fill=rule.max_frames_per_s tokens/s": when the fill rate has earned a   *)
(* token since the last accepted frame, one is there, however often the host*)
(* has asked in between.                                                    *)
BucketFills ==
  accept_ticks # <<>> /\ tx_armed =>
    \A b \in Bucket :
      Fill[b] * (tick - accept_ticks[Len(accept_ticks)]) >= TickHz => Refilled(b) >= 1
=============================================================================
