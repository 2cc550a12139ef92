----------------------------- MODULE Reconcile -----------------------------
(***************************************************************************)
(* scripts/phase3/reconcile_p3b_backpressure.py: does a capture explain    *)
(* every EVENT sequence it misses?  The operators follow the functions;    *)
(* Exact and Recovered are what they are for, over sets of sequences.      *)
(*                                                                         *)
(* A capture is what can_hil_capture (Rust, external) left in a run        *)
(* directory: events.csv and data_loss.csv as sequences of rows, the       *)
(* event_sequence column of frames.csv as a set, and summary.json.         *)
(***************************************************************************)
EXTENDS Integers, Sequences, FiniteSets
LOCAL INSTANCE SequencesExt

CONSTANT Modulus  \* 2^32 in the code: sequences are nonzero residues

ASSUME ModulusAssumption == Modulus \in Nat /\ Modulus >= 8 /\ Modulus % 2 = 0

EventSequences == 1..(Modulus - 1)

EventDomain == 1
ChannelDomain == 2

Captures == [events: Seq([sequence: Nat, type: {"frames", "loss"}]),
             losses: Seq([sequence: Nat, domain: {EventDomain, ChannelDomain},
                          first: Nat, last: Nat, count: Nat]),
             frames: SUBSET Nat,
             missing: Nat,     \* summary: forward_missing_records
             drops: BOOLEAN]   \* summary: device, queue or ring drops
-----------------------------------------------------------------------------
next_nonzero(value) == LET next == (value + 1) % Modulus IN IF next = 0 THEN 1 ELSE next

previous_nonzero(value) == IF value = 1 THEN Modulus - 1 ELSE value - 1

(* Mutant: the wrap is not a wrap.                                          *)
SplitNever(first, last) == {<<first, last>>}

split_nonzero_range(first, last) ==
  IF first <= last THEN {<<first, last>>} ELSE {<<first, Modulus - 1>>, <<1, last>>}

(* The ranges are kept as a sequence: two equal ranges count twice.         *)
RangesOf(set) == SetToSortSeq(set, LAMBDA r, s : r[1] < s[1])

merge_ranges(ranges) ==
  LET Extend(merged, range) ==
        IF merged = <<>> \/ range[1] > Last(merged)[2] + 1
          THEN Append(merged, range)
          ELSE [merged EXCEPT ![Len(merged)][2] = IF @ > range[2] THEN @ ELSE range[2]]
      Before(r, s) == r[1] < s[1] \/ (r[1] = s[1] /\ r[2] < s[2])
  IN FoldLeft(Extend, <<>>, SortSeq(ranges, Before))

range_count(ranges) == FoldLeft(LAMBDA n, range : n + range[2] - range[1] + 1, 0, ranges)

(* The gaps between consecutive rows; a row out of range is skipped.        *)
observed_missing_ranges(events) ==
  LET Step(sum, row) ==
        LET expected == next_nonzero(sum.previous)
            back == (row.sequence + Modulus - expected) % Modulus >= Modulus \div 2
            jump == sum.previous # 0 /\ row.sequence # expected
        IN IF row.sequence \notin EventSequences
             THEN [sum EXCEPT !.ok = FALSE]
             ELSE [previous |-> row.sequence,
                   seen |-> sum.seen \cup {row.sequence},
                   ok |-> sum.ok /\ row.sequence \notin sum.seen /\ ~(jump /\ back),
                   ranges |-> IF jump /\ ~back
                                THEN sum.ranges \o RangesOf(split_nonzero_range(
                                                     expected, previous_nonzero(row.sequence)))
                                ELSE sum.ranges]
      sum == FoldLeft(Step, [previous |-> 0, seen |-> {}, ok |-> TRUE, ranges |-> <<>>], events)
  IN [ranges |-> merge_ranges(sum.ranges), ok |-> sum.ok]

(* The EVENT-domain rows of data_loss.csv.                                  *)
declared_loss_ranges(losses) ==
  LET Step(sum, row) ==
        LET split == RangesOf(split_nonzero_range(row.first, row.last))
        IN IF row.domain # EventDomain THEN sum
           ELSE IF {row.first, row.last} \subseteq EventSequences
             THEN [ranges |-> sum.ranges \o split, count |-> sum.count + row.count,
                   ok |-> sum.ok /\ row.count = range_count(split)]
             ELSE [sum EXCEPT !.ok = FALSE]
      sum == FoldLeft(Step, [ranges |-> <<>>, count |-> 0, ok |-> TRUE], losses)
      merged == merge_ranges(sum.ranges)
  IN [ranges |-> merged, count |-> sum.count,
      ok |-> sum.ok /\ range_count(merged) = sum.count]

LossSequences(losses) == {losses[i].sequence : i \in {j \in DOMAIN losses : losses[j].domain = EventDomain}}

ChannelDropped(losses) ==
  FoldLeft(LAMBDA n, row : IF row.domain = ChannelDomain THEN n + row.count ELSE n, 0, losses)

reconcile(capture) ==
  LET observed == observed_missing_ranges(capture.events)
      declared == declared_loss_ranges(capture.losses)
      noticed == LossSequences(capture.losses)
      ledger == {row \in {capture.events[i] : i \in DOMAIN capture.events} : row.type = "loss"}
      event == /\ observed.ok /\ declared.ok
               /\ noticed = {row.sequence : row \in ledger}
               /\ observed.ranges = declared.ranges
      after == {s \in capture.frames : \A loss \in noticed : s > loss}
      recovery == after # {} /\ ~capture.drops
      channel == capture.missing = 0 \/ ChannelDropped(capture.losses) = capture.missing
  IN [event |-> event, recovery |-> recovery, channel |-> channel,
      observed |-> range_count(observed.ranges), declared |-> declared.count,
      status |-> IF ~(event /\ recovery) THEN "FAIL" ELSE IF channel THEN "PASS" ELSE "PARTIAL"]
-----------------------------------------------------------------------------
(* The reference.  Steps from one sequence to another, skipping zero.       *)
Distance(from, to) == IF from <= to THEN to - from ELSE to - from + Modulus - 1

Path(first, last) == {s \in EventSequences : Distance(first, s) <= Distance(first, last)}

Delivered(capture) == {capture.events[i].sequence : i \in DOMAIN capture.events}

(* The events were recorded once each and in the order of the stream.       *)
InStreamOrder(events) ==
  /\ \A i \in DOMAIN events : events[i].sequence \in EventSequences
  /\ \A i, j \in DOMAIN events :
       i < j => Distance(events[1].sequence, events[i].sequence)
                  < Distance(events[1].sequence, events[j].sequence)

Missing(capture) ==
  IF capture.events = <<>> THEN {}
  ELSE Path(capture.events[1].sequence, Last(capture.events).sequence) \ Delivered(capture)

Declares(row) == Path(row.first, row.last)

(* Every missing sequence is declared by exactly one notice, no delivered   *)
(* one is, and each notice is itself an event of the capture.               *)
Exact(capture) ==
  LET rows == {i \in DOMAIN capture.losses : capture.losses[i].domain = EventDomain}
      row(i) == capture.losses[i]
  IN /\ InStreamOrder(capture.events)
     /\ \A i \in rows : /\ {row(i).first, row(i).last} \subseteq EventSequences
                        /\ row(i).count = Cardinality(Declares(row(i)))
     /\ \A i, j \in rows : i # j => Declares(row(i)) \cap Declares(row(j)) = {}
     /\ UNION {Declares(row(i)) : i \in rows} = Missing(capture)
     /\ LossSequences(capture.losses)
          = {capture.events[i].sequence : i \in {j \in DOMAIN capture.events :
                                                   capture.events[j].type = "loss"}}

(* Frames follow the last loss notice in the order of the stream.           *)
Recovered(capture) ==
  /\ ~capture.drops
  /\ \E s \in capture.frames : \A loss \in LossSequences(capture.losses) :
       Distance(capture.events[1].sequence, s) > Distance(capture.events[1].sequence, loss)

Wraps(capture) == \E i \in DOMAIN capture.events : capture.events[i].sequence < capture.events[1].sequence
=============================================================================
