----------------------------- MODULE MCEvidence -----------------------------
(* A small instance of EvidenceChain: sequences modulo 16, captures of four *)
(* events around the wrap, one alternative or a few for every other input.  *)
EXTENDS EvidenceChain
LOCAL INSTANCE SequencesExt
LOCAL INSTANCE FiniteSetsExt

CONSTANT Starts  \* the first sequence of a capture

Length == 4

At_(start, i) == ((start + i - 2) % (Modulus - 1)) + 1

(* What an honest session sends when the events of one class are lost: a    *)
(* notice declares each stretch lost since the notice before it.            *)
Honest(start, fate) ==
  LET notices == {i \in 1..Length : fate[i] = "loss"}
      kept == SetToSortSeq({i \in 1..Length : fate[i] # "lost"}, <)
      stretches(i) ==
        {<<a, b>> \in (1..i - 1) \X (1..i - 1) :
           /\ a <= b /\ \A j \in a..b : fate[j] = "lost"
           /\ (a = 1 \/ fate[a - 1] # "lost") /\ fate[b + 1] # "lost"
           /\ \A j \in b..i - 1 : j \notin notices}
      rows(i) == [s \in stretches(i) |->
                    [sequence |-> At_(start, i), domain |-> EventDomain, first |-> At_(start, s[1]),
                     last |-> At_(start, s[2]), count |-> s[2] - s[1] + 1]]
      all == UNION {{rows(i)[s] : s \in stretches(i)} : i \in notices}
  IN [events |-> [k \in DOMAIN kept |-> [sequence |-> At_(start, kept[k]), type |-> fate[kept[k]]]],
      losses |-> SetToSortSeq(all, LAMBDA r, s : r.sequence < s.sequence
                                                   \/ (r.sequence = s.sequence /\ r.first < s.first)),
      frames |-> {At_(start, i) : i \in {j \in 1..Length : fate[j] = "frames"}},
      missing |-> 1, drops |-> FALSE]

(* One thing wrong in it.                                                   *)
Spoiled(data) ==
  UNION {{[data EXCEPT !.losses[i].count = @ + 1], [data EXCEPT !.losses[i].last = next_nonzero(@)],
          [data EXCEPT !.losses[i].first = 0], [data EXCEPT !.losses[i].domain = ChannelDomain],
          [data EXCEPT !.losses = Append(@, @[i])], [data EXCEPT !.losses = RemoveAt(@, i)]}
         : i \in DOMAIN data.losses}
    \cup UNION {{[data EXCEPT !.events = Append(@, @[i])], [data EXCEPT !.events[i].sequence = 0]}
                : i \in DOMAIN data.events}
    \cup {[data EXCEPT !.drops = TRUE], [data EXCEPT !.missing = 0]}

Data == LET honest == {Honest(start, fate) : start \in Starts,
                                             fate \in [1..Length -> {"frames", "loss", "lost"}]}
        IN honest \cup UNION {Spoiled(data) : data \in {d \in honest : Len(d.losses) = 1}}

Captured(data, paused, failed) ==
  [data |-> data, paused |-> paused, failed |-> failed, lost |-> Cardinality(Missing(data))]

Pass == Honest(1, [i \in 1..Length |-> CASE i = 2 -> "lost" [] i = 3 -> "loss" [] OTHER -> "frames"])

Build(revision, sound) == [revision |-> revision, elf |-> revision, sound |-> sound]
Program(revision, target, ok) ==
  [target |-> target, build |-> Build(revision, TRUE), elf |-> revision, ok |-> ok]
Compare(revision, target, ok) == [target |-> target, elf |-> revision, ok |-> ok]
Artifact(status, cycles) == [status |-> status, physical |-> TRUE, cycles |-> cycles]

Run(frames, gaps, loss, rate, traffic) ==
  [frames |-> frames,
   summary |-> [frames |-> Len(frames), gaps |-> gaps, loss |-> loss, rate |-> rate, traffic |-> traffic]]

MCPinnedRuns ==
  [initial_failure |-> Run(<<1, 2, 4>>, 1, TRUE, "full", "whole"),
   qualified |-> Run(<<14, 15, 1, 2>>, 0, FALSE, "full", "whole"),
   diagnostic |-> Run(<<1, 2>>, 0, FALSE, "burst", "late")]

(* The recorded reconciliation of the committed capture.                    *)
Recorded == [event |-> TRUE, recovery |-> TRUE, channel |-> FALSE, observed |-> 1, declared |-> 1,
             status |-> "PARTIAL"]

ASSUME RecordedAssumption == Recorded = reconcile(Pass)

MCInputs ==
  [build |-> Build(1, TRUE), elf |-> 1, program |-> Program(1, "known", TRUE),
   compare |-> Compare(1, "known", TRUE),
   capture |-> Captured(Pass, TRUE, TRUE), recorded |-> Recorded,
   tool |-> "pinned", reconciler |-> 1, git |-> [head |-> 1, dirty |-> TRUE],
   hotplug_artifact |-> Artifact("PASS", 1), anchor |-> "pinned", runs |-> MCPinnedRuns,
   documents |-> [name \in Documents |-> "good"]]

FirmwareEdits ==
  {[build |-> Build(2, TRUE), elf |-> 2, program |-> Program(2, target, TRUE),
    compare |-> Compare(2, target, TRUE)] : target \in {"known", "other"}}
  \cup {[build |-> Build(2, TRUE)], [build |-> Build(1, FALSE)], [elf |-> 2],
        [program |-> Program(2, "known", TRUE)], [program |-> Program(1, "known", FALSE)],
        [compare |-> Compare(2, "known", TRUE)], [compare |-> Compare(1, "known", FALSE)]}

RunEdits ==
  {[runs |-> [MCPinnedRuns EXCEPT !.qualified = run]] :
     run \in {Run(<<1, 2, 4, 5>>, 1, FALSE, "full", "whole"), Run(<<1, 2, 4, 5>>, 0, FALSE, "full", "whole"),
              Run(<<1, 2, 3>>, 0, FALSE, "full", "whole")}}
  \cup {[runs |-> [MCPinnedRuns EXCEPT !.diagnostic = Run(<<1, 2, 3>>, 0, FALSE, "burst", "late")]],
        [runs |-> [MCPinnedRuns EXCEPT !.initial_failure = Run(<<1, 3>>, 1, TRUE, "full", "late")]]}

OtherEdits ==
  {[recorded |-> [Recorded EXCEPT !.observed = 2, !.declared = 2]],
   [tool |-> "other"], [anchor |-> "other"], [anchor |-> "other", tool |-> "other"],
   [reconciler |-> 2], [git |-> [head |-> 2, dirty |-> TRUE]], [git |-> [head |-> 2, dirty |-> FALSE]],
   [hotplug_artifact |-> Artifact("PASS", 2)], [hotplug_artifact |-> Artifact("FAIL", 1)]}
  \cup {[documents |-> [MCInputs.documents EXCEPT ![name] = "other"]] : name \in {"analyzer", "readiness"}}

Recaptures == {[capture |-> Captured(data, TRUE, TRUE), recorded |-> reconcile(data)] : data \in Data}
                \cup {[capture |-> Captured(data, TRUE, TRUE)] : data \in Spoiled(Pass)}
                \cup {[capture |-> Captured(Pass, TRUE, FALSE)], [capture |-> Captured(Pass, FALSE, TRUE)]}

MCEdits == FirmwareEdits \cup RunEdits \cup OtherEdits \cup Recaptures
=============================================================================
