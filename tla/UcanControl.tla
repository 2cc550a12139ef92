---------------------------- MODULE UcanControl ----------------------------
(***************************************************************************)
(* The request gate of ucan_session_handle_frame in                        *)
(* protocol/v1/c/ucan_session.c: version check, HELLO-first, the replay    *)
(* cache with its retention window, BUSY, and the commands behind it as    *)
(* what they do to the generations and the capture state.  Commands other  *)
(* than START_CAPTURE, STOP_CAPTURE and RESET_DIAGNOSTICS act on parts of  *)
(* the session that UcanTx and UcanEgress model; to the gate they are      *)
(* compare-and-set commands like these two.                                *)
(***************************************************************************)
EXTENDS UcanClock, Sequences, FiniteSets

CONSTANTS
  RequestSequences, \* sequence numbers a host uses
  Requests,         \* the requests a host sends: type and decoded payload
  NReplay,          \* UCAN_SESSION_REPLAY_ENTRIES
  Retention,        \* replay_retention_ms in ticks
  MaxGeneration     \* bound: last config or diagnostics generation

CasType  == {"START_CAPTURE", "STOP_CAPTURE"}
SideEffectType == CasType \cup {"RESET_DIAGNOSTICS"}   \* is_side_effect

(* The bytes of a request that the cache compares are its type and payload. *)
(* Of the payload only the expected generation matters (of a reset: that it *)
(* has a mask); 0 stands for a payload that does not decode.                *)
ASSUME ControlAssumption ==
  /\ RequestSequences \subseteq Nat \ {0}
  /\ Requests \subseteq [type: SideEffectType, expected: Nat]
  /\ NReplay \in Nat \ {0}
  /\ Retention \in Nat
  /\ MaxTick \in Nat /\ MaxGeneration \in Nat \ {0}

VARIABLES
  negotiated,         \* HELLO succeeded
  config_generation,
  capture_state,
  capture_generation,
  diag_generation,
  replay,             \* the replay cache: per slot an entry, or Empty
  (* history: *)
  executions          \* side-effect requests executed, oldest first

gate == <<tick, negotiated, config_generation, capture_state, capture_generation,
          diag_generation, replay, executions>>

ReplaySlots == 1..NReplay
Status == {"OK", "BAD_STATE", "BUSY", "INVALID_ARGUMENT", "INCOMPATIBLE_VERSION"}
Entry == [sequence: RequestSequences, request: Requests, stored_tick: 0..MaxTick,
          status: Status]
Empty == [sequence |-> 0]

GateTypeOK ==
  /\ tick \in 0..MaxTick
  /\ negotiated \in BOOLEAN
  /\ config_generation \in 1..MaxGeneration
  /\ capture_state \in {"STOPPED", "STARTED"}
  /\ capture_generation \in 1..MaxGeneration
  /\ diag_generation \in 1..MaxGeneration
  /\ replay \in [ReplaySlots -> Entry \cup {Empty}]
  /\ executions \in Seq([sequence: RequestSequences, tick: 0..MaxTick])

GateInit ==
  /\ tick = 0
  /\ negotiated = FALSE
  /\ config_generation = 1
  /\ capture_state = "STOPPED" /\ capture_generation = 1
  /\ diag_generation = 1
  /\ replay = [i \in ReplaySlots |-> Empty]
  /\ executions = <<>>
-----------------------------------------------------------------------------
Stored      == {i \in ReplaySlots : replay[i] # Empty}
Retained(i) == tick - replay[i].stored_tick <= Retention

(* replay_hit: the first entry of the sequence that either holds the same   *)
(* bytes within retention or other bytes, at whatever age.                  *)
Hits(sequence, request) ==
  {i \in Stored : /\ replay[i].sequence = sequence
                  /\ replay[i].request = request => Retained(i)}

(* replay_cache_full_of_retention.                                          *)
CacheFullOfRetention == Stored = ReplaySlots /\ \A i \in ReplaySlots : Retained(i)

(* replay_store: the first empty slot, else the first of the oldest.        *)
StoreSlot ==
  IF Stored # ReplaySlots
  THEN {i \in ReplaySlots \ Stored : \A j \in ReplaySlots \ Stored : i <= j}
  ELSE {i \in ReplaySlots : \A j \in ReplaySlots :
          \/ replay[i].stored_tick < replay[j].stored_tick
          \/ replay[i].stored_tick = replay[j].stored_tick /\ i <= j}

(* Mutant: an entry is stamped with the tick at which it expires.           *)
ReplayStoreExpiry(sequence, request, status) ==
  \E i \in StoreSlot :
    replay' = [replay EXCEPT ![i] = [sequence |-> sequence, request |-> request,
                                     stored_tick |-> tick + Retention + 1,
                                     status |-> status]]

ReplayStore(sequence, request, status) ==
  \E i \in StoreSlot :
    replay' = [replay EXCEPT ![i] = [sequence |-> sequence, request |-> request,
                                     stored_tick |-> tick, status |-> status]]

session == <<config_generation, capture_state, capture_generation, diag_generation>>

(* response_error of a side-effect request: nothing but the cache changes.  *)
Refuse(sequence, request, status) ==
  /\ ReplayStore(sequence, request, status)
  /\ UNCHANGED <<tick, negotiated, session, executions>>

IncompatibleVersion(sequence, request) ==
  negotiated /\ Refuse(sequence, request, "INCOMPATIBLE_VERSION")

BeforeHello(sequence, request) ==
  ~negotiated /\ Refuse(sequence, request, "BAD_STATE")

(* A retained byte-identical request gets its cached response and one that  *)
(* reuses a sequence for other bytes BAD_STATE: no state changes.           *)
Replayed(sequence, request) ==
  Hits(sequence, request) # {}

(* Mutant: a full cache is not refused.                                     *)
NeverBusy(sequence, request) == FALSE

(* A request that no entry answers is refused while all are retained.       *)
IsBusy(sequence, request) ==
  ~Replayed(sequence, request) /\ CacheFullOfRetention

Busy(sequence, request) ==
  negotiated /\ IsBusy(sequence, request) /\ Refuse(sequence, request, "BUSY")

(* A request that reaches the switch.                                       *)
Fresh(sequence, request) ==
  negotiated /\ ~Replayed(sequence, request) /\ ~IsBusy(sequence, request)

Malformed(sequence, request) ==
  /\ Fresh(sequence, request)
  /\ request.expected = 0
  /\ Refuse(sequence, request, "INVALID_ARGUMENT")

CasMismatch(sequence, request) ==
  /\ Fresh(sequence, request)
  /\ request.type \in CasType
  /\ request.expected # 0 /\ request.expected # config_generation
  /\ Refuse(sequence, request, "BAD_STATE")

Executes(sequence, request) ==
  /\ Fresh(sequence, request)
  /\ executions' = Append(executions, [sequence |-> sequence, tick |-> tick])
  /\ ReplayStore(sequence, request, "OK")
  /\ UNCHANGED <<tick, negotiated>>

(* START_CAPTURE and STOP_CAPTURE past their checks.                        *)
Capture(sequence, request) ==
  LET generation == config_generation + 1
  IN  /\ request.type \in CasType
      /\ request.expected = config_generation
      /\ generation <= MaxGeneration
      /\ Executes(sequence, request)
      /\ config_generation' = generation
      /\ capture_generation' = generation
      /\ capture_state' = IF request.type = "START_CAPTURE" THEN "STARTED" ELSE "STOPPED"
      /\ UNCHANGED diag_generation

(* RESET_DIAGNOSTICS: no compare-and-set; only the cache keeps a retry from *)
(* resetting twice.                                                         *)
ResetDiagnostics(sequence, request) ==
  /\ request.type = "RESET_DIAGNOSTICS"
  /\ request.expected # 0
  /\ diag_generation < MaxGeneration
  /\ Executes(sequence, request)
  /\ diag_generation' = diag_generation + 1
  /\ UNCHANGED <<config_generation, capture_state, capture_generation>>

(* HELLO with a compatible range; a repeated one only reports.              *)
Hello ==
  /\ ~negotiated
  /\ negotiated' = TRUE
  /\ UNCHANGED <<tick, session, replay, executions>>

GateTick ==
  /\ tick < MaxTick
  /\ tick' = tick + 1
  /\ UNCHANGED <<negotiated, session, replay, executions>>

HandleFrame(sequence, request) ==
  \/ IncompatibleVersion(sequence, request)
  \/ BeforeHello(sequence, request)
  \/ Busy(sequence, request)
  \/ Malformed(sequence, request)
  \/ CasMismatch(sequence, request)
  \/ Capture(sequence, request)
  \/ ResetDiagnostics(sequence, request)

GateNext ==
  \/ \E sequence \in RequestSequences, request \in Requests : HandleFrame(sequence, request)
  \/ Hello
  \/ GateTick

GateSpec == GateInit /\ [][GateNext]_gate
-----------------------------------------------------------------------------
(* Properties.                                                              *)

(* The retained entries are the youngest: what leaves the cache is older    *)
(* than all that stays, so a full cache of retained entries is what guards  *)
(* a request whose entry is gone.                                           *)
EvictedAreGuarded ==
  \A i \in 1..Len(executions) :
     tick - executions[i].tick <= Retention =>
       \/ \E k \in Stored : /\ replay[k].sequence = executions[i].sequence
                            /\ replay[k].stored_tick >= executions[i].tick
       \/ /\ Stored = ReplaySlots
          /\ \A k \in ReplaySlots : replay[k].stored_tick >= executions[i].tick

(* A host that repeats a request whose response it lost changes nothing a   *)
(* second time, and a sequence reused for other bytes changes nothing at    *)
(* all: within retention a sequence executes once, although refusals of     *)
(* other requests push entries out of the cache.                            *)
ExecutesOnce ==
  /\ EvictedAreGuarded
  /\ \A i, j \in 1..Len(executions) :
       i < j /\ executions[i].sequence = executions[j].sequence =>
         executions[j].tick - executions[i].tick > Retention
=============================================================================
