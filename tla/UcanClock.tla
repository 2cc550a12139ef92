------------------------------ MODULE UcanClock ------------------------------
(***************************************************************************)
(* The clock of a session of protocol/v1/c/ucan_session.c: s->tick, which  *)
(* ucan_session_tick advances and which the replay cache of UcanControl    *)
(* and the transmit path of UcanTx both read.                              *)
(***************************************************************************)
EXTENDS Integers

CONSTANT MaxTick \* bound: last tick

VARIABLE tick
=============================================================================
