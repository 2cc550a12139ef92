------------------------------ MODULE MCHealth ------------------------------
(* Small instances of TargetHealth: a heartbeat every two ticks.            *)
EXTENDS TargetHealth

MCRuns ==
  {[program |-> "rtos003", duration |-> 5, interval |-> 3],
   [program |-> "rtos003", duration |-> 4, interval |-> 3],
   [program |-> "rtos005", duration |-> 1, interval |-> 3],
   [program |-> "post_hil", duration |-> 0, interval |-> 1]}
=============================================================================
