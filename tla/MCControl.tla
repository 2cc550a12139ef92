----------------------------- MODULE MCControl -----------------------------
(* UcanControl with a cache of two entries and three requests: one that the *)
(* session executes once, one that it would execute every time, and one that*)
(* it refuses.  Three sequences are one more than the cache holds.          *)
EXTENDS UcanControl

MCRequests ==
  {[type |-> "START_CAPTURE", expected |-> 1],
   [type |-> "RESET_DIAGNOSTICS", expected |-> 1],
   [type |-> "STOP_CAPTURE", expected |-> 0]}
=============================================================================
