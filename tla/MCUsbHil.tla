------------------------------ MODULE MCUsbHil ------------------------------
(* Small instances of UsbHil: a window of 8, High-Speed packets of 4 and    *)
(* Full-Speed packets of 2.                                                 *)
EXTENDS UsbHil

Case(kind, arg) == [kind |-> kind, arg |-> arg]

MCCases == <<Case("fragment", 4), Case("fragment", 3), Case("backpressure", 0),
             Case("reset_idle", 0), Case("reset_pending", 4), Case("reset_pending", 8),
             Case("halt", EP_OUT), Case("halt", EP_IN)>>

Invocation(program, speed, forced, chunk, total, seconds) ==
  [program |-> program, speed |-> speed, forced |-> forced, chunk |-> chunk,
   total |-> total, seconds |-> seconds]

MCRuns ==
  {Invocation("matrix", "hs", FALSE, 0, 0, 0),
   Invocation("loopback", "hs", FALSE, 8, 24, 5), Invocation("loopback", "hs", FALSE, 4, 8, 5),
   Invocation("loopback", "hs", FALSE, 9, 9, 1),
   Invocation("fs", "fs", TRUE, 0, 17, 0), Invocation("fs", "fs", TRUE, 0, 12, 0),
   Invocation("fs", "fs", TRUE, 0, 10, 0), Invocation("fs", "fs", FALSE, 0, 16, 0),
   Invocation("fs", "hs", TRUE, 0, 16, 0)}
=============================================================================
