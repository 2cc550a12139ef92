------------------------------ MODULE MCEgress ------------------------------
(* UcanEgress at the smallest sizes at which the rings fill and refill from *)
(* each other: one place per ring, two accumulators and two slots, so that  *)
(* an accumulator is taken while another is flushed and a result waits      *)
(* behind another.  MCEgressControl gives the critical rings two places, so *)
(* that an edge and a result queue together.                                *)
EXTENDS UcanEgress

OneOfEach == 1
Two == 2
=============================================================================
