----------------------------- MODULE MCLatency -----------------------------
(* InterruptLatency on the small instances of MCMOS6502. *)
EXTENDS MCMOS6502, InterruptLatency
=============================================================================
