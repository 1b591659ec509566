---------------------------- MODULE MCArithmetic ----------------------------
(* Arithmetic on every byte. *)
EXTENDS Arithmetic

AllBytes == 0..255
=============================================================================
