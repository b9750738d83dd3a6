------------------------------ MODULE MCCpuEnum ------------------------------
(* Six APICs for four logical CPUs: every limit is reached.                *)
EXTENDS CpuEnum

MCApicIds == 0..5
=============================================================================
