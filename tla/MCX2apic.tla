------------------------------ MODULE MCX2apic ------------------------------
(* Two application processors: one comes up while the other runs.          *)
EXTENDS X2apic

MCAps == {"ap1", "ap2"}
MCDests == {"near", "far"}
=============================================================================
