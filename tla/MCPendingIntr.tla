---------------------------- MODULE MCPendingIntr ----------------------------
(* Four bits; an APIC that obeys and one that may not.                      *)
EXTENDS PendingIntr
=============================================================================
