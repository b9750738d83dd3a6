------------------------------ MODULE StaleClear ------------------------------
(***************************************************************************)
(* What apic_pending_intr_clear promises its caller: stale interrupts go    *)
(* away for good or not at all, the call returns, and it returns without a  *)
(* warning only when there are none.  Module PendingIntr implements it;     *)
(* LocalApic takes the whole call as one step.                              *)
(***************************************************************************)

VARIABLES
  stale,     \* an interrupt of an earlier kernel is requested or in service
  outcome    \* "busy", or how the call has returned

clearing == <<stale, outcome>>

Init == stale \in BOOLEAN /\ outcome = "busy"

\* The last stale interrupt is acknowledged.
Vanish ==
  /\ outcome = "busy" /\ stale
  /\ stale' = FALSE
  /\ UNCHANGED outcome

ReturnClear ==
  /\ outcome = "busy" /\ ~stale
  /\ outcome' = "clear"
  /\ UNCHANGED stale

\* The warning does not say that something is left.
ReturnWarned ==
  /\ outcome = "busy"
  /\ outcome' = "warn"
  /\ UNCHANGED stale

Next == Vanish \/ ReturnClear \/ ReturnWarned

Safety == Init /\ [][Next]_clearing

Spec == Safety /\ WF_clearing(ReturnClear \/ ReturnWarned)
=============================================================================
