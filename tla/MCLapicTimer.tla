---------------------------- MODULE MCLapicTimer ----------------------------
(* A tick of 40 units, so that 1 % of the 200 units measured is 2; references *)
(* that run true, slow by the factor 2.3 the source reports, and fast; timers *)
(* that are and are not fast enough; a stall of more than two ticks.          *)
EXTENDS LapicTimer

\* A machine that calibrates needs the PIT whatever else it has, and starts
\* with a silent timer: two settings that change nothing are fixed there.
Calibrates(f) == f.usable /\ ~f.disabled /\ ~f.deadline /\ ~f.known
MCMachines ==
  {f \in Confs : /\ f.deadline => f.tsc
                 /\ Calibrates(f) => f.arat /\ ~f.hpet /\ ~f.stale /\ f.x2 = f.up}

MCTicks == {40, 92, 15}
MCRates == {1, 3, 40}
MCPmStarts == {0, 4000}
MCStalls == {0, 90}
=============================================================================
