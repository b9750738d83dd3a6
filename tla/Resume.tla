-------------------------------- MODULE Resume --------------------------------
(***************************************************************************)
(* What the demo promises: a snapshot is the source at the instant it was   *)
(* stopped for good, and what a restore brings to life is the snapshot that *)
(* is there, whole, or nothing.  Module SnapRestore implements it as long   *)
(* as nothing worse happens than the harmless faults.                       *)
(***************************************************************************)
EXTENDS Integers

VARIABLES
  now,       \* the instant the source has reached
  saved,     \* the instant of the complete snapshot, 0 if there is none
  running    \* the instant the restored guest started from, 0 if none runs

resume == <<now, saved, running>>

Init == now = 0 /\ saved = 0 /\ running = 0

\* The source, which shares its disk with the target, does some work.
Work ==
  /\ running = 0 /\ now' > now
  /\ UNCHANGED <<saved, running>>

\* A snapshot is complete.  Nothing the source did before it ended is missing.
Take ==
  /\ saved = 0 /\ now # 0
  /\ saved' = now
  /\ UNCHANGED <<now, running>>

\* The next snapshot begins.
Discard ==
  /\ saved # 0 /\ running = 0
  /\ saved' = 0
  /\ UNCHANGED <<now, running>>

\* The restored guest starts to run.
Start ==
  /\ saved # 0 /\ running = 0
  /\ running' = saved
  /\ UNCHANGED <<now, saved>>

Stop ==
  /\ running # 0
  /\ running' = 0
  /\ UNCHANGED <<now, saved>>

Next == Work \/ Take \/ Discard \/ Start \/ Stop

Spec == Init /\ [][Next]_resume
=============================================================================
