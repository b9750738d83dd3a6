------------------------------ MODULE MCMemDump ------------------------------
(* A page of two words: every level has its own bit of the page number, and  *)
(* the alignment of huge pages matters with four frames.                     *)
EXTENDS MemDump

MCEntry(f, p, pse, nx) == [frame |-> f, p |-> p, pse |-> pse, nx |-> nx, b41 |-> FALSE]
MCVas == {5, 10}
\* Nothing, not present, a table or page, no-execute, huge and huge no-execute.
MCTableWords ==
  {Zero} \cup {MCEntry(f, FALSE, FALSE, FALSE) : f \in {1}}
    \cup {MCEntry(f, TRUE, pse, nx) : f \in 1..3, pse \in BOOLEAN, nx \in BOOLEAN}
\* Tables and data pages as the kernel sets them up, and no-execute huge pages.
MCHugeWords == {MCEntry(f, TRUE, FALSE, FALSE) : f \in 1..3}
                 \cup {MCEntry(f, TRUE, TRUE, TRUE) : f \in 2..3}
=============================================================================
