----------------------------- MODULE MCZzzTimer -----------------------------
EXTENDS ZzzTimer
CONSTANTS c1, c2
MCTwo == {c1, c2}
=============================================================================
