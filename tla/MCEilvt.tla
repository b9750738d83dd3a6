------------------------------ MODULE MCEilvt ------------------------------
(* One offset is enough: calls for different offsets share no state.       *)
EXTENDS Eilvt

MCOffsets == {0}
MCVectors == {1, 2}
\* Drivers that enable their vector; that also mask it and give the offset up
Enables == [vec : MCVectors, masked : {FALSE}]
Claims == [vec : MCVectors, masked : BOOLEAN]
MCMenus == {Enables, Claims \cup {Free}}
MCBios == {Empty, Free, [vec |-> 1, masked |-> FALSE]}
=============================================================================
