------------------------------ MODULE MC_DvXmit ------------------------------
(* Model values for checking DvXmit with TLC. *)
EXTENDS DvXmit

CONSTANTS s1, s2

MCOneStream == {s1}
MCTwoStreams == {s1, s2}
MCPal == {TRUE}
MCNtsc == {FALSE}
MCSystems == {TRUE, FALSE}
=============================================================================
