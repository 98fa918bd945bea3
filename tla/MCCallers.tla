----------------------------- MODULE MCCallers ------------------------------
(***************************************************************************)
(* Callers for TLC: two callers, with one ssh key or two between them.     *)
(***************************************************************************)
EXTENDS Callers

CONSTANTS c, d, k, l

MCCaller == {c, d}
MCSshKey == {k, l}

=============================================================================
