---------------------------- MODULE MCAddLuksKey ----------------------------
(***************************************************************************)
(* AddLuksKey for TLC: a signal in a command, another in the cleanup for   *)
(* it, and a third in the cleanup for that one, or in what the script does *)
(* after it.                                                               *)
(***************************************************************************)
EXTENDS AddLuksKey

MCMaxSignals == 3

=============================================================================
