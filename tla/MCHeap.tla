------------------------------- MODULE MCHeap -------------------------------
(***************************************************************************)
(* Heap for TLC: enough devices for generate to meet one of each kind, in  *)
(* every order, before the one that ends the loop, and enough options for  *)
(* each of -p, -r and -n to come again, and for two of the passphrase with *)
(* one of the PIN between them.                                            *)
(***************************************************************************)
EXTENDS Heap

MCMaxDevices == 4

MCMaxOptions == 3

=============================================================================
