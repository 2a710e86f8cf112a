---------------------------- MODULE MCCloseEvents ----------------------------
(* Model-checking instance of CloseEvents: session names are interchangeable. *)
EXTENDS CloseEvents, TLC

Symmetry == Permutations(Name)
=============================================================================
