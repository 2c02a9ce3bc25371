------------------------------- MODULE MCCloud -------------------------------
(* The owner and one other user; see the README for the bounds. *)
EXTENDS Cloud, TLC

Symmetry == Permutations(Tasks)
=============================================================================
