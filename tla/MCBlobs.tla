------------------------------- MODULE MCBlobs -------------------------------
(* Two requests at a time; see the README for the bounds. *)
EXTENDS BlobApi, TLC

Symmetry == Permutations(Tasks) \cup Permutations(Hashes)
=============================================================================
