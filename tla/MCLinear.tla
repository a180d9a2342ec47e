------------------------------ MODULE MCLinear ------------------------------
(* A small instance of Linear for TLC. *)
EXTENDS Linear, TLC

Interchangeable == Permutations(Boxes) \cup Permutations(Fields)
=============================================================================
