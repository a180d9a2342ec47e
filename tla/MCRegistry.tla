------------------------------ MODULE MCRegistry ------------------------------
(* Instances of Registry for TLC. *)
EXTENDS Registry

CONSTANTS c1, c2
TwoClients == {c1, c2}
===============================================================================
