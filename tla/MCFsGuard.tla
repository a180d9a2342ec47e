------------------------------ MODULE MCFsGuard ------------------------------
(* Instances of FsGuard for TLC. *)
EXTENDS FsGuard

CONSTANTS in1, in2, out1

MCPlace  == {in1, in2, out1}
MCInside == {in1, in2}
===============================================================================
