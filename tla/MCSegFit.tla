------------------------------ MODULE MCSegFit ------------------------------
(* Small instances of SegFit for TLC, on a fresh mapping: all zero.        *)
EXTENDS SegFitInv

ZeroMem == {[a \in WordAddr |-> 0]}
=============================================================================
